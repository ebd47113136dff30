---------------------------- MODULE Stage2Proofs ----------------------------
(***************************************************************************)
(* What holds of the loading of the kernel for every build and every       *)
(* drive, whatever the BIOS refuses: stage 2 goes on only with the whole   *)
(* kernel in its place, and no chunk comes down on stage 2 itself.         *)
(***************************************************************************)
EXTENDS Stage2, TLAPS

\* The CHS read after k chunks, of a kernel that the carry of the offset ends:
\* the ninth chunk would go to 0x10000.
After(k) ==
    /\ chs_left = IF 16 * k <= kernel THEN kernel - 16 * k ELSE kernel - 16 * k + SEGMENT
    /\ chs_lba = KERNEL_LBA_START + 16 * k
    /\ chs_seg = IF k < 8 THEN KERNEL_SEG ELSE 4095
    /\ chs_off = IF k < 8 THEN KERNEL_OFF + 8192 * k ELSE KERNEL_OFF
    /\ kernel % 16 = 0 => 16 * k <= kernel
    /\ Geometric => \A p \in 0..126 : p < 16 * k => mem[p] = KERNEL_LBA_START + p

Whole == \A p \in 0..(kernel - 1) : mem[p] = KERNEL_LBA_START + p

Inv ==
    /\ kernel \in 1..(SEGMENT - 1)
    /\ machine.heads \in 1..255 /\ machine.secs \in 1..63
    /\ pc \in {"lba", "packet", "fallback", "loop", "loaded"} => machine.cpu64
    /\ pc \in {"packet", "loaded"} => machine.drive
    /\ pc = "loop" => machine.drive \/ chs_left = kernel
    /\ (pc = "loop" /\ kernel <= 128) => \E k \in 0..8 : After(k)
    /\ (pc = "loaded" /\ InSegment /\ Geometric) => Whole
    /\ pc = "lost" => ~ (kernel % 16 = 0 /\ kernel <= 128)

-----------------------------------------------------------------------------
(* What a transfer does, and where a chunk comes from.                     *)

LEMMA InSegmentOffset ==
    \A n \in 0..127 : (16 + 512 * n) % 65536 = 16 + 512 * n
OBVIOUS

\* A transfer to the segment at 0xFFFF, from the place a on
FromPlace(a, lba, count) == Loaded(KERNEL_SEG, KERNEL_OFF + 512 * a, lba, count)

\* It puts each sector into the place that is as far from 1 MiB, up to the last
\* place the segment has a whole sector for.
LEMMA LoadedPlaces ==
    ASSUME NEW a \in Nat, NEW lba \in Int, NEW count \in Nat, a + count <= 128,
           NEW p \in 0..126
    PROVE  FromPlace(a, lba, count)[p] =
               IF a <= p /\ p < a + count THEN lba + (p - a) ELSE mem[p]
<1> DEFINE off == KERNEL_OFF + 512 * a
           At(j) == KERNEL_SEG * 16 + Offset(off, j) = MiB + SECTOR * p
           here == {j \in 0..(count - 1) : At(j)}
<1>1. p \in Places
  BY DEF Places
<1>2. FromPlace(a, lba, count)[p] =
        IF here = {} THEN mem[p]
        ELSE LET j == CHOOSE i \in here : \A k \in here : k <= i
             IN  IF machine.wraps /\ Offset(off, j) > SEGMENT - SECTOR
                 THEN Torn ELSE lba + j
  BY <1>1 DEF Loaded, FromPlace
<1>3. ASSUME NEW j \in 0..(count - 1)
      PROVE  Offset(off, j) = 16 + 512 * (a + j) /\ (At(j) <=> j = p - a)
  <2>1. off + SECTOR * j = 16 + 512 * (a + j) /\ a + j \in 0..127
    BY DEF KERNEL_OFF, SECTOR
  <2>2. Offset(off, j) = 16 + 512 * (a + j)
    BY <2>1, InSegmentOffset DEF Offset, SEGMENT
  <2> QED BY <2>2 DEF KERNEL_SEG, MiB, SECTOR
<1> HIDE DEF At, off
<1>4. CASE a <= p /\ p < a + count
  <2> DEFINE x == p - a
  <2>1. x \in 0..(count - 1)
    BY <1>4
  <2>2. here = {x}
    BY <1>3, <2>1
  <2> HIDE DEF here
  <2>3. (CHOOSE i \in here : \A k \in here : k <= i) = x
    BY <2>1, <2>2
  <2>4. Offset(off, x) = 16 + 512 * p
    BY <1>3, <2>1
  <2>5. ~ (Offset(off, x) > SEGMENT - SECTOR)
    BY <2>4 DEF SEGMENT, SECTOR
  <2> QED BY <1>2, <1>4, <2>2, <2>3, <2>5
<1>5. CASE ~ (a <= p /\ p < a + count)
  <2>1. \A j \in 0..(count - 1) : j # p - a
    BY <1>5
  <2>2. here = {}
    BY <1>3, <2>1
  <2> HIDE DEF here
  <2> QED BY <1>2, <1>5, <2>2
<1> QED BY <1>4, <1>5

\* A kernel that ends within the segment at 0xFFFF
LEMMA ShortKernel ==
    ASSUME kernel \in 1..(SEGMENT - 1), InSegment
    PROVE  kernel \in 1..127
<1>1. kernel \in Int /\ kernel >= 1 /\ 16 + kernel * 512 <= 65536
  BY SMTT(30) DEF InSegment, KERNEL_OFF, SECTOR, SEGMENT
<1>2. ~ (kernel >= 128)
  BY <1>1
<1> QED BY <1>1, <1>2

\* What SectorAt makes of lba2chs, for h heads and s sectors in a track
SectorOf(l, h, s) ==
    (((((l \div s) \div h) % 256) * h) + ((l \div s) % h)) * s + ((l % s) + 1) - 1

\* lba2chs names the sector it is given, on a drive of the geometry it uses.
LEMMA ChsNames ==
    ASSUME NEW l \in 0..255, NEW h \in 1..255, NEW s \in 1..63
    PROVE  SectorOf(l, h, s) = l
<1>1. l \div s \in Nat /\ l % s \in Nat /\ s * (l \div s) + (l % s) = l
      /\ l \div s <= l
  OBVIOUS
<1> DEFINE t == l \div s
<1>2. t \in 0..255 /\ s * t + (l % s) = l
  BY <1>1
<1> HIDE DEF t
<1>3. t \div h \in 0..255 /\ h * (t \div h) + (t % h) = t
  BY <1>2
<1>4. (t \div h) % 256 = t \div h
  BY <1>3
<1>5. ((t \div h) % 256) * h + (t % h) = t
  BY <1>2, <1>3, <1>4
<1>6. SectorOf(l, h, s) = t * s + ((l % s) + 1) - 1
  BY <1>5 DEF SectorOf, t
<1> QED BY <1>1, <1>2, <1>6

-----------------------------------------------------------------------------
(* The invariant.                                                          *)

LEMMA InitInv == Init => Inv
<1> SUFFICES ASSUME Init PROVE Inv
  OBVIOUS
<1>1. kernel \in 1..(SEGMENT - 1)
  BY Stage2Assumption DEF Init
<1>2. machine.heads \in 1..255 /\ machine.secs \in 1..63
  <2>1. PICK c \in BOOLEAN, d \in BOOLEAN, g \in Geometries,
             e \in {"none", "other", "packet"}, w \in BOOLEAN :
          machine = [cpu64 |-> c, drive |-> d, heads |-> g.heads, secs |-> g.secs,
                     ext |-> e, wraps |-> w]
    BY DEF Init, Machines
  <2> QED BY <2>1, Stage2Assumption
<1> QED BY <1>1, <1>2 DEF Init, Inv

\* The one call for the whole kernel
LEMMA LbaStep ==
    ASSUME Inv, ReadLba
    PROVE  Inv'
<1>1. UNCHANGED <<build, geometry, chs>> /\ pc = "packet" /\ pc' \in {"loaded", "fallback"}
  BY DEF ReadLba
<1>2. ASSUME pc' = "loaded", InSegment
      PROVE  Whole'
  <2>1. mem' = Loaded(KERNEL_SEG, KERNEL_OFF, KERNEL_LBA_START, kernel)
    BY <1>2 DEF ReadLba
  <2>2. kernel \in 1..127
    BY <1>2, ShortKernel DEF Inv
  <2>3. ASSUME NEW p \in 0..(kernel - 1)
        PROVE  mem'[p] = KERNEL_LBA_START + p
    <3>1. p \in 0..126 /\ KERNEL_LBA_START \in Int
      BY <2>2 DEF KERNEL_LBA_START
    <3>2. mem' = FromPlace(0, KERNEL_LBA_START, kernel)
      BY <2>1 DEF FromPlace, KERNEL_OFF
    <3>3. 0 + kernel <= 128 /\ kernel \in Nat
      BY <2>2
    <3>4. FromPlace(0, KERNEL_LBA_START, kernel)[p]
            = IF 0 <= p /\ p < 0 + kernel THEN KERNEL_LBA_START + (p - 0) ELSE mem[p]
      BY <3>1, <3>3, LoadedPlaces
    <3> QED BY <2>2, <3>1, <3>2, <3>4 DEF KERNEL_LBA_START
  <2> QED BY <1>1, <2>3 DEF Whole, build
<1> QED BY <1>1, <1>2 DEF Inv, build, geometry, chs, InSegment, Geometric

\* One chunk more
LEMMA ChunkStep ==
    ASSUME Inv, ReadChunk, kernel <= 128, NEW k \in 0..8, After(k)
    PROVE  /\ pc' = "loop" => k < 8 /\ After(k + 1)'
           /\ pc' = "lost" => ~ (kernel % 16 = 0)
<1>1. /\ UNCHANGED <<build, geometry>>
      /\ chs_left # 0
      /\ chs_lba' = chs_lba + 16 /\ chs_left' = (chs_left - 16) % SEGMENT
      /\ mem' = Loaded(chs_seg, chs_off, SectorAt(lba2chs.cyl, lba2chs.hd, lba2chs.sec), 16)
      /\ pc' = IF chs_seg * 16 + chs_off = SEGMENT THEN "lost" ELSE "loop"
  BY DEF ReadChunk, chs_cnt, MAX_CHS_READ
<1>2. kernel \in 1..128
  BY DEF Inv
<1>3. kernel % 16 = 0 => k < 8 /\ 16 * (k + 1) <= kernel
  BY <1>1, <1>2 DEF After
<1>4. CASE k = 8
  <2>1. chs_seg * 16 + chs_off = SEGMENT
    BY <1>4 DEF After, KERNEL_OFF, SEGMENT
  <2> QED BY <1>1, <1>3, <1>4, <2>1
<1>5. CASE k < 8
  <2>1. k \in 0..7 /\ chs_seg = KERNEL_SEG /\ chs_off = KERNEL_OFF + 512 * (16 * k)
    BY <1>5 DEF After
  <2>2. pc' = "loop"
    BY <1>1, <2>1 DEF KERNEL_SEG, KERNEL_OFF, SEGMENT
  <2>3. chs_left' = IF 16 * (k + 1) <= kernel THEN kernel - 16 * (k + 1)
                    ELSE kernel - 16 * (k + 1) + SEGMENT
    BY <1>1, <1>2, <2>1 DEF After, SEGMENT
  <2>4. chs_lba' = KERNEL_LBA_START + 16 * (k + 1)
    BY <1>1, <2>1 DEF After, KERNEL_LBA_START
  <2>5. /\ chs_seg' = IF k + 1 < 8 THEN KERNEL_SEG ELSE 4095
        /\ chs_off' = IF k + 1 < 8 THEN KERNEL_OFF + 8192 * (k + 1) ELSE KERNEL_OFF
    <3>1. /\ chs_off' = (chs_off + 8192) % 65536
          /\ chs_seg' = IF chs_off + 8192 < 65536 THEN chs_seg
                        ELSE (chs_seg + 4096) % 65536
      BY DEF ReadChunk, Advance, chs_cnt, MAX_CHS_READ, SECTOR, SEGMENT
    <3>2. chs_off = 16 + 8192 * k /\ chs_seg = 65535
      BY <1>5 DEF After, KERNEL_OFF, KERNEL_SEG
    <3> QED BY <2>1, <3>1, <3>2 DEF KERNEL_OFF, KERNEL_SEG
  <2>6. ASSUME Geometric', NEW p \in 0..126, p < 16 * (k + 1)
        PROVE  mem'[p] = KERNEL_LBA_START + p
    <3>1. /\ heads = machine.heads /\ secs_trk = machine.secs
          /\ heads \in 1..255 /\ secs_trk \in 1..63
      BY <1>1, <2>1, <2>4, <2>6 DEF Geometric, build, geometry, KERNEL_LBA_START, Inv
    <3>2. chs_lba \in 0..255 /\ chs_lba = 18 + 16 * k
      BY <2>1 DEF After, KERNEL_LBA_START
    <3>3. SectorAt(lba2chs.cyl, lba2chs.hd, lba2chs.sec) = chs_lba
      <4>1. SectorAt(lba2chs.cyl, lba2chs.hd, lba2chs.sec) = SectorOf(chs_lba, heads, secs_trk)
        BY <3>1 DEF SectorAt, lba2chs, SectorOf
      <4> QED BY <3>1, <3>2, <4>1, ChsNames
    <3>4. mem'[p] = IF 16 * k <= p /\ p < 16 * k + 16 THEN chs_lba + (p - 16 * k) ELSE mem[p]
      <4>1. mem' = FromPlace(16 * k, chs_lba, 16)
        BY <1>1, <2>1, <3>3 DEF FromPlace
      <4>2. 16 * k \in Nat /\ 16 * k + 16 <= 128 /\ chs_lba \in Int
        BY <2>1, <3>2
      <4> QED BY <4>1, <4>2, LoadedPlaces
    <3>5. CASE 16 * k <= p
      BY <2>1, <2>6, <3>2, <3>4, <3>5 DEF KERNEL_LBA_START
    <3>6. CASE p < 16 * k
      <4>1. Geometric
        BY <3>1 DEF Geometric
      <4> QED BY <2>1, <3>4, <3>6, <4>1 DEF After
    <3> QED BY <2>1, <3>5, <3>6
  <2>7. After(k + 1)'
    BY SMTT(30), <1>1, <1>3, <2>3, <2>4, <2>5, <2>6 DEF After, build
  <2> QED BY <1>5, <2>2, <2>7
<1> QED BY <1>4, <1>5

LEMMA InvStep == Inv /\ [Next]_stage2Vars => Inv'
<1> SUFFICES ASSUME Inv, [Next]_stage2Vars PROVE Inv'
  OBVIOUS
<1> USE DEF build, geometry, chs
<1>1. CASE get_drive_params \/ check_cpu64 \/ CheckLba
  BY <1>1 DEF get_drive_params, check_cpu64, CheckLba, Inv
<1>2. CASE ReadLba
  BY <1>2, LbaStep
<1>3. CASE StartChs
  <2>1. /\ UNCHANGED <<build, geometry, mem>> /\ pc = "fallback" /\ pc' = "loop"
        /\ chs_lba' = KERNEL_LBA_START /\ chs_left' = kernel
        /\ chs_seg' = KERNEL_SEG /\ chs_off' = KERNEL_OFF
    BY <1>3 DEF StartChs
  <2>2. After(0)'
    BY <2>1 DEF After, Inv, KERNEL_LBA_START, KERNEL_OFF
  <2> QED BY <2>1, <2>2 DEF Inv
<1>4. CASE ReadChunk
  <2>1. /\ UNCHANGED <<build, geometry>> /\ machine.drive /\ pc = "loop"
        /\ pc' \in {"loop", "lost"}
    BY <1>4 DEF ReadChunk
  <2>2. ASSUME kernel <= 128
        PROVE  /\ pc' = "loop" => \E k \in 0..8 : After(k)'
               /\ pc' = "lost" => ~ (kernel % 16 = 0)
    <3>1. PICK k \in 0..8 : After(k)
      BY <2>1, <2>2 DEF Inv
    <3>2. pc' = "loop" => k + 1 \in 0..8 /\ After(k + 1)'
      BY <1>4, <2>2, <3>1, ChunkStep
    <3>3. pc' = "lost" => ~ (kernel % 16 = 0)
      BY <1>4, <2>2, <3>1, ChunkStep
    <3> QED BY <3>2, <3>3
  <2> QED BY <2>1, <2>2 DEF Inv
<1>5. CASE ReadFailed
  BY <1>5 DEF ReadFailed, Inv
<1>6. CASE ChsDone
  <2>1. UNCHANGED <<build, geometry, chs, mem>> /\ pc = "loop" /\ chs_left = 0 /\ pc' = "loaded"
    BY <1>6 DEF ChsDone
  <2>2. kernel \in 1..(SEGMENT - 1) /\ machine.drive /\ machine.cpu64
    BY <2>1 DEF Inv
  <2>3. ASSUME InSegment, Geometric
        PROVE  Whole
    <3>1. kernel \in 1..127
      BY <2>2, <2>3, ShortKernel
    <3>2. PICK k \in 0..8 : After(k)
      BY <2>1, <3>1 DEF Inv
    <3>3. kernel = 16 * k
      BY <2>1, <3>1, <3>2 DEF After, SEGMENT
    <3> QED BY <2>3, <3>1, <3>2, <3>3 DEF After, Whole
  <2> QED BY <2>1, <2>2, <2>3 DEF Inv, InSegment, Geometric, Whole
<1>7. CASE UNCHANGED stage2Vars
  BY <1>7 DEF stage2Vars, Inv, After, InSegment, Geometric, Whole
<1> QED BY <1>1, <1>2, <1>3, <1>4, <1>5, <1>6, <1>7 DEF Next, read_chs

LEMMA Invariant == Spec => []Inv
<1> QED BY InitInv, InvStep, PTL DEF Spec

\* For every build and drive and whatever the BIOS refuses, stage 2 goes on only
\* with the whole kernel in its place, on a 64-bit processor.
THEOREM LoadingCorrect == Spec => []KernelWhole
<1>1. Inv => KernelWhole
  BY DEF Inv, KernelWhole, Whole
<1> QED BY <1>1, Invariant, PTL

\* A kernel of whole chunks that the carry of the offset ends is loaded without
\* a chunk on stage 2.
THEOREM SurvivalCorrect == Spec => []Stage2Survives
<1>1. Inv => Stage2Survives
  BY DEF Inv, Stage2Survives, MAX_CHS_READ
<1> QED BY <1>1, Invariant, PTL

=============================================================================
