--------------------------- MODULE StorageProofs ----------------------------
(***************************************************************************)
(* What holds of the registry and of the AHCI driver for every number of   *)
(* ports, disks and polls, every request and every HBA: the types, the     *)
(* order of the registry, that no command is left to the HBA, that a       *)
(* result of 0 means a completed command, that the list of a port is       *)
(* replaced once its engine is seen stopped, that the PRD entry fits the   *)
(* buffer, that a FIS keeps the LBA and the count of the request, and that *)
(* the structures of the ports lie apart.                                  *)
(***************************************************************************)
EXTENDS Ahci, FiniteSetTheorems, TLAPS

Starting == {"stop", "stopwait", "bases", "run", "startwait"}
Calling == {"prepare", "issue", "ciwait", "status"}

\* Is ahci_detect_ports at a port?
Detecting ==
    \/ pc \in Starting \union {"detect"}
    \/ pc \in Calling /\ req.op = "identify"

\* The port that detection is at is one and has its structures, it is the port
\* of its IDENTIFY, and a command is only prepared for a port that was started.
PortInv ==
    /\ pc \in Starting
          => unit \in Ports /\ bases[unit] \in [list : Nat, fis : Nat, table : Nat]
    /\ (pc \in Calling /\ req.op = "identify")
          => unit \in Ports /\ req.port = unit /\ req.serial = 0
    /\ pc = "startwait" => st[unit]
    /\ pc \in Calling => st[req.port]
    /\ req.serial <= served

Registered(p) == \E i \in Slots : g_disks[i] = [driver |-> "ahci", unit |-> p]

\* A registered disk is at a port that was started, before the one detection
\* is at.
RegisteredInv ==
    /\ pc \in {"disk_init", "ata"} => ~ \E p \in Nat : Registered(p)
    /\ \A p \in Nat : Registered(p)
           => p \in Ports /\ st[p] /\ (Detecting => p < unit)

BaseInv == TypeOK /\ PortInv /\ RegisteredInv

LEMMA PhasesAre == Starting \union Calling \subseteq Phases
BY DEF Starting, Calling, Phases

-----------------------------------------------------------------------------
(* Types.                                                                  *)

LEMMA PollBitType ==
    ASSUME NEW sees, NEW then \in Phases, NEW giveup \in Phases,
           PollBit(sees, then, giveup), TypeOK
    PROVE  pc' \in Phases /\ polls' \in 0..(BIT_POLLS - 1)
BY AhciAssumption DEF PollBit, TypeOK

\* The count of polls left stays a word, also when it passes 0.
LEMMA TimeoutType ==
    ASSUME NEW n \in 0..(WORD - 1)
    PROVE  /\ (n - 1) % WORD \in 0..(WORD - 1)
           /\ n # 0 => (n - 1) % WORD = n - 1
           /\ n = 0 => (n - 1) % WORD = WORD - 1
BY AhciAssumption

LEMMA RegisterType ==
    ASSUME RegistryTypeOK, NEW disk \in Disk, disk_register(disk)
    PROVE  RegistryTypeOK'
<1>1. offered' \in Seq(Disk)
  BY DEF RegistryTypeOK, disk_register
<1>2. CASE g_disk_count >= MAX_DISKS
  BY <1>1, <1>2 DEF RegistryTypeOK, disk_register
<1>3. CASE g_disk_count < MAX_DISKS
  <2>1. g_disk_count \in Slots /\ g_disk_count + 1 \in 0..MAX_DISKS
    BY <1>3, DisksAssumption DEF RegistryTypeOK, Slots
  <2>2. /\ g_disks' = [g_disks EXCEPT ![g_disk_count] = disk]
        /\ g_disk_count' = g_disk_count + 1
    BY <1>3, DisksAssumption DEF RegistryTypeOK, disk_register
  <2> QED BY <1>1, <2>1, <2>2 DEF RegistryTypeOK
<1> QED BY <1>2, <1>3, DisksAssumption DEF RegistryTypeOK

LEMMA AlignedType ==
    ASSUME NEW ptr \in Nat, NEW align \in Nat \ {0}
    PROVE  Aligned(ptr, align) \in Nat
BY DEF Aligned

LEMMA StructuresType ==
    ASSUME NEW ptr \in Nat
    PROVE  /\ Structures(ptr).list \in Nat /\ Structures(ptr).fis \in Nat
           /\ Structures(ptr).table \in Nat /\ Structures(ptr).next \in Nat
<1> DEFINE list == Aligned(ptr, 1024)
           fis == Aligned(list + 1024, 256)
           table == Aligned(fis + 256, 4096)
<1>1. list \in Nat
  BY AlignedType
<1>2. fis \in Nat
  BY <1>1, AlignedType
<1>3. table \in Nat
  BY <1>2, AlignedType
<1> HIDE DEF list, fis, table
<1>4. Structures(ptr) = [list |-> list, fis |-> fis, table |-> table,
                         next |-> table + 4096]
  BY DEF Structures, list, fis, table
<1> QED BY <1>1, <1>2, <1>3, <1>4

LEMMA InitType == Init => TypeOK
<1> SUFFICES ASSUME Init PROVE TypeOK
  OBVIOUS
<1>1. RegistryTypeOK
  BY DisksAssumption DEF Init, DisksInit, RegistryTypeOK, Slots
<1>2. 0 \in Ports /\ 0 \in 0..(BIT_POLLS - 1) /\ 0 \in 0..(WORD - 1)
      /\ 0 \in 0..MaxRequests
  <2>1. NPORTS \in Nat \ {0} /\ BIT_POLLS \in Nat \ {0} /\ CMD_POLLS \in Nat
        /\ WORD \in Nat /\ WORD > CMD_POLLS + 1 /\ MaxRequests \in Nat
    BY AhciAssumption
  <2> QED BY <2>1 DEF Ports
<1>3. machine \in [Ports -> Signatures]
  BY AhciAssumption DEF Init
<1> QED BY <1>1, <1>2, <1>3 DEF Init, TypeOK, Phases

LEMMA HbaType == TypeOK /\ HbaStep => TypeOK'
<1> SUFFICES ASSUME TypeOK, HbaStep, NEW p \in Ports,
                    Engines(p) \/ Complete(p) \/ Fail(p)
             PROVE  TypeOK'
  BY DEF HbaStep
<1>1. RegistryTypeOK'
  BY DEF HbaStep, registry, RegistryTypeOK, TypeOK
<1>2. CASE Engines(p)
  BY <1>1, <1>2 DEF Engines, HbaStep, TypeOK, kernel, call, plug, aux
<1>3. CASE Complete(p)
  BY <1>1, <1>3 DEF Complete, HbaStep, TypeOK, kernel, call, plug, engine, aux
<1>4. CASE Fail(p)
  BY <1>1, <1>4 DEF Fail, HbaStep, TypeOK, kernel, call, plug, engine, aux
<1> QED BY <1>2, <1>3, <1>4

\* What the table says of a disk of the AHCI driver
LEMMA DiskGetPort ==
    ASSUME TypeOK, RegisteredInv, NEW i \in Int,
           disk_get(i) # NULL, disk_get(i).driver = "ahci"
    PROVE  disk_get(i).unit \in Ports /\ st[disk_get(i).unit]
<1> DEFINE d == disk_get(i)
<1>1. i \in Slots /\ d = g_disks[i]
  <2>1. ~(i < 0 \/ i >= g_disk_count)
    BY DEF disk_get
  <2>2. d = g_disks[i]
    BY <2>1 DEF disk_get
  <2>3. g_disk_count \in 0..MAX_DISKS
    BY DEF TypeOK, RegistryTypeOK
  <2> HIDE DEF d
  <2> QED BY <2>1, <2>2, <2>3, DisksAssumption DEF Slots
<1>2. d \in Disk
  BY <1>1 DEF TypeOK, RegistryTypeOK
<1>3. d.unit \in Nat /\ d = [driver |-> "ahci", unit |-> d.unit]
  BY <1>2 DEF Disk
<1>4. Registered(d.unit)
  BY <1>1, <1>3 DEF Registered
<1> QED BY <1>3, <1>4 DEF RegisteredInv

LEMMA WordType ==
    /\ WORD \in Nat \ {0} /\ WORD * WORD \in Nat \ {0}
    /\ \A n \in Int : n % WORD \in 0..(WORD - 1) /\ n % (WORD * WORD) \in Nat
<1>1. WORD \in Nat \ {0}
  BY AhciAssumption
<1>2. WORD * WORD \in Nat \ {0}
  BY <1>1
<1>3. \A n \in Int, w \in Nat \ {0} : n % w \in 0..(w - 1)
  OBVIOUS
<1> QED BY <1>1, <1>2, <1>3

LEMMA UserType == TypeOK /\ RegisteredInv /\ User => TypeOK'
<1> SUFFICES ASSUME TypeOK, RegisteredInv, NEW r \in Requests, Request(r)
             PROVE  TypeOK'
  BY DEF User
<1> DEFINE d == disk_get(r.disk)
<1>1. RegistryTypeOK'
  BY DEF Request, registry, RegistryTypeOK, TypeOK
<1>2. /\ served' \in 0..MaxRequests /\ served + 1 \in 0..MaxRequests
  BY AhciAssumption DEF Request, TypeOK
<1>3. \/ d = NULL /\ reply' = "invalide" /\ UNCHANGED <<pc, req>>
      \/ d # NULL /\ reply' = "erreur" /\ UNCHANGED <<pc, req>>
      \/ d # NULL /\ \E room \in Buffers(r.count) : Dispatch(r, d, room)
  BY DEF Request
<1>4. CASE UNCHANGED <<pc, req>> /\ reply' \in {"invalide", "erreur", "lu"}
  BY <1>1, <1>2, <1>4
     DEF Request, TypeOK, kernel, plug, engine, slot, aux
<1>5. ASSUME d # NULL, NEW room \in Buffers(r.count), Dispatch(r, d, room),
             d.driver = "ahci"
      PROVE  TypeOK'
  <2>1. /\ r.op \in {"read", "write"} /\ r.lba \in Int /\ r.count \in Int
        /\ r.disk \in Int /\ room \in Nat
    BY <1>5, AhciAssumption DEF Buffers
  <2>2. d.unit \in Ports
    BY <1>5, <2>1, DiskGetPort
  <2>3. /\ reply' = "none" /\ pc' = "prepare"
        /\ req' = [op |-> r.op, port |-> d.unit, lba |-> r.lba % (WORD * WORD),
                   count |-> r.count % WORD, room |-> room, serial |-> served + 1]
    BY <1>5 DEF Dispatch
  <2>4. r.lba % (WORD * WORD) \in Nat /\ r.count % WORD \in Nat
    <3>1. \A n \in Int, w \in Nat \ {0} : n % w \in Nat
      OBVIOUS
    <3>2. r.lba \in Int /\ r.count \in Int
      BY <2>1
    <3>3. WORD \in Nat \ {0} /\ WORD * WORD \in Nat \ {0}
      BY WordType
    <3> QED BY <3>1, <3>2, <3>3, Zenon
  <2> HIDE DEF d
  <2> QED
    BY <1>1, <1>2, <2>1, <2>2, <2>3, <2>4
       DEF Request, TypeOK, Phases, kernel, plug, engine, slot, aux
<1> HIDE DEF d
<1> QED BY <1>3, <1>4, <1>5 DEF Dispatch

LEMMA BootType ==
    ASSUME TypeOK, DiskInit \/ AtaDetect \/ Search \/ DetectPort \/ Detected
    PROVE  TypeOK'
<1>1. CASE DiskInit
  <2>1. RegistryTypeOK'
    BY <1>1, DisksAssumption DEF DiskInit, disk_init, RegistryTypeOK, TypeOK
  <2> QED
    BY <1>1, <2>1 DEF DiskInit, TypeOK, Phases, kernel, call, plug, engine, slot, aux
<1>2. CASE AtaDetect
  <2>1. [driver |-> "ata", unit |-> unit] \in Disk
    BY DEF TypeOK, Disk, Drivers
  <2>2. RegistryTypeOK'
    <3>1. CASE disk_register([driver |-> "ata", unit |-> unit])
      BY <2>1, <3>1, RegisterType DEF TypeOK
    <3>2. CASE UNCHANGED registry
      BY <3>2 DEF registry, RegistryTypeOK, TypeOK
    <3> QED BY <1>2, <3>1, <3>2 DEF AtaDetect
  <2> QED
    BY <1>2, <2>2 DEF AtaDetect, TypeOK, call, plug, engine, slot, aux
<1>3. CASE Search
  <2>1. RegistryTypeOK'
    BY <1>3 DEF Search, registry, RegistryTypeOK, TypeOK
  <2> QED
    BY <1>3, <2>1 DEF Search, TypeOK, Phases, call, plug, engine, slot, aux
<1>4. CASE DetectPort
  <2>1. RegistryTypeOK'
    BY <1>4 DEF DetectPort, registry, RegistryTypeOK, TypeOK
  <2>2. CASE machine[unit] \in {"ata", "atapi"}
    <3> DEFINE s == Structures(g_mem_alloc_ptr)
    <3>1. /\ s.list \in Nat /\ s.fis \in Nat /\ s.table \in Nat /\ s.next \in Nat
      BY StructuresType DEF TypeOK
    <3>2. /\ bases' = [bases EXCEPT ![unit] =
                          [list |-> s.list, fis |-> s.fis, table |-> s.table]]
          /\ g_mem_alloc_ptr' = s.next /\ pc' = "stop" /\ unit' = unit
      BY <1>4, <2>2 DEF DetectPort
    <3> HIDE DEF s
    <3>3. bases' \in [Ports -> [list : Nat, fis : Nat, table : Nat] \union {NULL}]
      BY <3>1, <3>2 DEF TypeOK
    <3> QED
      BY <1>4, <2>1, <3>1, <3>2, <3>3
         DEF DetectPort, TypeOK, Phases, call, plug, engine, slot, aux
  <2>3. CASE machine[unit] \notin {"ata", "atapi"}
    BY <1>4, <2>1, <2>3 DEF DetectPort, TypeOK, call, plug, engine, slot, aux
  <2> QED BY <2>2, <2>3
<1>5. CASE Detected
  <2>1. RegistryTypeOK'
    BY <1>5 DEF Detected, registry, RegistryTypeOK, TypeOK
  <2> QED
    BY <1>5, <2>1 DEF Detected, TypeOK, Phases, kernel, call, plug, engine, slot, aux
<1> QED BY <1>1, <1>2, <1>3, <1>4, <1>5

LEMMA StartType ==
    ASSUME TypeOK, PortInv, ClearSt \/ StopWait \/ SetBases \/ Run \/ StartWait
    PROVE  TypeOK'
<1>1. RegistryTypeOK'
  BY DEF ClearSt, StopWait, SetBases, Run, StartWait, registry, RegistryTypeOK, TypeOK
<1>2. unit \in Ports /\ unit \in Nat
  BY DEF ClearSt, StopWait, SetBases, Run, StartWait, PortInv, Starting, TypeOK
<1>3. 0 \in 0..(BIT_POLLS - 1)
  BY AhciAssumption
<1>4. CASE ClearSt
  BY <1>1, <1>2, <1>3, <1>4 DEF ClearSt, TypeOK, Phases, kernel, plug, slot, aux
<1>5. CASE StopWait
  <2>1. pc' \in Phases /\ polls' \in 0..(BIT_POLLS - 1)
    BY <1>5, PollBitType DEF StopWait, Phases
  <2> QED
    BY <1>1, <1>2, <1>5, <2>1 DEF StopWait, TypeOK, kernel, plug, engine, slot, aux
<1>6. CASE SetBases
  <2>1. clb' \in [Ports -> Nat]
    BY <1>2, <1>6 DEF SetBases, PortInv, Starting, TypeOK
  <2> QED
    BY <1>1, <1>6, <2>1 DEF SetBases, TypeOK, Phases, kernel, call, plug, slot, aux
<1>7. CASE Run
  BY <1>1, <1>2, <1>3, <1>7 DEF Run, TypeOK, Phases, kernel, plug, slot, aux
<1>8. CASE StartWait
  <2>1. pc' \in Phases /\ polls' \in 0..(BIT_POLLS - 1)
    BY <1>8, PollBitType DEF StartWait, Phases
  <2>2. unit' \in Nat
    BY <1>2, <1>8 DEF StartWait
  <2>3. 0 \in 0..MaxRequests
    BY AhciAssumption
  <2> QED
    BY <1>1, <1>2, <1>8, <2>1, <2>2, <2>3
       DEF StartWait, TypeOK, plug, engine, slot, aux
<1> QED BY <1>4, <1>5, <1>6, <1>7, <1>8

LEMMA CallType ==
    ASSUME TypeOK, PortInv, Prepare \/ Issue \/ PollCi \/ Identified \/ Status
    PROVE  TypeOK'
<1>1. CASE Prepare
  <2>1. RegistryTypeOK'
    BY <1>1 DEF Prepare, registry, RegistryTypeOK, TypeOK
  <2> QED
    BY <1>1, <2>1 DEF Prepare, TypeOK, Phases, kernel, call, plug, engine, slot, aux
<1>2. CASE Issue
  <2>1. RegistryTypeOK'
    BY <1>2 DEF Issue, registry, RegistryTypeOK, TypeOK
  <2>2. timeout' \in 0..(WORD - 1)
    BY <1>2, AhciAssumption DEF Issue
  <2>3. req.port \in Ports /\ req.serial \in 0..MaxRequests
    BY DEF TypeOK
  <2>4. took' \in [Ports -> 0..MaxRequests]
    BY <1>2, <2>3 DEF Issue, TypeOK
  <2> QED
    BY <1>2, <2>1, <2>2, <2>3, <2>4
       DEF Issue, TypeOK, Phases, kernel, plug, engine, aux
<1>3. CASE PollCi
  <2>1. RegistryTypeOK'
    BY <1>3 DEF PollCi, registry, RegistryTypeOK, TypeOK
  <2>2. timeout' \in 0..(WORD - 1)
    BY <1>3, TimeoutType DEF PollCi, TypeOK
  <2>3. exhausted' \subseteq Ports /\ pc' \in Phases
    BY <1>3 DEF PollCi, TypeOK, Phases
  <2> QED
    BY <1>3, <2>1, <2>2, <2>3 DEF PollCi, TypeOK, kernel, plug, engine, slot
<1>4. CASE Identified
  <2>1. unit \in Nat /\ [driver |-> "ahci", unit |-> unit] \in Disk
    BY DEF TypeOK, Disk, Drivers
  <2>2. RegistryTypeOK'
    <3>1. CASE disk_register([driver |-> "ahci", unit |-> unit])
      BY <2>1, <3>1, RegisterType DEF TypeOK
    <3>2. CASE UNCHANGED registry
      BY <3>2 DEF registry, RegistryTypeOK, TypeOK
    <3> QED BY <1>4, <3>1, <3>2 DEF Identified
  <2> QED
    BY <1>4, <2>1, <2>2 DEF Identified, TypeOK, Phases, call, plug, engine, slot, aux
<1>5. CASE Status
  <2>1. RegistryTypeOK'
    BY <1>5 DEF Status, registry, RegistryTypeOK, TypeOK
  <2> QED
    BY <1>5, <2>1 DEF Status, TypeOK, Phases, kernel, plug, engine, slot, aux
<1> QED BY <1>1, <1>2, <1>3, <1>4, <1>5

-----------------------------------------------------------------------------
(* The port of detection, and of a command.                                *)

LEMMA BootPort ==
    ASSUME TypeOK, PortInv, DiskInit \/ AtaDetect \/ Search \/ DetectPort \/ Detected
    PROVE  PortInv'
<1>1. CASE DiskInit \/ AtaDetect \/ Search \/ Detected
  <2>1. pc' \notin Starting /\ pc' \notin Calling
    BY <1>1 DEF DiskInit, AtaDetect, Search, Detected, Starting, Calling
  <2>2. req' = req /\ served' = served
    BY <1>1 DEF DiskInit, AtaDetect, Search, Detected, call
  <2> QED BY <2>1, <2>2 DEF PortInv, Starting
<1>2. CASE DetectPort
  <2>1. req' = req /\ served' = served /\ pc' \notin Calling /\ pc' # "startwait"
    BY <1>2 DEF DetectPort, call, Calling
  <2>2. CASE machine[unit] \in {"ata", "atapi"}
    <3> DEFINE s == Structures(g_mem_alloc_ptr)
    <3>1. /\ s.list \in Nat /\ s.fis \in Nat /\ s.table \in Nat
      BY StructuresType DEF TypeOK
    <3>2. unit \in Ports
      <4>1. unit \in Nat /\ unit < NPORTS
        BY <1>2 DEF DetectPort, TypeOK
      <4>2. NPORTS \in Nat
        BY AhciAssumption
      <4> QED BY <4>1, <4>2 DEF Ports
    <3>3. unit' = unit /\ bases' = [bases EXCEPT ![unit] =
                          [list |-> s.list, fis |-> s.fis, table |-> s.table]]
      BY <1>2, <2>2 DEF DetectPort
    <3> HIDE DEF s
    <3>4. bases'[unit'] = [list |-> s.list, fis |-> s.fis, table |-> s.table]
      BY <3>2, <3>3 DEF TypeOK
    <3> QED BY <2>1, <3>1, <3>2, <3>3, <3>4 DEF PortInv
  <2>3. CASE machine[unit] \notin {"ata", "atapi"}
    BY <1>2, <2>1, <2>3 DEF DetectPort, PortInv, Starting
  <2> QED BY <2>2, <2>3
<1> QED BY <1>1, <1>2

LEMMA StartPort ==
    ASSUME TypeOK, PortInv, ClearSt \/ StopWait \/ SetBases \/ Run \/ StartWait
    PROVE  PortInv'
<1>1. unit \in Ports /\ unit \in Nat
      /\ bases[unit] \in [list : Nat, fis : Nat, table : Nat]
  BY DEF ClearSt, StopWait, SetBases, Run, StartWait, PortInv, Starting, TypeOK
<1>2. CASE ClearSt \/ StopWait \/ SetBases \/ Run
  <2>1. unit' = unit /\ bases' = bases /\ req' = req /\ served' = served
    BY <1>2 DEF ClearSt, StopWait, SetBases, Run, kernel, call
  <2>2. pc' \notin Calling
    BY <1>2 DEF ClearSt, StopWait, SetBases, Run, PollBit, Calling
  <2>3. pc' = "startwait" => st'[unit]
    BY <1>1, <1>2 DEF ClearSt, StopWait, SetBases, Run, PollBit, TypeOK
  <2>4. pc' = "startwait" => st'[unit']
    BY <2>1, <2>3
  <2>5. unit' \in Ports /\ bases'[unit'] \in [list : Nat, fis : Nat, table : Nat]
    BY <1>1, <2>1
  <2>6. req'.serial <= served'
    BY <2>1 DEF PortInv
  <2> QED BY <2>2, <2>4, <2>5, <2>6 DEF PortInv
<1>3. CASE StartWait
  <2>1. /\ bases' = bases /\ served' = served /\ st' = st
        /\ req'.op = "identify" /\ req'.port = unit /\ req'.serial = 0
    BY <1>3 DEF StartWait, engine
  <2>2. st[unit]
    BY <1>3 DEF StartWait, PortInv
  <2>3. (pc' \in {"startwait", "prepare"} /\ unit' = unit) \/ pc' = "detect"
    BY <1>3 DEF StartWait, PollBit
  <2>4. 0 <= served
    BY DEF TypeOK
  <2> QED BY <1>1, <2>1, <2>2, <2>3, <2>4 DEF PortInv, Starting, Calling
<1> QED BY <1>2, <1>3

LEMMA CallPort ==
    ASSUME TypeOK, PortInv, Prepare \/ Issue \/ PollCi \/ Identified \/ Status
    PROVE  PortInv'
<1>1. req' = req /\ served' = served /\ st' = st /\ bases' = bases
  BY DEF Prepare, Issue, PollCi, Identified, Status, call, engine, kernel
<1>2. CASE Prepare \/ Issue \/ PollCi
  <2>1. pc \in Calling /\ pc' \in Calling /\ unit' = unit
    BY <1>2 DEF Prepare, Issue, PollCi, Calling, kernel
  <2>2. pc' \notin Starting
    BY <2>1 DEF Starting, Calling
  <2> QED BY <1>1, <2>1, <2>2 DEF PortInv, Starting
<1>3. CASE Identified \/ Status
  <2>1. pc' \notin Calling /\ pc' \notin Starting
    BY <1>3 DEF Identified, Status, Calling, Starting
  <2> QED BY <1>1, <2>1 DEF PortInv, Starting
<1> QED BY <1>2, <1>3

LEMMA UserPort == TypeOK /\ PortInv /\ RegisteredInv /\ User => PortInv'
<1> SUFFICES ASSUME TypeOK, PortInv, RegisteredInv, NEW r \in Requests, Request(r)
             PROVE  PortInv'
  BY DEF User
<1> DEFINE d == disk_get(r.disk)
<1>1. st' = st /\ served' = served + 1 /\ pc = "shell"
  BY DEF Request, engine
<1>2. \/ UNCHANGED <<pc, req>>
      \/ /\ d # NULL /\ d.driver = "ahci"
         /\ \E room \in Buffers(r.count) : Dispatch(r, d, room)
  BY DEF Request, Dispatch
<1>3. CASE UNCHANGED <<pc, req>>
  BY <1>1, <1>3 DEF PortInv, Starting, Calling, TypeOK
<1>4. ASSUME d # NULL, d.driver = "ahci", NEW room, Dispatch(r, d, room)
      PROVE  PortInv'
  <2>1. r.op \in {"read", "write"} /\ r.disk \in Int
    BY AhciAssumption
  <2>2. st[d.unit]
    BY <1>4, <2>1, DiskGetPort
  <2>3. /\ pc' = "prepare" /\ req'.op = r.op /\ req'.port = d.unit
        /\ req'.serial = served + 1
    BY <1>4 DEF Dispatch
  <2>4. served \in Nat
    BY AhciAssumption DEF TypeOK
  <2>5. st'[req'.port] /\ req'.serial <= served' /\ req'.op # "identify"
    BY <1>1, <2>1, <2>2, <2>3, <2>4
  <2> HIDE DEF d
  <2> QED BY <2>3, <2>5 DEF PortInv, Starting, Calling
<1> HIDE DEF d
<1> QED BY <1>2, <1>3, <1>4

LEMMA HbaPort == TypeOK /\ PortInv /\ HbaStep => PortInv'
BY DEF HbaStep, Engines, Complete, Fail, engine, kernel, call, PortInv, Calling, Starting

-----------------------------------------------------------------------------
(* Which disks are registered.                                             *)

LEMMA DetectingPhases ==
    ASSUME PortInv, Detecting
    PROVE  pc \notin {"disk_init", "ata", "shell"}
BY DEF Detecting, Starting, Calling

\* A step that leaves the registry alone stops no port that is registered, and
\* does not step back.
LEMMA RegisteredKept ==
    ASSUME TypeOK, RegisteredInv, UNCHANGED registry,
           pc' \in {"disk_init", "ata"} => pc \in {"disk_init", "ata"},
           \A p \in Nat : Registered(p) => st'[p],
           Detecting' => \/ Detecting /\ unit' >= unit /\ unit' \in Nat
                         \/ pc \in {"disk_init", "ata"}
    PROVE  RegisteredInv'
<1>1. \A p \in Nat : Registered(p)' <=> Registered(p)
  BY DEF Registered, registry
<1>2. unit \in Nat
  BY DEF TypeOK
<1>3. ASSUME NEW p \in Nat, Registered(p)
      PROVE  p \in Ports /\ st'[p] /\ (Detecting' => p < unit')
  BY <1>2, <1>3 DEF RegisteredInv
<1> QED BY <1>1, <1>3 DEF RegisteredInv

LEMMA BootRegistered ==
    ASSUME TypeOK, PortInv, RegisteredInv,
           DiskInit \/ AtaDetect \/ Search \/ DetectPort \/ Detected
    PROVE  RegisteredInv'
<1>1. st' = st /\ \A p \in Nat : Registered(p) => st'[p]
  BY DEF DiskInit, AtaDetect, Search, DetectPort, Detected, engine, RegisteredInv
<1>2. CASE DiskInit
  <2>1. \A p \in Nat : ~ Registered(p)'
    BY <1>2, NullAssumption DEF DiskInit, disk_init, Registered
  <2> QED BY <2>1 DEF RegisteredInv
<1>3. CASE AtaDetect
  <2>1. \A p \in Nat : ~ Registered(p)
    BY <1>3 DEF AtaDetect, RegisteredInv
  <2>2. \A i \in Slots : g_disks'[i] # g_disks[i] =>
                           g_disks'[i] = [driver |-> "ata", unit |-> unit]
    BY <1>3 DEF AtaDetect, disk_register, registry, TypeOK, RegistryTypeOK
  <2>3. \A p \in Nat : ~ Registered(p)'
    BY <2>1, <2>2 DEF Registered
  <2> QED BY <2>3 DEF RegisteredInv
<1>4. CASE Search
  BY <1>1, <1>4, RegisteredKept DEF Search
<1>5. CASE DetectPort
  <2>1. pc = "detect" /\ pc' \in {"detect", "stop"} /\ unit' \in Nat /\ unit' >= unit
    BY <1>5 DEF DetectPort, TypeOK
  <2>2. Detecting
    BY <2>1 DEF Detecting
  <2> QED BY <1>1, <1>5, <2>1, <2>2, RegisteredKept DEF DetectPort
<1>6. CASE Detected
  <2>1. ~ Detecting'
    BY <1>6 DEF Detected, Detecting, Starting, Calling
  <2> QED BY <1>1, <1>6, <2>1, RegisteredKept DEF Detected
<1> QED BY <1>2, <1>3, <1>4, <1>5, <1>6

LEMMA StartRegistered ==
    ASSUME TypeOK, PortInv, RegisteredInv,
           ClearSt \/ StopWait \/ SetBases \/ Run \/ StartWait
    PROVE  RegisteredInv'
<1>1. unit \in Ports /\ unit \in Nat /\ Detecting /\ pc \notin {"disk_init", "ata"}
  BY DEF ClearSt, StopWait, SetBases, Run, StartWait, PortInv, Detecting, Starting, TypeOK
<1>2. \A p \in Nat : Registered(p) => p \in Ports /\ p # unit /\ st[p]
  BY <1>1 DEF RegisteredInv
<1>3. \A p \in Ports : p # unit => st'[p] = st[p]
  BY DEF ClearSt, StopWait, SetBases, Run, StartWait, engine, TypeOK
<1>4. UNCHANGED registry /\ unit' \in Nat /\ unit' >= unit
  BY <1>1 DEF ClearSt, StopWait, SetBases, Run, StartWait, kernel
<1>5. pc' \notin {"disk_init", "ata"}
  BY DEF ClearSt, StopWait, SetBases, Run, StartWait, PollBit
<1>6. \A p \in Nat : Registered(p) => st'[p]
  BY <1>2, <1>3
<1> QED BY <1>1, <1>4, <1>5, <1>6, RegisteredKept

LEMMA CallRegistered ==
    ASSUME TypeOK, PortInv, RegisteredInv,
           Prepare \/ Issue \/ PollCi \/ Identified \/ Status
    PROVE  RegisteredInv'
<1>1. st' = st /\ req' = req /\ \A p \in Nat : Registered(p) => st'[p]
  BY DEF Prepare, Issue, PollCi, Identified, Status, call, engine, RegisteredInv
<1>2. CASE Prepare \/ Issue \/ PollCi \/ Status
  <2>1. UNCHANGED registry /\ unit' = unit /\ unit' \in Nat
    BY <1>2 DEF Prepare, Issue, PollCi, Status, kernel, TypeOK
  <2>2. pc' \notin {"disk_init", "ata"} /\ pc \in Calling
    BY <1>2 DEF Prepare, Issue, PollCi, Status, Calling
  <2>3. Detecting' => Detecting
    BY <1>1, <1>2, <2>2
       DEF Prepare, Issue, PollCi, Status, Detecting, Starting, Calling
  <2> QED BY <1>1, <2>1, <2>2, <2>3, RegisteredKept
<1>3. CASE Identified
  <2>1. unit \in Ports /\ unit \in Nat /\ st[unit] /\ Detecting
    BY <1>3 DEF Identified, PortInv, Calling, Detecting, TypeOK
  <2>2. \A i \in Slots : g_disks'[i] # g_disks[i] =>
                           g_disks'[i] = [driver |-> "ahci", unit |-> unit]
    BY <1>3 DEF Identified, disk_register, registry, TypeOK, RegistryTypeOK
  <2>3. \A p \in Nat : Registered(p)' => Registered(p) \/ p = unit
    BY <2>2 DEF Registered
  <2>4. \A p \in Nat : Registered(p)' => p \in Ports /\ st'[p] /\ p < unit + 1
    BY <1>1, <2>1, <2>3 DEF RegisteredInv
  <2>5. pc' = "detect" /\ unit' = unit + 1
    BY <1>3 DEF Identified
  <2> QED BY <2>4, <2>5 DEF RegisteredInv
<1> QED BY <1>2, <1>3

LEMMA UserRegistered == TypeOK /\ PortInv /\ RegisteredInv /\ User => RegisteredInv'
<1> SUFFICES ASSUME TypeOK, PortInv, RegisteredInv, NEW r \in Requests, Request(r)
             PROVE  RegisteredInv'
  BY DEF User
<1>1. UNCHANGED registry /\ st' = st /\ pc = "shell"
  BY DEF Request, engine
<1>2. r.op # "identify"
  BY AhciAssumption
<1>3. ~ Detecting' /\ pc' \in {"shell", "prepare"}
  BY <1>1, <1>2 DEF Request, Dispatch, Detecting, Starting, Calling
<1>4. \A p \in Nat : Registered(p) => st'[p]
  BY <1>1 DEF RegisteredInv
<1> QED BY <1>1, <1>3, <1>4, RegisteredKept

LEMMA HbaRegistered == TypeOK /\ RegisteredInv /\ HbaStep => RegisteredInv'
<1> SUFFICES ASSUME TypeOK, RegisteredInv, HbaStep PROVE RegisteredInv'
  OBVIOUS
<1>1. UNCHANGED <<registry, pc, st, req>> /\ unit' = unit /\ unit \in Nat
  BY DEF HbaStep, Engines, Complete, Fail, engine, kernel, call, TypeOK
<1>2. Detecting' => Detecting
  BY <1>1 DEF Detecting
<1>3. \A p \in Nat : Registered(p) => st'[p]
  BY <1>1 DEF RegisteredInv
<1> QED BY <1>1, <1>2, <1>3, RegisteredKept

-----------------------------------------------------------------------------
LEMMA BaseInit == Init => BaseInv
<1> SUFFICES ASSUME Init PROVE BaseInv
  OBVIOUS
<1>1. PortInv
  BY DEF Init, PortInv, Starting, Calling
<1>2. \A p \in Nat : ~ Registered(p)
  BY NullAssumption DEF Init, DisksInit, Registered
<1>3. RegisteredInv
  BY <1>2 DEF RegisteredInv
<1> QED BY <1>1, <1>3, InitType DEF BaseInv

LEMMA BaseStutter == BaseInv /\ UNCHANGED vars => BaseInv'
<1> SUFFICES ASSUME BaseInv, UNCHANGED vars PROVE BaseInv'
  OBVIOUS
<1>1. TypeOK'
  BY DEF BaseInv, vars, registry, kernel, call, plug, engine, slot, aux, TypeOK,
         RegistryTypeOK
<1>2. PortInv'
  BY DEF BaseInv, vars, kernel, call, engine, PortInv
<1>3. RegisteredInv'
  <2>1. \A p \in Nat : Registered(p)' <=> Registered(p)
    BY DEF vars, registry, Registered
  <2>2. Detecting' <=> Detecting
    BY DEF vars, call, Detecting
  <2>3. pc' = pc /\ st' = st /\ unit' = unit
    BY DEF vars, kernel, engine
  <2> QED BY <2>1, <2>2, <2>3 DEF BaseInv, RegisteredInv
<1> QED BY <1>1, <1>2, <1>3 DEF BaseInv

LEMMA BaseStep == BaseInv /\ [Next]_vars => BaseInv'
<1> SUFFICES ASSUME BaseInv, [Next]_vars PROVE BaseInv'
  OBVIOUS
<1>0. TypeOK /\ PortInv /\ RegisteredInv
  BY DEF BaseInv
<1>1. CASE DiskInit \/ AtaDetect \/ Search \/ DetectPort \/ Detected
  BY <1>0, <1>1, BootType, BootPort, BootRegistered DEF BaseInv
<1>2. CASE ClearSt \/ StopWait \/ SetBases \/ Run \/ StartWait
  BY <1>0, <1>2, StartType, StartPort, StartRegistered DEF BaseInv
<1>3. CASE Prepare \/ Issue \/ PollCi \/ Identified \/ Status
  BY <1>0, <1>3, CallType, CallPort, CallRegistered DEF BaseInv
<1>4. CASE User
  BY <1>0, <1>4, UserType, UserPort, UserRegistered DEF BaseInv
<1>5. CASE HbaStep
  BY <1>0, <1>5, HbaType, HbaPort, HbaRegistered DEF BaseInv
<1>6. CASE UNCHANGED vars
  BY <1>6, BaseStutter
<1> QED BY <1>1, <1>2, <1>3, <1>4, <1>5, <1>6 DEF Next, KernelStep

THEOREM BaseCorrect == Spec => []BaseInv
BY BaseInit, BaseStep, PTL DEF Spec

\* The registers, the memory and the variables of the drivers keep their types
\* whatever the HBA and the user do (ahci.c, disk.c).
THEOREM StorageTypeCorrect == Spec => []TypeOK
BY BaseCorrect, PTL DEF BaseInv

-----------------------------------------------------------------------------
(* The registry.                                                           *)

\* disk_init runs before any disk is offered.
OrderInv ==
    /\ g_disk_count = (IF Len(offered) < MAX_DISKS THEN Len(offered) ELSE MAX_DISKS)
    /\ \A i \in Slots :
          g_disks[i] = (IF i < g_disk_count THEN offered[i + 1] ELSE NULL)
    /\ pc = "disk_init" => offered = <<>>

LEMMA OrderGivesRegistry == RegistryTypeOK /\ OrderInv => RegistryInOrder
<1> SUFFICES ASSUME RegistryTypeOK, OrderInv, NEW i \in -1..MAX_DISKS
             PROVE  disk_get(i) # NULL <=> i \in 0..(g_disk_count - 1)
  BY DEF OrderInv, RegistryInOrder
<1>1. g_disk_count \in 0..MAX_DISKS /\ Len(offered) \in Nat
      /\ g_disk_count <= Len(offered)
  BY DisksAssumption DEF RegistryTypeOK, OrderInv
<1>2. CASE i \in 0..(g_disk_count - 1)
  <2>1. i \in Slots /\ i + 1 \in 1..Len(offered)
    BY <1>1, <1>2, DisksAssumption DEF Slots
  <2>2. disk_get(i) = offered[i + 1]
    BY <1>1, <1>2, <2>1 DEF disk_get, OrderInv
  <2>3. offered[i + 1] \in Disk
    BY <2>1 DEF RegistryTypeOK
  <2> QED BY <1>2, <2>2, <2>3, NullAssumption DEF Disk, Drivers
<1>3. CASE i \notin 0..(g_disk_count - 1)
  <2>1. i < 0 \/ i >= g_disk_count
    BY <1>1, <1>3, DisksAssumption
  <2> QED BY <1>3, <2>1 DEF disk_get
<1> QED BY <1>2, <1>3

LEMMA RegisterOrder ==
    ASSUME RegistryTypeOK, OrderInv, NEW disk \in Disk, disk_register(disk),
           pc' # "disk_init"
    PROVE  OrderInv'
<1>1. /\ Len(offered) \in Nat /\ Len(offered') = Len(offered) + 1
      /\ \A j \in 1..Len(offered) : offered'[j] = offered[j]
      /\ offered'[Len(offered) + 1] = disk
  BY DEF RegistryTypeOK, disk_register
<1>2. MAX_DISKS \in Nat /\ g_disk_count \in Nat /\ g_disk_count <= Len(offered)
  BY <1>1, DisksAssumption DEF OrderInv
<1>3. CASE g_disk_count >= MAX_DISKS
  <2>1. g_disk_count = MAX_DISKS /\ Len(offered) >= MAX_DISKS
    BY <1>1, <1>2, <1>3 DEF OrderInv
  <2>2. UNCHANGED <<g_disks, g_disk_count>>
    BY <1>3 DEF disk_register
  <2>3. \A i \in Slots : g_disks'[i] =
            (IF i < g_disk_count' THEN offered'[i + 1] ELSE NULL)
    BY <1>1, <1>2, <2>1, <2>2 DEF OrderInv, Slots
  <2> QED BY <1>1, <1>2, <2>1, <2>2, <2>3 DEF OrderInv
<1>4. CASE g_disk_count < MAX_DISKS
  <2>1. g_disk_count = Len(offered)
    BY <1>1, <1>2, <1>4 DEF OrderInv
  <2>2. /\ g_disks' = [g_disks EXCEPT ![g_disk_count] = disk]
        /\ g_disk_count' = g_disk_count + 1
    BY <1>2, <1>4 DEF disk_register
  <2>3. ASSUME NEW i \in Slots
        PROVE  g_disks'[i] = (IF i < g_disk_count' THEN offered'[i + 1] ELSE NULL)
    <3>1. g_disks'[i] = IF i = g_disk_count THEN disk ELSE g_disks[i]
      BY <2>2 DEF RegistryTypeOK
    <3>2. g_disks[i] = IF i < g_disk_count THEN offered[i + 1] ELSE NULL
      BY DEF OrderInv
    <3> QED BY <1>1, <1>2, <2>1, <2>2, <3>1, <3>2 DEF Slots
  <2> QED BY <1>1, <1>2, <1>4, <2>1, <2>2, <2>3 DEF OrderInv
<1> QED BY <1>2, <1>3, <1>4

LEMMA OrderInit == Init => OrderInv
<1> SUFFICES ASSUME Init PROVE OrderInv
  OBVIOUS
<1>1. g_disks = [i \in Slots |-> NULL] /\ g_disk_count = 0 /\ offered = <<>>
  BY DEF Init, DisksInit
<1>2. Len(offered) = 0 /\ 0 < MAX_DISKS
  BY <1>1, DisksAssumption
<1> QED BY <1>1, <1>2 DEF OrderInv, Slots

LEMMA OrderStep == BaseInv /\ OrderInv /\ [Next]_vars => OrderInv'
<1> SUFFICES ASSUME BaseInv, OrderInv, [Next]_vars PROVE OrderInv'
  OBVIOUS
<1>1. RegistryTypeOK /\ unit \in Nat
  BY DEF BaseInv, TypeOK
<1>2. CASE DiskInit
  <2>1. /\ g_disks' = [i \in Slots |-> NULL] /\ g_disk_count' = 0
        /\ offered' = <<>> /\ pc' = "ata"
    BY <1>2 DEF DiskInit, disk_init, OrderInv
  <2>2. Len(offered') = 0 /\ 0 < MAX_DISKS
    BY <2>1, DisksAssumption
  <2> QED BY <2>1, <2>2 DEF OrderInv, Slots
<1>3. CASE UNCHANGED registry /\ (pc' = "disk_init" => pc = "disk_init")
  BY <1>3 DEF registry, OrderInv
<1>4. CASE AtaDetect
  <2>1. pc' # "disk_init"
    BY <1>4 DEF AtaDetect
  <2>2. CASE disk_register([driver |-> "ata", unit |-> unit])
    BY <1>1, <2>1, <2>2, RegisterOrder DEF Disk, Drivers
  <2> QED BY <1>3, <1>4, <2>1, <2>2 DEF AtaDetect
<1>5. CASE Identified
  <2>1. pc' # "disk_init"
    BY <1>5 DEF Identified
  <2>2. CASE disk_register([driver |-> "ahci", unit |-> unit])
    BY <1>1, <2>1, <2>2, RegisterOrder DEF Disk, Drivers
  <2> QED BY <1>3, <1>5, <2>1, <2>2 DEF Identified
<1>6. CASE \/ Search \/ DetectPort \/ Detected \/ ClearSt \/ StopWait \/ SetBases
           \/ Run \/ StartWait \/ Prepare \/ Issue \/ PollCi \/ Status
  BY <1>3, <1>6 DEF Search, DetectPort, Detected, ClearSt, StopWait, SetBases, Run,
       StartWait, Prepare, Issue, PollCi, Status, PollBit
<1>7. CASE User
  BY <1>3, <1>7 DEF User, Request, Dispatch
<1>8. CASE HbaStep
  BY <1>3, <1>8 DEF HbaStep
<1>9. CASE UNCHANGED vars
  BY <1>3, <1>9 DEF vars
<1> QED BY <1>2, <1>4, <1>5, <1>6, <1>7, <1>8, <1>9 DEF Next, KernelStep

\* The registry holds the first MAX_DISKS disks that the drivers found, in the
\* order they were found, whatever the number of slots (disk_register,
\* disk_get).
THEOREM RegistryCorrect == Spec => []RegistryInOrder
<1>1. BaseInv /\ OrderInv => RegistryInOrder
  BY OrderGivesRegistry DEF BaseInv, TypeOK
<1>2. Spec => []BaseInv
  BY BaseCorrect
<1>3. Spec => []OrderInv
  BY <1>2, OrderInit, OrderStep, PTL DEF Spec
<1> QED BY <1>1, <1>2, <1>3, PTL

\* A unit in the registry is one that ata_detect_disks has been at.
UniqueInv ==
    /\ NamesAreUnique
    /\ pc = "ata" => \A i \in Slots, u \in Nat :
                        g_disks[i] = [driver |-> "ata", unit |-> u] => u < unit

LEMMA RegisterUnique ==
    ASSUME RegistryTypeOK, NamesAreUnique, NEW disk, disk_register(disk),
           \A i \in Slots : g_disks[i] # disk
    PROVE  NamesAreUnique'
<1>1. CASE g_disk_count >= MAX_DISKS
  BY <1>1 DEF disk_register, NamesAreUnique
<1>2. CASE g_disk_count < MAX_DISKS
  <2>1. g_disk_count \in Nat
    BY DisksAssumption DEF RegistryTypeOK
  <2>2. /\ g_disks' = [g_disks EXCEPT ![g_disk_count] = disk]
        /\ g_disk_count' = g_disk_count + 1
    BY <1>2, <2>1, DisksAssumption DEF disk_register
  <2>3. \A i \in Slots : g_disks'[i] = IF i = g_disk_count THEN disk ELSE g_disks[i]
    BY <2>2 DEF RegistryTypeOK
  <2>4. \A i \in Slots : i < g_disk_count' => i < g_disk_count \/ i = g_disk_count
    BY <2>1, <2>2 DEF Slots
  <2> QED BY <2>3, <2>4 DEF NamesAreUnique
<1> QED BY <1>1, <1>2, DisksAssumption DEF RegistryTypeOK

LEMMA UniqueInit == Init => UniqueInv
BY DEF Init, DisksInit, UniqueInv, NamesAreUnique, Slots

LEMMA UniqueStep == BaseInv /\ UniqueInv /\ [Next]_vars => UniqueInv'
<1> SUFFICES ASSUME BaseInv, UniqueInv, [Next]_vars PROVE UniqueInv'
  OBVIOUS
<1>1. RegistryTypeOK /\ unit \in Nat
  BY DEF BaseInv, TypeOK
<1>2. CASE DiskInit
  <2>1. g_disks' = [i \in Slots |-> NULL] /\ g_disk_count' = 0
    BY <1>2 DEF DiskInit, disk_init
  <2> QED BY <2>1, NullAssumption DEF UniqueInv, NamesAreUnique, Slots
<1>3. CASE UNCHANGED registry /\ pc' # "ata"
  BY <1>3 DEF registry, UniqueInv, NamesAreUnique
<1>4. CASE UNCHANGED registry /\ pc' = pc /\ unit' \in Nat /\ unit' >= unit
  <2>1. g_disks' = g_disks /\ g_disk_count' = g_disk_count
    BY <1>4 DEF registry
  <2> QED BY <1>1, <1>4, <2>1 DEF UniqueInv, NamesAreUnique
<1>5. CASE AtaDetect
  <2>1. pc = "ata" /\ pc' = "ata" /\ unit' = unit + 1
    BY <1>5 DEF AtaDetect
  <2>2. CASE disk_register([driver |-> "ata", unit |-> unit])
    <3>1. \A i \in Slots : g_disks[i] # [driver |-> "ata", unit |-> unit]
      BY <1>1, <2>1 DEF UniqueInv
    <3>2. NamesAreUnique'
      BY <1>1, <2>2, <3>1, RegisterUnique DEF UniqueInv
    <3>3. \A i \in Slots : g_disks'[i] # g_disks[i] =>
                            g_disks'[i] = [driver |-> "ata", unit |-> unit]
      BY <1>1, <2>2 DEF disk_register, RegistryTypeOK
    <3>4. ASSUME NEW i \in Slots, NEW u \in Nat,
                 g_disks'[i] = [driver |-> "ata", unit |-> u]
          PROVE  u < unit + 1
      <4>1. CASE g_disks'[i] = g_disks[i]
        BY <1>1, <2>1, <3>4, <4>1 DEF UniqueInv
      <4>2. CASE g_disks'[i] # g_disks[i]
        BY <1>1, <3>3, <3>4, <4>2
      <4> QED BY <4>1, <4>2
    <3> QED BY <2>1, <3>2, <3>4 DEF UniqueInv
  <2> QED BY <1>1, <1>4, <1>5, <2>1, <2>2 DEF AtaDetect
<1>6. CASE Identified
  <2>1. pc' = "detect"
    BY <1>6 DEF Identified
  <2>2. CASE disk_register([driver |-> "ahci", unit |-> unit])
    <3>1. Detecting
      BY <1>6 DEF Identified, Detecting, Calling
    <3>2. ~ Registered(unit)
      BY <1>1, <3>1 DEF BaseInv, RegisteredInv
    <3>3. NamesAreUnique'
      BY <1>1, <2>2, <3>2, RegisterUnique DEF UniqueInv, Registered
    <3> QED BY <2>1, <3>3 DEF UniqueInv
  <2> QED BY <1>3, <1>6, <2>1, <2>2 DEF Identified
<1>7. CASE \/ Search \/ DetectPort \/ Detected \/ ClearSt \/ StopWait \/ SetBases
           \/ Run \/ StartWait \/ Prepare \/ Issue \/ PollCi \/ Status
  <2>1. UNCHANGED registry
    BY <1>7 DEF Search, DetectPort, Detected, ClearSt, StopWait, SetBases, Run,
         StartWait, Prepare, Issue, PollCi, Status
  <2>2. pc' # "ata"
    BY <1>7 DEF Search, DetectPort, Detected, ClearSt, StopWait, SetBases, Run,
         StartWait, Prepare, Issue, PollCi, Status, PollBit
  <2> QED BY <1>3, <2>1, <2>2
<1>8. CASE User
  BY <1>3, <1>8 DEF User, Request, Dispatch
<1>9. CASE HbaStep \/ UNCHANGED vars
  <2>1. UNCHANGED <<registry, pc>> /\ unit' = unit
    BY <1>9 DEF HbaStep, vars, kernel
  <2> QED BY <1>1, <1>4, <2>1
<1> QED BY <1>2, <1>5, <1>6, <1>7, <1>8, <1>9 DEF Next, KernelStep

\* No two disks of the registry have one name, so disk_find_by_name reaches all
\* of them (ata_detect_disks and ahci_detect_ports are at a unit once).
THEOREM NamesCorrect == Spec => []NamesAreUnique
<1>1. UniqueInv => NamesAreUnique
  BY DEF UniqueInv
<1>2. Spec => []BaseInv
  BY BaseCorrect
<1> QED BY <1>1, <1>2, UniqueInit, UniqueStep, PTL DEF Spec

-----------------------------------------------------------------------------
(* The commands.                                                           *)

\* A command in a slot is the one ahci_exec_cmd waits for, or was given up.
SlotInv ==
    \A p \in Ports : ci[p] =>
        \/ p \in exhausted
        \/ pc = "ciwait" /\ req.port = p /\ took[p] = req.serial

\* A command that left its slot without an error, and is still awaited or has
\* just been, was completed.
DoneInv ==
    (/\ req.port \notin exhausted /\ ~tfes[req.port]
     /\ pc = "status" \/ (pc = "ciwait" /\ ~ci[req.port]))
    => req.serial \in completed[req.port]

\* Nothing was answered before the first prompt.
Booting == pc \in {"disk_init", "ata"} \/ Detecting
QuietInv == Booting => reply = "none"

KnownInv ==
    \A p \in Nat : Registered(p) /\ p \notin exhausted => 0 \in completed[p]

AnswerInv == \A p \in Ports \ exhausted : Answered(p) => served \in completed[p]

ExecInv == SlotInv /\ DoneInv /\ QuietInv /\ KnownInv /\ AnswerInv

LEMMA HistoryGrows ==
    ASSUME TypeOK, [Next]_vars
    PROVE  /\ exhausted \subseteq exhausted'
           /\ \A p \in Ports : completed[p] \subseteq completed'[p]
<1>1. CASE KernelStep
  <2>1. completed' = completed
    BY <1>1 DEF KernelStep, DiskInit, AtaDetect, Search, DetectPort, Detected, ClearSt,
         StopWait, SetBases, Run, StartWait, Prepare, Issue, PollCi, Identified, Status,
         slot
  <2>2. exhausted \subseteq exhausted'
    BY <1>1 DEF KernelStep, DiskInit, AtaDetect, Search, DetectPort, Detected, ClearSt,
         StopWait, SetBases, Run, StartWait, Prepare, Issue, PollCi, Identified, Status,
         aux
  <2> QED BY <2>1, <2>2
<1>2. CASE User
  BY <1>2 DEF User, Request, slot, aux
<1>3. CASE HbaStep
  BY <1>3 DEF HbaStep, Engines, Complete, Fail, aux, TypeOK
<1>4. CASE UNCHANGED vars
  BY <1>4 DEF vars, slot, aux
<1> QED BY <1>1, <1>2, <1>3, <1>4 DEF Next

\* The steps of the kernel that neither issue a command nor wait for one
Elsewhere ==
    \/ DiskInit \/ AtaDetect \/ Search \/ DetectPort \/ Detected
    \/ ClearSt \/ StopWait \/ SetBases \/ Run \/ StartWait
    \/ Prepare \/ Identified \/ Status \/ User

LEMMA ElsewhereKeeps ==
    ASSUME Elsewhere
    PROVE  /\ UNCHANGED <<slot, exhausted>> /\ pc # "ciwait"
           /\ pc' # "ciwait" /\ pc' # "status"
<1>1. UNCHANGED <<slot, exhausted>> /\ pc # "ciwait"
  BY DEF Elsewhere, DiskInit, AtaDetect, Search, DetectPort, Detected, ClearSt,
       StopWait, SetBases, Run, StartWait, Prepare, Identified, Status, User, Request, aux
<1>2. pc' # "ciwait" /\ pc' # "status"
  BY DEF Elsewhere, DiskInit, AtaDetect, Search, DetectPort, Detected, ClearSt,
       StopWait, SetBases, Run, StartWait, Prepare, Identified, Status, User, Request,
       PollBit, Dispatch
<1> QED BY <1>1, <1>2

LEMMA NextIs == [Next]_vars <=>
    Elsewhere \/ Issue \/ PollCi \/ HbaStep \/ UNCHANGED vars
BY DEF Next, KernelStep, Elsewhere

LEMMA SlotStep ==
    ASSUME BaseInv, SlotInv, [Next]_vars
    PROVE  SlotInv'
<1>0. TypeOK
  BY DEF BaseInv
<1>1. CASE Elsewhere
  BY <1>1, ElsewhereKeeps DEF SlotInv, slot
<1>2. CASE Issue
  <2>1. ASSUME NEW p \in Ports, ci'[p], p \notin exhausted
        PROVE  pc' = "ciwait" /\ req'.port = p /\ took'[p] = req'.serial
    <3>1. ~ci[p]
      BY <1>2, <2>1 DEF SlotInv, Issue
    <3>2. p = req.port
      BY <1>0, <1>2, <2>1, <3>1 DEF Issue, TypeOK
    <3> QED BY <1>0, <1>2, <2>1, <3>1, <3>2 DEF Issue, TypeOK
  <2> QED BY <1>2, <2>1 DEF SlotInv, Issue, aux
<1>3. CASE PollCi
  <2>1. UNCHANGED <<ci, took, req>>
    BY <1>3 DEF PollCi, slot
  <2>2. CASE timeout # 0 /\ ci[req.port]
    BY <1>3, <2>1, <2>2 DEF PollCi, SlotInv
  <2>3. CASE timeout # 0 /\ ~ci[req.port]
    BY <1>3, <2>1, <2>3 DEF PollCi, SlotInv
  <2>4. CASE timeout = 0
    BY <1>3, <2>1, <2>4 DEF PollCi, SlotInv
  <2> QED BY <2>2, <2>3, <2>4
<1>4. CASE HbaStep
  <2>1. UNCHANGED <<pc, req, exhausted, took>>
    BY <1>4 DEF HbaStep, Engines, Complete, Fail, call, aux
  <2>2. \A p \in Ports : ci'[p] => ci[p]
    BY <1>0, <1>4 DEF HbaStep, Engines, Complete, Fail, TypeOK
  <2> QED BY <2>1, <2>2 DEF SlotInv
<1>5. CASE UNCHANGED vars
  BY <1>5 DEF vars, SlotInv, slot, call, aux
<1> QED BY <1>1, <1>2, <1>3, <1>4, <1>5, NextIs

LEMMA DoneStep ==
    ASSUME BaseInv, SlotInv, DoneInv, [Next]_vars
    PROVE  DoneInv'
<1>0. TypeOK /\ PortInv /\ req.port \in Ports
  BY DEF BaseInv, TypeOK
<1>1. CASE Elsewhere
  BY <1>1, ElsewhereKeeps DEF DoneInv
<1>2. CASE Issue
  BY <1>0, <1>2 DEF Issue, DoneInv, TypeOK
<1>3. CASE PollCi
  <2>1. UNCHANGED <<ci, tfes, req, completed>>
    BY <1>3 DEF PollCi, slot
  <2>2. CASE timeout # 0
    BY <1>3, <2>1, <2>2 DEF PollCi, DoneInv
  <2>3. CASE timeout = 0
    BY <1>3, <2>1, <2>3 DEF PollCi, DoneInv
  <2> QED BY <2>2, <2>3
<1>4. CASE HbaStep
  <2> DEFINE p == req.port
  <2>1. UNCHANGED <<pc, req, exhausted>> /\ completed[p] \subseteq completed'[p]
    BY <1>0, <1>4, HistoryGrows DEF HbaStep, call, aux
  <2>2. tfes[p] => tfes'[p]
    BY <1>0, <1>4 DEF HbaStep, Engines, Complete, Fail, TypeOK
  <2>3. ASSUME p \notin exhausted, ~tfes'[p], pc = "ciwait", ~ci'[p], ci[p]
        PROVE  req.serial \in completed'[p]
    <3>1. took[p] = req.serial /\ st[p]
      BY <1>0, <2>3 DEF SlotInv, PortInv, Calling
    <3>2. PICK q \in Ports : Engines(q) \/ Complete(q) \/ Fail(q)
      BY <1>4 DEF HbaStep
    <3>3. ~ Engines(q)
      BY <1>0, <2>3, <3>1 DEF Engines, TypeOK
    <3>4. ~ Fail(q)
      BY <1>0, <2>3 DEF Fail, TypeOK
    <3>5. Complete(q) /\ q = p
      BY <1>0, <2>3, <3>2, <3>3, <3>4 DEF Complete, TypeOK
    <3> QED BY <1>0, <3>1, <3>5 DEF Complete, TypeOK
  <2> QED BY <2>1, <2>2, <2>3 DEF DoneInv
<1>5. CASE UNCHANGED vars
  BY <1>5 DEF vars, DoneInv, slot, call, aux
<1> QED BY <1>1, <1>2, <1>3, <1>4, <1>5, NextIs

LEMMA UserIsPastBoot ==
    ASSUME User
    PROVE  ~ Booting' /\ served' = served + 1 /\ UNCHANGED <<registry, slot, aux>>
<1> SUFFICES ASSUME NEW r \in Requests, Request(r)
             PROVE  ~ Booting'
  BY DEF User, Request
<1>1. r.op # "identify" /\ pc = "shell"
  BY AhciAssumption DEF Request
<1> QED BY <1>1 DEF Request, Dispatch, Booting, Detecting, Starting, Calling

LEMMA QuietStep ==
    ASSUME BaseInv, QuietInv, [Next]_vars
    PROVE  QuietInv'
<1>1. CASE reply' = reply /\ (Booting' => Booting)
  BY <1>1 DEF QuietInv
<1>2. CASE DiskInit \/ AtaDetect \/ Search \/ DetectPort \/ Detected \/ Identified
  <2>1. reply' = reply
    BY <1>2 DEF DiskInit, AtaDetect, Search, DetectPort, Detected, Identified, call
  <2>2. Booting' => Booting
    BY <1>2 DEF DiskInit, AtaDetect, Search, DetectPort, Detected, Identified,
         Booting, Detecting, Starting, Calling
  <2> QED BY <1>1, <2>1, <2>2
<1>3. CASE ClearSt \/ StopWait \/ SetBases \/ Run \/ StartWait
  <2>1. reply' = reply
    BY <1>3 DEF ClearSt, StopWait, SetBases, Run, StartWait, call
  <2>2. Booting
    BY <1>3 DEF ClearSt, StopWait, SetBases, Run, StartWait, Booting, Detecting, Starting
  <2> QED BY <1>1, <2>1, <2>2
<1>4. CASE Prepare \/ Issue \/ PollCi
  <2>1. reply' = reply /\ req' = req
    BY <1>4 DEF Prepare, Issue, PollCi, call
  <2>2. pc \in Calling /\ pc' \in Calling
    BY <1>4 DEF Prepare, Issue, PollCi, Calling
  <2>3. Booting' => Booting
    BY <2>1, <2>2 DEF Booting, Detecting, Starting, Calling
  <2> QED BY <1>1, <2>1, <2>3
<1>5. CASE Status
  BY <1>5 DEF Status, QuietInv, Booting, Detecting, Starting, Calling
<1>6. CASE User
  BY <1>6, UserIsPastBoot DEF QuietInv
<1>7. CASE HbaStep \/ UNCHANGED vars
  <2>1. UNCHANGED <<pc, req, reply>>
    BY <1>7 DEF HbaStep, vars, call
  <2> QED BY <1>1, <2>1 DEF Booting, Detecting
<1> QED BY <1>2, <1>3, <1>4, <1>5, <1>6, <1>7 DEF Next, KernelStep

LEMMA KnownStep ==
    ASSUME BaseInv, DoneInv, KnownInv, [Next]_vars
    PROVE  KnownInv'
<1>0. TypeOK /\ PortInv /\ RegisteredInv
  BY DEF BaseInv
<1>1. CASE \A p \in Nat : Registered(p)' => Registered(p)
  <2>1. \A p \in Nat : Registered(p) => p \in Ports
    BY <1>0 DEF RegisteredInv
  <2> QED BY <1>0, <1>1, <2>1, HistoryGrows DEF KnownInv
<1>2. CASE UNCHANGED registry
  BY <1>1, <1>2 DEF Registered, registry
<1>3. CASE DiskInit
  <2>1. \A p \in Nat : ~ Registered(p)'
    BY <1>3, NullAssumption DEF DiskInit, disk_init, Registered
  <2> QED BY <2>1 DEF KnownInv
<1>4. CASE AtaDetect
  <2>1. \A i \in Slots : g_disks'[i] # g_disks[i] =>
                           g_disks'[i] = [driver |-> "ata", unit |-> unit]
    BY <1>0, <1>4 DEF AtaDetect, disk_register, registry, TypeOK, RegistryTypeOK
  <2> QED BY <1>1, <2>1 DEF Registered
<1>5. CASE Identified
  <2>1. CASE ~Failed /\ disk_register([driver |-> "ahci", unit |-> unit])
    <3>1. /\ unit \in Ports /\ req.port = unit /\ req.serial = 0 /\ ~tfes[req.port]
          /\ pc = "status" /\ UNCHANGED <<completed, exhausted>>
      BY <1>0, <1>5, <2>1 DEF Identified, PortInv, Calling, Failed, slot, aux
    <3>2. unit \notin exhausted => 0 \in completed[unit]
      BY <3>1 DEF DoneInv
    <3>3. \A i \in Slots : g_disks'[i] # g_disks[i] =>
                             g_disks'[i] = [driver |-> "ahci", unit |-> unit]
      BY <1>0, <2>1 DEF disk_register, TypeOK, RegistryTypeOK
    <3>4. \A p \in Nat : Registered(p)' => Registered(p) \/ p = unit
      BY <3>3 DEF Registered
    <3> QED BY <3>1, <3>2, <3>4 DEF KnownInv
  <2> QED BY <1>2, <1>5, <2>1 DEF Identified
<1>6. CASE \/ Search \/ DetectPort \/ Detected \/ ClearSt \/ StopWait \/ SetBases
           \/ Run \/ StartWait \/ Prepare \/ Issue \/ PollCi \/ Status
  BY <1>2, <1>6 DEF Search, DetectPort, Detected, ClearSt, StopWait, SetBases, Run,
       StartWait, Prepare, Issue, PollCi, Status
<1>7. CASE User
  BY <1>2, <1>7, UserIsPastBoot
<1>8. CASE HbaStep \/ UNCHANGED vars
  BY <1>2, <1>8 DEF HbaStep, vars
<1> QED BY <1>3, <1>4, <1>5, <1>6, <1>7, <1>8 DEF Next, KernelStep

LEMMA AnswerStep ==
    ASSUME BaseInv, DoneInv, QuietInv, AnswerInv, [Next]_vars
    PROVE  AnswerInv'
<1>0. TypeOK /\ PortInv /\ served \in Nat /\ req.port \in Ports
  BY AhciAssumption DEF BaseInv, TypeOK
<1>1. CASE pc' # "shell"
  BY <1>1 DEF AnswerInv, Answered
<1>2. CASE UNCHANGED <<pc, req, reply, served>>
  BY <1>0, <1>2, HistoryGrows DEF AnswerInv, Answered
<1>3. CASE Search \/ Detected
  <2>1. reply' = reply /\ Booting
    BY <1>3 DEF Search, Detected, call, Booting, Detecting
  <2> QED BY <2>1 DEF QuietInv, AnswerInv, Answered
<1>4. CASE Status
  <2>1. UNCHANGED <<req, served, completed, exhausted>> /\ pc = "status"
    BY <1>4 DEF Status, slot, aux
  <2>2. reply' = "lu" => ~tfes[req.port]
    BY <1>4 DEF Status, Failed
  <2> QED BY <2>1, <2>2 DEF DoneInv, AnswerInv, Answered
<1>5. CASE User
  <2>1. PICK r \in Requests : Request(r)
    BY <1>5 DEF User
  <2>2. served' = served + 1 /\ (pc' = "prepare" \/ UNCHANGED req)
    BY <2>1 DEF Request, Dispatch
  <2>3. CASE UNCHANGED req
    <3>1. req.serial <= served /\ req.serial \in Int
      BY <1>0 DEF PortInv, TypeOK
    <3>2. req'.serial # served'
      BY <1>0, <2>2, <2>3, <3>1
    <3> QED BY <3>2 DEF AnswerInv, Answered
  <2> QED BY <1>1, <2>2, <2>3
<1>6. CASE HbaStep \/ UNCHANGED vars
  BY <1>2, <1>6 DEF HbaStep, vars, call
<1>7. CASE \/ DiskInit \/ AtaDetect \/ DetectPort \/ ClearSt \/ StopWait \/ SetBases
           \/ Run \/ StartWait \/ Prepare \/ Issue \/ PollCi \/ Identified
  BY <1>1, <1>7 DEF DiskInit, AtaDetect, DetectPort, ClearSt, StopWait, SetBases, Run,
       StartWait, Prepare, Issue, PollCi, Identified, PollBit
<1> QED BY <1>3, <1>4, <1>5, <1>6, <1>7 DEF Next, KernelStep

LEMMA ExecInit == Init => ExecInv
<1> SUFFICES ASSUME Init PROVE ExecInv
  OBVIOUS
<1>1. \A p \in Nat : ~ Registered(p)
  BY NullAssumption DEF Init, DisksInit, Registered
<1>2. pc = "disk_init" /\ reply = "none" /\ \A p \in Ports : ~ci[p]
  BY DEF Init
<1> QED BY <1>1, <1>2
     DEF ExecInv, SlotInv, DoneInv, QuietInv, KnownInv, AnswerInv, Answered

LEMMA ExecStep == BaseInv /\ ExecInv /\ [Next]_vars => ExecInv'
BY SlotStep, DoneStep, QuietStep, KnownStep, AnswerStep DEF ExecInv

THEOREM ExecCorrect == Spec => []ExecInv
BY BaseCorrect, ExecInit, ExecStep, PTL DEF Spec

\* Outside ahci_exec_cmd the HBA holds no command of the driver, unless the
\* wait for one ran out on that port.
THEOREM NothingLeftCorrect == Spec => []NothingLeftBehind
<1>1. ExecInv => NothingLeftBehind
  BY DEF ExecInv, SlotInv, NothingLeftBehind
<1> QED BY <1>1, ExecCorrect, PTL

\* A result of 0 from ahci_exec_cmd means that the command of this call left its
\* slot without an error, for every number of ports, polls and requests, while no
\* wait for a command ran out on the port; that it was executed does not follow.
THEOREM ZeroCorrect == Spec => []ZeroMeansCompleted
<1>1. BaseInv /\ ExecInv => ZeroMeansCompleted
  <2> SUFFICES ASSUME BaseInv, ExecInv, NEW p \in Ports \ exhausted
               PROVE  /\ \A i \in Slots : g_disks[i] = [driver |-> "ahci", unit |-> p]
                             => 0 \in completed[p]
                      /\ Answered(p) => served \in completed[p]
    BY DEF ZeroMeansCompleted
  <2>1. p \in Nat
    BY DEF Ports
  <2>2. Registered(p) => 0 \in completed[p]
    BY <2>1 DEF ExecInv, KnownInv
  <2> QED BY <2>2 DEF ExecInv, AnswerInv, Registered
<1> QED BY <1>1, BaseCorrect, ExecCorrect, PTL

-----------------------------------------------------------------------------
(* The engines and the base registers.                                     *)

\* The port is told to stop before it is waited for, and nothing starts it again
\* before its base registers are written.
EngineInv ==
    /\ pc \in {"stopwait", "bases"} => ~st[unit]
    /\ pc = "bases" => unit \in gaveup \/ ~cr[unit]

LEMMA EngineInit == Init => EngineInv
BY DEF Init, EngineInv

\* Only two steps lead to the wait for a port to stop, or past it.
LEMMA EngineElsewhere ==
    ASSUME [Next]_vars, ~ClearSt, ~StopWait, ~HbaStep, ~UNCHANGED vars
    PROVE  pc' \notin {"stopwait", "bases"}
<1>1. CASE User
  BY <1>1 DEF User, Request, Dispatch
<1>2. CASE \/ DiskInit \/ AtaDetect \/ Search \/ DetectPort \/ Detected \/ SetBases
           \/ Run \/ StartWait \/ Prepare \/ Issue \/ PollCi \/ Identified \/ Status
  BY <1>2 DEF DiskInit, AtaDetect, Search, DetectPort, Detected, SetBases, Run,
       StartWait, Prepare, Issue, PollCi, Identified, Status, PollBit
<1> QED BY <1>1, <1>2 DEF Next, KernelStep

LEMMA EngineHba ==
    ASSUME BaseInv, EngineInv, HbaStep
    PROVE  EngineInv'
<1>1. UNCHANGED <<pc, unit, gaveup, st>>
  BY DEF HbaStep, Engines, Complete, Fail, kernel, aux, engine
<1>2. \A p \in Ports : ~st[p] /\ ~cr[p] => ~cr'[p]
  BY DEF HbaStep, Engines, Complete, Fail, engine, TypeOK, BaseInv
<1>3. pc = "bases" => unit \in Ports
  BY DEF BaseInv, PortInv, Starting
<1> QED BY <1>1, <1>2, <1>3 DEF EngineInv

LEMMA EngineStep == BaseInv /\ EngineInv /\ [Next]_vars => EngineInv'
<1> SUFFICES ASSUME BaseInv, EngineInv, [Next]_vars PROVE EngineInv'
  OBVIOUS
<1>1. CASE ClearSt
  <2>1. TypeOK /\ unit \in Ports
    BY <1>1 DEF ClearSt, BaseInv, PortInv, Starting
  <2>2. unit' = unit /\ pc' = "stopwait" /\ ~st'[unit]
    BY <1>1, <2>1 DEF ClearSt, kernel, TypeOK
  <2> QED BY <2>2 DEF EngineInv
<1>2. CASE StopWait
  <2>1. UNCHANGED <<st, cr, unit>> /\ pc = "stopwait"
    BY <1>2 DEF StopWait, engine, kernel
  <2>2. pc' = "bases" => unit \in gaveup' \/ ~cr[unit]
    BY <1>2 DEF StopWait
  <2> QED BY <2>1, <2>2 DEF EngineInv
<1>3. CASE HbaStep
  BY <1>3, EngineHba
<1>4. CASE UNCHANGED vars
  BY <1>4 DEF vars, kernel, engine, aux, EngineInv
<1>5. CASE ~ClearSt /\ ~StopWait /\ ~HbaStep /\ ~UNCHANGED vars
  BY <1>5, EngineElsewhere DEF EngineInv
<1> QED BY <1>1, <1>2, <1>3, <1>4, <1>5

LEMMA BasesStep ==
    ASSUME BaseInv, EngineInv, [Next]_vars, NEW p \in Ports, clb'[p] # clb[p]
    PROVE  ~cr[p] \/ p \in gaveup
<1>1. SetBases
  <2>1. CASE KernelStep
    BY <2>1 DEF KernelStep, DiskInit, AtaDetect, Search, DetectPort, Detected, ClearSt,
         StopWait, Run, StartWait, Prepare, Issue, PollCi, Identified, Status, engine
  <2>2. ~ User /\ ~ HbaStep /\ ~ UNCHANGED vars
    BY DEF User, Request, HbaStep, Engines, Complete, Fail, vars, engine
  <2> QED BY <2>1, <2>2 DEF Next
<1>2. p = unit /\ pc = "bases"
  BY <1>1 DEF SetBases, BaseInv, TypeOK
<1> QED BY <1>2 DEF EngineInv

\* The list of a port, also of one that the firmware left running, is replaced
\* only once its list engine has stopped, unless it still ran when the wait for
\* that was over (ahci_port_start).
THEOREM BasesCorrect == Spec => BasesChangeStopped
<1>1. BaseInv /\ EngineInv /\ [Next]_vars
        => [\A p \in Ports : clb'[p] # clb[p] => ~cr[p] \/ p \in gaveup]_vars
  BY BasesStep
<1>2. Spec => []EngineInv
  BY BaseCorrect, EngineInit, EngineStep, PTL DEF Spec
<1> QED BY <1>1, <1>2, BaseCorrect, PTL DEF Spec, BasesChangeStopped

-----------------------------------------------------------------------------
(* The size of a transfer.                                                 *)

\* The command of a port is the one that is prepared for the request, whose
\* count of bytes and buffer are the same as a u32.
CommandInv ==
    /\ pc \in {"issue", "ciwait"}
          => command[req.port] = Command(req.op, req.lba, req.count)
    /\ req.op = "identify" => req.room = 512
    /\ req.count < WORD /\ (req.count * 512) % WORD = req.room % WORD
    /\ DOMAIN command = Ports

LEMMA RemainderSmall ==
    ASSUME NEW a \in Nat, NEW n \in Nat \ {0}
    PROVE  a % n \in Nat /\ a % n <= a
<1>1. a = n * (a \div n) + (a % n) /\ a % n \in 0..(n - 1) /\ a \div n \in Int
  OBVIOUS
<1>2. a \div n >= 0
  BY <1>1
<1>3. n * (a \div n) >= 0
  BY <1>1, <1>2
<1> QED BY <1>1, <1>3

LEMMA PrdtFits ==
    ASSUME NEW bytes \in Nat \ {0}
    PROVE  Prdt(bytes) \in Nat /\ Prdt(bytes) <= bytes
<1>1. bytes - 1 \in Nat /\ PRD_LIMIT \in Nat \ {0}
  BY AhciAssumption
<1> QED BY <1>1, RemainderSmall DEF Prdt

\* No entry names more than PRD_LIMIT, which is what one for 0 bytes names.
LEMMA PrdtBounded ==
    ASSUME NEW bytes \in Nat
    PROVE  Prdt(bytes) \in Nat /\ Prdt(bytes) <= PRD_LIMIT
<1>1. PRD_LIMIT \in Nat \ {0} /\ bytes - 1 \in Int
  BY AhciAssumption
<1>2. (bytes - 1) % PRD_LIMIT \in 0..(PRD_LIMIT - 1)
  BY <1>1
<1> QED BY <1>1, <1>2 DEF Prdt

\* The entry for the bytes of a count, as a u32, fits every buffer that malloc
\* gives for them but the empty one.
LEMMA EntryFits ==
    ASSUME NEW room \in Nat \ {0}
    PROVE  Prdt(room % WORD) <= room
<1>1. WORD \in Nat \ {0} /\ PRD_LIMIT \in Nat /\ PRD_LIMIT <= WORD
  BY AhciAssumption
<1>2. room % WORD \in Nat /\ room % WORD <= room
  BY <1>1, RemainderSmall
<1>3. CASE room % WORD # 0
  BY <1>2, <1>3, PrdtFits
<1>4. CASE room % WORD = 0
  <2>1. room >= WORD
    BY <1>1, <1>4
  <2> QED BY <1>1, <1>2, <2>1, PrdtBounded
<1> QED BY <1>3, <1>4

\* A multiple of the word makes no difference to the word.
LEMMA Wrap ==
    ASSUME NEW w \in Nat \ {0}, NEW x \in Int, NEW k \in Int
    PROVE  (w * k + x) % w = x % w
<1>1. x = w * (x \div w) + (x % w) /\ x % w \in 0..(w - 1) /\ x \div w \in Int
  OBVIOUS
<1>2. w * k + x = w * (k + (x \div w)) + (x % w)
  BY <1>1
<1>3. ASSUME NEW q \in Int, NEW d \in 0..(w - 1)
      PROVE  (w * q + d) % w = d
  OBVIOUS
<1> DEFINE q == k + (x \div w)
           d == x % w
<1>4. q \in Int /\ d \in 0..(w - 1) /\ w * k + x = w * q + d
  BY <1>1, <1>2
<1> HIDE DEF q, d
<1>5. (w * k + x) % w = d
  BY <1>3, <1>4
<1> QED BY <1>5 DEF d

LEMMA WrapTwice ==
    ASSUME NEW n \in Int
    PROVE  /\ (n % WORD) % WORD = n % WORD
           /\ ((n % WORD) * 512) % WORD = (n * 512) % WORD
<1>1. WORD \in Nat \ {0} /\ n % WORD \in 0..(WORD - 1) /\ n \div WORD \in Int
      /\ n = WORD * (n \div WORD) + (n % WORD)
  BY AhciAssumption
<1>2. (n % WORD) % WORD = n % WORD
  <2>1. \A w \in Nat \ {0} : \A d \in 0..(w - 1) : d % w = d
    OBVIOUS
  <2> QED BY <1>1, <2>1
<1>3. n * 512 = WORD * ((n \div WORD) * 512) + ((n % WORD) * 512)
  BY <1>1
<1>4. (n % WORD) * 512 \in Int /\ (n \div WORD) * 512 \in Int
  BY <1>1
<1>5. (n * 512) % WORD = ((n % WORD) * 512) % WORD
  <2> DEFINE k == (n \div WORD) * 512
             x == (n % WORD) * 512
             m == n * 512
  <2>1. WORD \in Nat \ {0} /\ k \in Int /\ x \in Int
    BY <1>1, <1>4
  <2>2. m = WORD * k + x
    BY <1>3
  <2> HIDE DEF k, x, m
  <2>3. (WORD * k + x) % WORD = x % WORD
    BY <2>1, Wrap
  <2>4. m % WORD = x % WORD
    BY <2>2, <2>3
  <2> QED BY <2>4 DEF m, x
<1> QED BY <1>2, <1>5, Zenon

\* A buffer of malloc has the bytes of the count, or what is left of them in a
\* word.
LEMMA BuffersMeant ==
    ASSUME NEW count \in Int, NEW room \in Buffers(count)
    PROVE  room \in Nat /\ room % WORD = (count * 512) % WORD
<1> DEFINE n == count * 512
<1>1. n \in Int /\ WORD \in Nat \ {0} /\ room \in Nat /\ room \in {Signed(n), n}
  BY AhciAssumption DEF Buffers
<1> HIDE DEF n
<1>2. CASE room = Signed(n)
  <2>1. n % WORD \in 0..(WORD - 1)
    BY <1>1
  <2>2. room = n % WORD
    BY <1>1, <1>2, <2>1 DEF Signed
  <2>3. (n % WORD) % WORD = n % WORD
    BY <1>1, WrapTwice, Zenon
  <2> QED BY <1>1, <2>2, <2>3 DEF n
<1>3. CASE room = n
  BY <1>1, <1>3 DEF n
<1> QED BY <1>1, <1>2, <1>3

LEMMA CommandInit == Init => CommandInv
BY AhciAssumption DEF Init, CommandInv

LEMMA CommandStep == BaseInv /\ CommandInv /\ [Next]_vars => CommandInv'
<1> SUFFICES ASSUME BaseInv, CommandInv, [Next]_vars PROVE CommandInv'
  OBVIOUS
<1>0. TypeOK
  BY DEF BaseInv
<1>1. CASE req' = req /\ command' = command /\ pc' \notin {"issue", "ciwait"}
  BY <1>1 DEF CommandInv
<1>2. CASE req' = req /\ command' = command
           /\ (pc' \in {"issue", "ciwait"} => pc \in {"issue", "ciwait"})
  BY <1>2 DEF CommandInv
<1>3. CASE Prepare
  <2>1. req' = req /\ req.port \in Ports
        /\ command' = [command EXCEPT ![req.port] = Command(req.op, req.lba, req.count)]
    BY <1>0, <1>3 DEF Prepare, call, TypeOK
  <2>2. command'[req.port] = Command(req.op, req.lba, req.count)
    BY <2>1 DEF CommandInv
  <2>3. DOMAIN command' = Ports
    BY <2>1 DEF CommandInv
  <2> QED BY <2>1, <2>2, <2>3 DEF CommandInv
<1>4. CASE Issue \/ PollCi
  BY <1>2, <1>4 DEF Issue, PollCi, call
<1>5. CASE StartWait
  <2>1. command' = command /\ pc' \notin {"issue", "ciwait"}
        /\ req'.count = 1 /\ req'.room = 512
    BY <1>5 DEF StartWait, PollBit
  <2>2. 1 < WORD /\ 1 * 512 = 512
    BY AhciAssumption
  <2> QED BY <2>1, <2>2 DEF CommandInv
<1>6. CASE \/ DiskInit \/ AtaDetect \/ Search \/ DetectPort \/ Detected \/ ClearSt
           \/ StopWait \/ SetBases \/ Run \/ Identified \/ Status
  <2>1. req' = req /\ command' = command
    BY <1>6 DEF DiskInit, AtaDetect, Search, DetectPort, Detected, ClearSt, StopWait,
         SetBases, Run, Identified, Status, call
  <2>2. pc' \notin {"issue", "ciwait"}
    BY <1>6 DEF DiskInit, AtaDetect, Search, DetectPort, Detected, ClearSt, StopWait,
         SetBases, Run, Identified, Status, PollBit
  <2> QED BY <1>1, <2>1, <2>2
<1>7. CASE User
  <2>1. PICK r \in Requests : Request(r)
    BY <1>7 DEF User
  <2>2. r.op # "identify" /\ r.count \in Int
    BY AhciAssumption
  <2>3. pc' \in {"shell", "prepare"} /\ command' = command
    BY <2>1 DEF Request, Dispatch
  <2>4. CASE req' = req
    BY <1>1, <2>3, <2>4
  <2>5. CASE req' # req
    <3>1. PICK room \in Buffers(r.count) : Dispatch(r, disk_get(r.disk), room)
      BY <2>1, <2>5 DEF Request
    <3>2. req'.op = r.op /\ req'.count = r.count % WORD /\ req'.room = room
      BY <2>5, <3>1 DEF Dispatch
    <3>3. r.count % WORD < WORD
      <4>1. \A n \in Int, w \in Nat \ {0} : n % w < w
        OBVIOUS
      <4> QED BY <2>2, <4>1, AhciAssumption
    <3>4. ((r.count % WORD) * 512) % WORD = (r.count * 512) % WORD
      BY <2>2, WrapTwice
    <3>5. (r.count * 512) % WORD = room % WORD
      BY <2>2, BuffersMeant
    <3> QED BY <2>2, <2>3, <3>2, <3>3, <3>4, <3>5 DEF CommandInv
  <2> QED BY <2>4, <2>5
<1>8. CASE HbaStep \/ UNCHANGED vars
  BY <1>2, <1>8 DEF HbaStep, vars, call
<1> QED BY <1>3, <1>4, <1>5, <1>6, <1>7, <1>8 DEF Next, KernelStep

\* The PRD entry of the driver's table names no byte past the buffer of the
\* command, for every count an int can have, whichever way its product with 512
\* wraps, every width of a word and every limit of an entry; only a buffer of 0
\* bytes is left out (kernel_main, ahci_read_sectors, ahci_exec_cmd).
THEOREM TransferCorrect == Spec => []PrdtFitsBuffer
<1>1. BaseInv /\ CommandInv => PrdtFitsBuffer
  <2> SUFFICES ASSUME BaseInv, CommandInv, pc = "ciwait", req.room # 0
               PROVE  command[req.port].bytes <= req.room
    BY DEF PrdtFitsBuffer
  <2>1. req.room \in Nat \ {0}
    BY DEF BaseInv, TypeOK
  <2>2. command[req.port] = Command(req.op, req.lba, req.count)
    BY DEF CommandInv
  <2>3. CASE req.op = "identify"
    <3>1. command[req.port].bytes = Prdt(512) /\ req.room = 512
      BY <2>2, <2>3 DEF Command, CommandInv
    <3> QED BY <3>1, PrdtFits
  <2>4. CASE req.op # "identify"
    <3>1. command[req.port].bytes = Prdt(req.room % WORD)
      BY <2>2, <2>4 DEF Command, CommandInv
    <3> QED BY <2>1, <3>1, EntryFits
  <2> QED BY <2>3, <2>4
<1> QED BY <1>1, BaseCorrect, CommandInit, CommandStep, PTL DEF Spec

-----------------------------------------------------------------------------
(* What a FIS keeps of a request.                                          *)

LEMMA PlaceValues ==
    LET R == RADIX
    IN  /\ Place(0) = 1 /\ Place(1) = R /\ Place(2) = R * R /\ Place(3) = R * R * R
        /\ Place(4) = R * R * R * R /\ Place(5) = R * R * R * R * R
BY DEF Place

LEMMA PlaceType == ASSUME NEW i \in 0..5 PROVE Place(i) \in Nat \ {0}
<1>1. RADIX \in Nat \ {0}
  BY AhciAssumption
<1>2. ASSUME NEW a \in Nat \ {0}, NEW b \in Nat \ {0} PROVE a * b \in Nat \ {0}
  OBVIOUS
<1>3. i = 0 \/ i = 1 \/ i = 2 \/ i = 3 \/ i = 4 \/ i = 5
  OBVIOUS
<1> QED BY <1>1, <1>2, <1>3, PlaceValues

\* What is left of a number after a shift: a digit, and the next shift
LEMMA Shifted ==
    ASSUME NEW n \in Nat, NEW i \in 0..4
    PROVE  /\ Place(i + 1) = Place(i) * RADIX
           /\ n \div Place(i) \in Nat /\ n \div Place(i + 1) \in Nat
           /\ n \div Place(i + 1) = (n \div Place(i)) \div RADIX
           /\ Digit(n, i) \in 0..(RADIX - 1)
           /\ n \div Place(i) = (n \div Place(i + 1)) * RADIX + Digit(n, i)
<1>1. RADIX \in Nat \ {0} /\ Place(i) \in Nat \ {0}
  BY AhciAssumption, PlaceType
<1>2. Place(i + 1) = Place(i) * RADIX
  <2>1. i = 0 \/ i = 1 \/ i = 2 \/ i = 3 \/ i = 4
    OBVIOUS
  <2> QED BY <1>1, <2>1, PlaceValues
<1>3. n \div Place(i) \in Nat
  BY <1>1
<1>4. \A a, b \in Nat \ {0} : n \div (a * b) = (n \div a) \div b
  OBVIOUS
<1>5. n \div Place(i + 1) = (n \div Place(i)) \div RADIX
  BY <1>1, <1>2, <1>4
<1>6. \A q \in Nat, r \in Nat \ {0} : /\ q \div r \in Nat /\ q % r \in 0..(r - 1)
                                      /\ q = (q \div r) * r + (q % r)
  OBVIOUS
<1> QED BY <1>1, <1>2, <1>3, <1>5, <1>6 DEF Digit

\* A number from three digits and what is left after three shifts
LEMMA ThreeDigits ==
    ASSUME NEW R \in Nat, NEW n \in Nat, NEW q1 \in Nat, NEW q2 \in Nat, NEW q3 \in Nat,
           NEW d0 \in Nat, NEW d1 \in Nat, NEW d2 \in Nat,
           n = q1 * R + d0, q1 = q2 * R + d1, q2 = q3 * R + d2
    PROVE  n = d0 + d1 * R + d2 * (R * R) + q3 * (R * R * R)
OBVIOUS

LEMMA LowDigits ==
    ASSUME NEW n \in Nat
    PROVE  n = Digit(n, 0) + Digit(n, 1) * Place(1) + Digit(n, 2) * Place(2)
                 + (n \div Place(3)) * Place(3)
<1>1. RADIX \in Nat /\ n \div Place(0) = n
  BY AhciAssumption, PlaceValues
<1>2. /\ n \div Place(1) \in Nat /\ n \div Place(2) \in Nat /\ n \div Place(3) \in Nat
      /\ Digit(n, 0) \in Nat /\ Digit(n, 1) \in Nat /\ Digit(n, 2) \in Nat
      /\ n \div Place(0) = (n \div Place(1)) * RADIX + Digit(n, 0)
      /\ n \div Place(1) = (n \div Place(2)) * RADIX + Digit(n, 1)
      /\ n \div Place(2) = (n \div Place(3)) * RADIX + Digit(n, 2)
  <2>1. /\ n \div Place(1) \in Nat /\ Digit(n, 0) \in Nat
        /\ n \div Place(0) = (n \div Place(1)) * RADIX + Digit(n, 0)
    BY <1>1, Shifted
  <2>2. /\ n \div Place(2) \in Nat /\ Digit(n, 1) \in Nat
        /\ n \div Place(1) = (n \div Place(2)) * RADIX + Digit(n, 1)
    BY <1>1, Shifted
  <2>3. /\ n \div Place(3) \in Nat /\ Digit(n, 2) \in Nat
        /\ n \div Place(2) = (n \div Place(3)) * RADIX + Digit(n, 2)
    BY <1>1, Shifted
  <2> QED BY <2>1, <2>2, <2>3
<1>3. n = Digit(n, 0) + Digit(n, 1) * RADIX + Digit(n, 2) * (RADIX * RADIX)
            + (n \div Place(3)) * (RADIX * RADIX * RADIX)
  BY <1>1, <1>2, ThreeDigits
<1> QED BY <1>3, PlaceValues

LEMMA SmallModulo ==
    ASSUME NEW a \in Nat, NEW b \in Nat \ {0}, a < b
    PROVE  a % b = a
OBVIOUS

\* The other three digits of an LBA of 48 bits
LEMMA HighDigits ==
    ASSUME NEW n \in Nat, n < Place(5) * RADIX
    PROVE  (n \div Place(3)) * Place(3)
             = Digit(n, 3) * Place(3) + Digit(n, 4) * Place(4) + Digit(n, 5) * Place(5)
<1> DEFINE q3 == n \div Place(3)
           q4 == n \div Place(4)
           q5 == n \div Place(5)
<1>1. RADIX \in Nat \ {0} /\ Place(3) \in Nat /\ Place(5) \in Nat \ {0}
  BY AhciAssumption, PlaceType
<1>2. q4 \in Nat /\ Digit(n, 3) \in Nat /\ q3 = q4 * RADIX + Digit(n, 3)
  BY Shifted
<1>3. q5 \in Nat /\ Digit(n, 4) \in Nat /\ q4 = q5 * RADIX + Digit(n, 4)
  BY Shifted
<1>4. q5 = Digit(n, 5)
  <2>1. \A p, r \in Nat \ {0} : n < p * r => n \div p < r
    OBVIOUS
  <2>2. q5 < RADIX
    BY <1>1, <2>1
  <2>3. q5 % RADIX = q5
    BY <1>1, <1>3, <2>2, SmallModulo
  <2> QED BY <2>3 DEF Digit
<1>5. Place(4) = Place(3) * RADIX /\ Place(5) = (Place(3) * RADIX) * RADIX
  BY Shifted, PlaceValues
<1> HIDE DEF q3, q4, q5
<1>6. ASSUME NEW P \in Nat, NEW R \in Nat, NEW a \in Nat, NEW b \in Nat, NEW c \in Nat
      PROVE  ((c * R + b) * R + a) * P = a * P + b * (P * R) + c * ((P * R) * R)
  OBVIOUS
<1>7. q3 * Place(3) = Digit(n, 3) * Place(3) + Digit(n, 4) * (Place(3) * RADIX)
                        + q5 * ((Place(3) * RADIX) * RADIX)
  BY <1>1, <1>2, <1>3, <1>6
<1> QED BY <1>4, <1>5, <1>7 DEF q3

\* Where the command has 28 bits, the LBA has a nibble after its three digits:
\* lba + count does not wrap.
LEMMA ShortLba ==
    ASSUME NEW lba \in Nat, NEW count \in Nat, count < WORD, lba < Place(5) * RADIX,
           ~NeedsLba48(lba, count)
    PROVE  Digit(lba, 3) % NIBBLE = lba \div Place(3)
<1> DEFINE q == lba \div Place(3)
<1>1. /\ Place(3) \in Nat \ {0} /\ RADIX \in Nat \ {0}
      /\ NIBBLE \in Nat \ {0} /\ NIBBLE <= RADIX
      /\ WORD \in Nat \ {0} /\ WORD * WORD \in Nat \ {0}
  BY PlaceType, AhciAssumption, WordType
<1>2. lba + count < WORD * WORD
  <2>1. Place(5) * RADIX + WORD <= WORD * WORD
    BY AhciAssumption, PlaceValues
  <2>2. Place(5) * RADIX \in Nat
    BY <1>1, PlaceType
  <2> QED BY <1>1, <2>1, <2>2
<1>3. (lba + count) % (WORD * WORD) = lba + count
  <2>1. lba + count \in Nat
    OBVIOUS
  <2> QED BY <1>1, <1>2, <2>1, SmallModulo
<1>4. q \in Nat /\ q < NIBBLE
  <2>1. NIBBLE * Place(3) \in Int
    BY <1>1
  <2>2. lba < NIBBLE * Place(3)
    BY <1>3, <2>1 DEF NeedsLba48
  <2>3. \A p, m \in Nat \ {0} : lba < m * p => lba \div p < m /\ lba \div p \in Nat
    OBVIOUS
  <2> QED BY <1>1, <2>2, <2>3
<1> HIDE DEF q
<1>5. q < RADIX
  BY <1>1, <1>4
<1>6. q % RADIX = q
  BY <1>1, <1>4, <1>5, SmallModulo
<1>7. q % NIBBLE = q
  BY <1>1, <1>4, SmallModulo
<1> QED BY <1>6, <1>7 DEF Digit, q

LEMMA LbaKept ==
    ASSUME NEW op \in {"read", "write"}, NEW lba \in Nat, NEW count \in Nat,
           count < WORD, lba < Place(5) * RADIX
    PROVE  FisLba(Command(op, lba, count)) = lba
<1> DEFINE c == Command(op, lba, count)
           long == NeedsLba48(lba, count)
           low == Digit(lba, 0) + Digit(lba, 1) * Place(1) + Digit(lba, 2) * Place(2)
           q == lba \div Place(3)
<1>1. c.fis = RegFis(lba, count, long) /\ c.lba48 = long
  BY DEF Command
<1>2. /\ c.fis[4] = (IF long THEN Digit(lba, 3) ELSE 0)
      /\ c.fis[5] = (IF long THEN Digit(lba, 4) ELSE 0)
      /\ c.fis[6] = (IF long THEN Digit(lba, 5) ELSE 0)
      /\ c.fis[7] = (IF long THEN 0 ELSE LBA_MODE + (Digit(lba, 3) % NIBBLE))
      /\ c.fis[8] = Digit(lba, 0) /\ c.fis[9] = Digit(lba, 1)
      /\ c.fis[10] = Digit(lba, 2)
  BY <1>1 DEF RegFis
<1>3. lba = low + q * Place(3)
  BY LowDigits
<1>4. q \in Nat /\ Place(3) \in Nat \ {0} /\ low \in Nat /\ LBA_MODE \in Nat
  <2>1. Digit(lba, 0) \in Nat /\ Digit(lba, 1) \in Nat /\ Digit(lba, 2) \in Nat
    BY Shifted, AhciAssumption
  <2>2. Place(1) \in Nat /\ Place(2) \in Nat /\ Place(3) \in Nat \ {0} /\ q \in Nat
    BY PlaceType
  <2> QED BY <2>1, <2>2, AhciAssumption
<1>5. CASE long
  <2>1. q * Place(3) = Digit(lba, 3) * Place(3) + Digit(lba, 4) * Place(4)
                         + Digit(lba, 5) * Place(5)
    BY HighDigits
  <2>2. /\ Digit(lba, 3) \in Int /\ Digit(lba, 4) \in Int /\ Digit(lba, 5) \in Int
        /\ Place(4) \in Nat /\ Place(5) \in Nat
    <3>1. Digit(lba, 3) \in Nat /\ Digit(lba, 4) \in Nat
      BY Shifted, AhciAssumption
    <3>2. Place(4) \in Nat /\ Place(5) \in Nat \ {0} /\ RADIX \in Nat \ {0}
      BY PlaceType, AhciAssumption
    <3>3. Digit(lba, 5) \in Int
      BY <3>2 DEF Digit
    <3> QED BY <3>1, <3>2, <3>3
  <2>3. FisLba(c) = low + Digit(lba, 3) * Place(3) + Digit(lba, 4) * Place(4)
                      + Digit(lba, 5) * Place(5)
    BY <1>1, <1>2, <1>5 DEF FisLba
  <2> HIDE DEF c, low, q, long
  <2> QED BY <1>3, <1>4, <2>1, <2>2, <2>3 DEF c
<1>6. CASE ~long
  <2>1. Digit(lba, 3) % NIBBLE = q
    BY <1>6, ShortLba
  <2>2. FisLba(c) = low + (c.fis[7] - LBA_MODE) * Place(3)
    BY <1>1, <1>2, <1>6 DEF FisLba
  <2>3. c.fis[7] - LBA_MODE = q
    BY <1>2, <1>4, <1>6, <2>1
  <2> HIDE DEF c, low, q, long
  <2> QED BY <1>3, <2>2, <2>3 DEF c
<1> QED BY <1>5, <1>6

LEMMA CountKept ==
    ASSUME NEW op \in {"read", "write"}, NEW lba \in Nat, NEW count \in Nat,
           count < IF Command(op, lba, count).lba48 THEN RADIX * RADIX ELSE RADIX
    PROVE  FisCount(Command(op, lba, count)) = count
<1> DEFINE c == Command(op, lba, count)
           long == NeedsLba48(lba, count)
           q == count \div Place(1)
<1>1. c.fis = RegFis(lba, count, long) /\ c.lba48 = long
  BY DEF Command
<1>2. c.fis[12] = Digit(count, 0) /\ c.fis[11] = (IF long THEN Digit(count, 1) ELSE 0)
  BY <1>1 DEF RegFis
<1>3. /\ RADIX \in Nat \ {0} /\ Place(1) = RADIX /\ count \div Place(0) = count
      /\ Digit(count, 0) \in Nat /\ q \in Nat /\ count = q * RADIX + Digit(count, 0)
  <2>1. RADIX \in Nat \ {0} /\ Place(1) = RADIX /\ count \div Place(0) = count
    BY AhciAssumption, PlaceValues
  <2>2. Digit(count, 0) \in Nat /\ q \in Nat
        /\ count \div Place(0) = q * RADIX + Digit(count, 0)
    BY <2>1, Shifted
  <2> QED BY <2>1, <2>2
<1>4. CASE long
  <2>1. count < RADIX * RADIX
    BY <1>1, <1>4
  <2>2. \A r \in Nat \ {0} : count < r * r => count \div r < r
    OBVIOUS
  <2>3. q < RADIX
    BY <1>3, <2>1, <2>2
  <2>4. q % RADIX = q
    BY <1>3, <2>3, SmallModulo
  <2>5. Digit(count, 1) = q
    BY <2>4 DEF Digit
  <2>6. FisCount(c) = Digit(count, 0) + q * RADIX
    BY <1>1, <1>2, <1>4, <2>5 DEF FisCount
  <2> HIDE DEF c, q, long
  <2> QED BY <1>3, <2>6 DEF c
<1>5. CASE ~long
  <2>1. count < RADIX
    BY <1>1, <1>5
  <2>2. FisCount(c) = Digit(count, 0) + 0
    BY <1>1, <1>2, <1>5 DEF FisCount
  <2>3. count % RADIX = count
    BY <1>3, <2>1, SmallModulo
  <2>4. Digit(count, 0) = count
    BY <1>3, <2>3 DEF Digit
  <2> HIDE DEF c, q, long
  <2> QED BY <2>2, <2>4 DEF c
<1> QED BY <1>4, <1>5

\* The FIS of every request keeps its LBA of 48 bits and its count, in the form
\* that lba + count selects, where its comments put them, for every base of the
\* digits (ahci_read_sectors, ahci_build_reg_fis).
THEOREM CommandCorrect == Spec => []FisKeepsRequest
<1>1. BaseInv /\ CommandInv => FisKeepsRequest
  <2> SUFFICES
        ASSUME BaseInv, CommandInv, pc = "ciwait", req.op # "identify"
        PROVE  LET c == command[req.port]
               IN  /\ req.lba < Place(5) * RADIX => FisLba(c) = req.lba
                   /\ req.count < (IF c.lba48 THEN RADIX * RADIX ELSE RADIX)
                          => FisCount(c) = req.count
    BY DEF FisKeepsRequest
  <2>1. /\ req.op \in {"read", "write"} /\ req.lba \in Nat /\ req.count \in Nat
        /\ req.count < WORD
        /\ command[req.port] = Command(req.op, req.lba, req.count)
    BY DEF BaseInv, TypeOK, CommandInv
  <2> QED BY <2>1, LbaKept, CountKept
<1> QED BY <1>1, BaseCorrect, CommandInit, CommandStep, PTL DEF Spec

-----------------------------------------------------------------------------
(* The command structures in memory.                                       *)

Given(p) == bases[p] # NULL

\* The structures of a port, in the order they are allocated
Placed(b) ==
    /\ b.list % 1024 = 0 /\ b.fis % 256 = 0 /\ b.table % 4096 = 0
    /\ b.list + 1024 <= b.fis /\ b.fis + 256 <= b.table

\* Memory is given to the ports in their order, and none of it is given back:
\* a port has its structures once detection is at it, and what is free begins
\* after them.
HeapInv ==
    /\ \A p \in Ports : Given(p) => /\ Placed(bases[p])
                                     /\ bases[p].table + 4096 <= g_mem_alloc_ptr
    /\ \A p, q \in Ports : Given(p) /\ Given(q) /\ p < q
                               => bases[p].table + 4096 <= bases[q].list
    /\ pc \in {"disk_init", "ata"} => \A p \in Ports : ~Given(p)
    /\ Detecting => \A p \in Ports : Given(p) => p < unit \/ (p = unit /\ pc # "detect")

LEMMA AlignedIs ==
    ASSUME NEW ptr \in Nat
    PROVE  \A align \in {256, 1024, 4096} :
              /\ Aligned(ptr, align) \in Nat /\ Aligned(ptr, align) >= ptr
              /\ Aligned(ptr, align) % align = 0
<1>1. Aligned(ptr, 256) >= ptr /\ Aligned(ptr, 256) % 256 = 0
  BY DEF Aligned
<1>2. Aligned(ptr, 1024) >= ptr /\ Aligned(ptr, 1024) % 1024 = 0
  BY DEF Aligned
<1>3. Aligned(ptr, 4096) >= ptr /\ Aligned(ptr, 4096) % 4096 = 0
  BY DEF Aligned
<1> QED BY <1>1, <1>2, <1>3, AlignedType

LEMMA StructuresPlaced ==
    ASSUME NEW ptr \in Nat
    PROVE  LET s == Structures(ptr)
           IN  /\ {s.list, s.fis, s.table, s.next} \subseteq Nat
               /\ Placed([list |-> s.list, fis |-> s.fis, table |-> s.table])
               /\ ptr <= s.list /\ s.next = s.table + 4096
<1> DEFINE list == Aligned(ptr, 1024)
           fis == Aligned(list + 1024, 256)
           table == Aligned(fis + 256, 4096)
           s == Structures(ptr)
<1>1. list \in Nat /\ list >= ptr /\ list % 1024 = 0
  BY AlignedIs
<1>2. fis \in Nat /\ fis >= list + 1024 /\ fis % 256 = 0
  <2> HIDE DEF list
  <2>1. list + 1024 \in Nat
    BY <1>1
  <2> QED BY <2>1, AlignedIs
<1>3. table \in Nat /\ table >= fis + 256 /\ table % 4096 = 0
  <2> HIDE DEF list, fis
  <2>1. fis + 256 \in Nat
    BY <1>2
  <2> QED BY <2>1, AlignedIs
<1>4. s = [list |-> list, fis |-> fis, table |-> table, next |-> table + 4096]
  BY DEF Structures
<1> HIDE DEF list, fis, table, s
<1>5. s.list = list /\ s.fis = fis /\ s.table = table /\ s.next = table + 4096
  BY <1>4
<1> SUFFICES /\ {s.list, s.fis, s.table, s.next} \subseteq Nat
             /\ Placed([list |-> s.list, fis |-> s.fis, table |-> s.table])
             /\ ptr <= s.list /\ s.next = s.table + 4096
  BY DEF s
<1> QED BY <1>1, <1>2, <1>3, <1>5 DEF Placed

LEMMA HeapInit == Init => HeapInv
BY DEF Init, HeapInv, Given, Detecting, Starting, Calling

LEMMA HeapKept ==
    ASSUME TypeOK, HeapInv, UNCHANGED <<bases, g_mem_alloc_ptr>>,
           pc' \in {"disk_init", "ata"} => pc \in {"disk_init", "ata"},
           Detecting' => \/ pc \in {"disk_init", "ata"}
                         \/ Detecting /\ unit' = unit /\ (pc' = "detect" => pc = "detect")
                         \/ Detecting /\ unit' = unit + 1
    PROVE  HeapInv'
<1>1. \A p \in Ports : Given(p)' <=> Given(p)
  BY DEF Given
<1>2. unit \in Nat /\ Ports \subseteq Nat
  BY DEF TypeOK, Ports
<1>3. ASSUME Detecting', NEW p \in Ports, Given(p)
      PROVE  p < unit' \/ (p = unit' /\ pc' # "detect")
  BY <1>2, <1>3 DEF HeapInv
<1>4. pc' \in {"disk_init", "ata"} => \A p \in Ports : ~Given(p)
  BY DEF HeapInv
<1> QED BY <1>1, <1>3, <1>4 DEF HeapInv

\* The port that detection comes to takes its structures from what is free.
LEMMA HeapTaken ==
    ASSUME BaseInv, HeapInv, DetectPort
    PROVE  HeapInv'
<1>0. TypeOK /\ Detecting /\ unit \in Ports /\ g_mem_alloc_ptr \in Nat
  <2>1. TypeOK /\ unit \in Nat /\ g_mem_alloc_ptr \in Nat
    BY DEF BaseInv, TypeOK
  <2>2. pc = "detect" /\ unit < NPORTS /\ NPORTS \in Nat
    BY AhciAssumption DEF DetectPort
  <2> QED BY <2>1, <2>2 DEF Detecting, Ports
<1>1. CASE machine[unit] \notin {"ata", "atapi"}
  <2>1. UNCHANGED <<bases, g_mem_alloc_ptr, pc>> /\ unit' = unit + 1 /\ pc = "detect"
    BY <1>1 DEF DetectPort
  <2> QED BY <1>0, <2>1, HeapKept
<1>2. CASE machine[unit] \in {"ata", "atapi"}
  <2> DEFINE s == Structures(g_mem_alloc_ptr)
             b == [list |-> s.list, fis |-> s.fis, table |-> s.table]
  <2>1. /\ bases' = [bases EXCEPT ![unit] = b] /\ g_mem_alloc_ptr' = s.next
        /\ pc' = "stop" /\ pc = "detect" /\ UNCHANGED unit
    BY <1>2 DEF DetectPort
  <2>2. /\ {s.list, s.fis, s.table, s.next} \subseteq Nat /\ Placed(b)
        /\ g_mem_alloc_ptr <= s.list /\ s.next = s.table + 4096
    BY <1>0, StructuresPlaced
  <2>3. b.list = s.list /\ b.fis = s.fis /\ b.table = s.table
    OBVIOUS
  <2> HIDE DEF s, b
  <2>4. s.list + 1024 + 256 <= s.table
    BY <2>2, <2>3 DEF Placed
  <2>5. bases'[unit] = b /\ \A p \in Ports \ {unit} : bases'[p] = bases[p]
    BY <1>0, <2>1 DEF TypeOK
  <2>6. \A p \in Ports : Given(p) => p < unit
    BY <1>0, <2>1 DEF HeapInv
  <2>7. ASSUME NEW p \in Ports, Given(p)'
        PROVE  /\ p < unit \/ p = unit
               /\ Placed(bases'[p]) /\ bases'[p].table + 4096 <= s.next
    <3>1. CASE p = unit
      BY <2>2, <2>3, <2>5, <3>1
    <3>2. CASE p # unit
      <4>1. Given(p) /\ bases'[p] = bases[p]
        BY <2>5, <2>7, <3>2 DEF Given
      <4>2. bases[p].table \in Nat
        BY <1>0, <4>1 DEF Given, TypeOK
      <4>3. bases[p].table + 4096 <= g_mem_alloc_ptr /\ Placed(bases[p])
        BY <4>1 DEF HeapInv
      <4> QED BY <1>0, <2>2, <2>4, <2>6, <4>1, <4>2, <4>3
    <3> QED BY <3>1, <3>2
  <2>8. ASSUME NEW p \in Ports, NEW q \in Ports, Given(p)', Given(q)', p < q
        PROVE  bases'[p].table + 4096 <= bases'[q].list
    <3>1. p # unit
      BY <1>0, <2>7, <2>8 DEF Ports
    <3>2. Given(p) /\ bases'[p] = bases[p]
      BY <2>5, <2>8, <3>1 DEF Given
    <3>3. CASE q = unit
      <4>1. bases[p].table \in Nat /\ bases[p].table + 4096 <= g_mem_alloc_ptr
        BY <1>0, <3>2 DEF Given, TypeOK, HeapInv
      <4> QED BY <1>0, <2>2, <2>3, <2>5, <3>2, <3>3, <4>1
    <3>4. CASE q # unit
      <4>1. Given(q) /\ bases'[q] = bases[q]
        BY <2>5, <2>8, <3>4 DEF Given
      <4> QED BY <2>8, <3>2, <4>1 DEF HeapInv
    <3> QED BY <3>3, <3>4
  <2> QED BY <2>1, <2>7, <2>8 DEF HeapInv
<1> QED BY <1>1, <1>2

LEMMA HeapStep == BaseInv /\ HeapInv /\ [Next]_vars => HeapInv'
<1> SUFFICES ASSUME BaseInv, HeapInv, [Next]_vars PROVE HeapInv'
  OBVIOUS
<1>0. TypeOK /\ PortInv
  BY DEF BaseInv
<1>1. CASE DiskInit \/ AtaDetect \/ Search \/ Detected
  <2>1. UNCHANGED <<bases, g_mem_alloc_ptr>>
    BY <1>1 DEF DiskInit, AtaDetect, Search, Detected, kernel
  <2>2. pc' \in {"disk_init", "ata"} => pc \in {"disk_init", "ata"}
    BY <1>1 DEF DiskInit, AtaDetect, Search, Detected
  <2>3. Detecting' => pc \in {"disk_init", "ata"}
    BY <1>1 DEF DiskInit, AtaDetect, Search, Detected, Detecting, Starting, Calling
  <2> QED BY <1>0, <2>1, <2>2, <2>3, HeapKept
<1>2. CASE ClearSt \/ StopWait \/ SetBases \/ Run
  <2>1. UNCHANGED <<bases, g_mem_alloc_ptr, unit>>
    BY <1>2 DEF ClearSt, StopWait, SetBases, Run, kernel
  <2>2. Detecting /\ pc' \notin {"disk_init", "ata", "detect"}
    BY <1>2 DEF ClearSt, StopWait, SetBases, Run, PollBit, Detecting, Starting
  <2> QED BY <1>0, <2>1, <2>2, HeapKept
<1>3. CASE StartWait
  <2>1. UNCHANGED <<bases, g_mem_alloc_ptr>> /\ Detecting
    BY <1>3 DEF StartWait, Detecting, Starting
  <2>2. /\ pc' \in {"startwait", "prepare", "detect"}
        /\ unit' = IF pc' = "detect" THEN unit + 1 ELSE unit
    BY <1>3 DEF StartWait, PollBit
  <2> QED BY <1>0, <2>1, <2>2, HeapKept
<1>4. CASE Prepare \/ Issue \/ PollCi
  <2>1. UNCHANGED <<bases, g_mem_alloc_ptr, unit, req>>
    BY <1>4 DEF Prepare, Issue, PollCi, kernel, call
  <2>2. pc \in Calling /\ pc' \in Calling
    BY <1>4 DEF Prepare, Issue, PollCi, Calling
  <2>3. Detecting' => Detecting
    BY <2>1, <2>2 DEF Detecting, Starting, Calling
  <2> QED BY <1>0, <2>1, <2>2, <2>3, HeapKept DEF Calling
<1>5. CASE Identified
  <2>1. UNCHANGED <<bases, g_mem_alloc_ptr>> /\ unit' = unit + 1 /\ Detecting
        /\ pc' = "detect"
    BY <1>5 DEF Identified, Detecting, Calling
  <2> QED BY <1>0, <2>1, HeapKept
<1>6. CASE Status
  <2>1. UNCHANGED <<bases, g_mem_alloc_ptr>> /\ pc' = "shell"
    BY <1>6 DEF Status, kernel
  <2>2. ~Detecting'
    BY <2>1 DEF Detecting, Starting, Calling
  <2> QED BY <1>0, <2>1, <2>2, HeapKept
<1>7. CASE User
  <2>1. UNCHANGED <<bases, g_mem_alloc_ptr>> /\ pc' \in {"shell", "prepare"}
    BY <1>7 DEF User, Request, Dispatch, kernel
  <2>2. ~Detecting'
    BY <1>7, UserIsPastBoot DEF Booting
  <2> QED BY <1>0, <2>1, <2>2, HeapKept
<1>8. CASE HbaStep \/ UNCHANGED vars
  <2>1. UNCHANGED <<bases, g_mem_alloc_ptr, unit, req, pc>>
    BY <1>8 DEF HbaStep, vars, kernel, call
  <2> QED BY <1>0, <2>1, HeapKept DEF Detecting
<1> QED BY <1>1, <1>2, <1>3, <1>4, <1>5, <1>6, <1>7, <1>8, HeapTaken DEF Next, KernelStep

\* The image of a finite set under an injection
LEMMA SameCount ==
    ASSUME NEW S, IsFiniteSet(S), NEW f, DOMAIN f = S,
           \A x, y \in S : f[x] = f[y] => x = y
    PROVE  LET T == {f[x] : x \in S}
           IN  IsFiniteSet(T) /\ Cardinality(T) = Cardinality(S)
<1> DEFINE T == {f[x] : x \in S}
           g == [x \in S |-> f[x]]
<1>1. g \in Bijection(S, T)
  BY DEF Bijection, Injection, Surjection, IsInjective
<1>2. ExistsBijection(S, T)
  BY <1>1 DEF ExistsBijection
<1> HIDE DEF T
<1>3. IsFiniteSet(T) /\ Cardinality(T) = Cardinality(S)
  BY <1>2, FS_Bijection
<1> QED BY <1>3 DEF T

LEMMA ApartCount ==
    ASSUME NEW A, NEW B, IsFiniteSet(A), IsFiniteSet(B), A \cap B = {}
    PROVE  IsFiniteSet(A \union B)
           /\ Cardinality(A \union B) = Cardinality(A) + Cardinality(B)
<1>1. Cardinality(A) \in Nat /\ Cardinality(B) \in Nat
  BY FS_CardinalityType
<1>2. Cardinality(A \cap B) = 0
  BY FS_EmptySet
<1>3. IsFiniteSet(A \union B)
      /\ Cardinality(A \union B)
            = Cardinality(A) + Cardinality(B) - Cardinality(A \cap B)
  BY FS_Union
<1> QED BY <1>1, <1>2, <1>3

LEMMA HeapGivesApart == TypeOK /\ HeapInv => StructuresApart
<1> SUFFICES ASSUME TypeOK, HeapInv PROVE StructuresApart
  OBVIOUS
<1> DEFINE P == {q \in Ports : bases[q] # NULL}
           list == [p \in P |-> <<bases[p].list, 1024>>]
           fis == [p \in P |-> <<bases[p].fis, 256>>]
           table == [p \in P |-> <<bases[p].table, 4096>>]
           L == {list[p] : p \in P}
           F == {fis[p] : p \in P}
           T == {table[p] : p \in P}
           areas == UNION {Areas(p) : p \in P}
<1>1. ASSUME NEW p \in P
      PROVE  /\ bases[p].list \in Nat /\ bases[p].fis \in Nat /\ bases[p].table \in Nat
             /\ Placed(bases[p])
  BY <1>1 DEF TypeOK, HeapInv, Given
<1>2. ASSUME NEW p \in P, NEW q \in P, p # q
      PROVE  \/ bases[p].table + 4096 <= bases[q].list
             \/ bases[q].table + 4096 <= bases[p].list
  <2>1. p \in Nat /\ q \in Nat /\ p \in Ports /\ q \in Ports
        /\ bases[p] # NULL /\ bases[q] # NULL
    BY <1>2, AhciAssumption DEF Ports
  <2>2. p < q \/ q < p
    BY <1>2, <2>1
  <2> QED BY <2>1, <2>2 DEF HeapInv, Given
<1>3. \A p \in P : /\ list[p][1] = bases[p].list /\ list[p][2] = 1024
                   /\ fis[p][1] = bases[p].fis /\ fis[p][2] = 256
                   /\ table[p][1] = bases[p].table /\ table[p][2] = 4096
                   /\ Areas(p) = {list[p], fis[p], table[p]}
  BY DEF Areas
<1>4. DOMAIN list = P /\ DOMAIN fis = P /\ DOMAIN table = P
  OBVIOUS
<1> HIDE DEF P, list, fis, table
<1>5. \A a \in areas : \E p \in P : a \in {list[p], fis[p], table[p]}
  BY <1>3
<1>6. \A a \in areas : a[1] % a[2] = 0
  <2> SUFFICES ASSUME NEW a \in areas, NEW p \in P, a \in {list[p], fis[p], table[p]}
               PROVE  a[1] % a[2] = 0
    BY <1>5
  <2>1. CASE a = list[p]
    BY <1>1, <1>3, <2>1 DEF Placed
  <2>2. CASE a = fis[p]
    BY <1>1, <1>3, <2>2 DEF Placed
  <2>3. CASE a = table[p]
    BY <1>1, <1>3, <2>3 DEF Placed
  <2> QED BY <2>1, <2>2, <2>3
<1>7. ASSUME NEW p \in P, NEW q \in P, p # q,
             NEW a \in {list[p], fis[p], table[p]}, NEW b \in {list[q], fis[q], table[q]}
      PROVE  a[1] + a[2] <= b[1] \/ b[1] + b[2] <= a[1]
  <2>1. ASSUME NEW r \in P, NEW c \in {list[r], fis[r], table[r]}
        PROVE  /\ bases[r].list <= c[1] /\ c[1] + c[2] <= bases[r].table + 4096
               /\ c[1] \in Nat /\ c[2] \in Nat
    <3>1. /\ bases[r].list + 1024 <= bases[r].fis
          /\ bases[r].fis + 256 <= bases[r].table
          /\ bases[r].list \in Nat /\ bases[r].fis \in Nat /\ bases[r].table \in Nat
      BY <1>1 DEF Placed
    <3>2. \/ c[1] = bases[r].list /\ c[2] = 1024
          \/ c[1] = bases[r].fis /\ c[2] = 256
          \/ c[1] = bases[r].table /\ c[2] = 4096
      BY <1>3, <2>1
    <3> QED BY <3>1, <3>2
  <2>2. /\ bases[p].list \in Nat /\ bases[p].table \in Nat
        /\ bases[q].list \in Nat /\ bases[q].table \in Nat
    BY <1>1
  <2> QED BY <1>2, <1>7, <2>1, <2>2
<1>8. ASSUME NEW p \in P,
             NEW a \in {list[p], fis[p], table[p]}, NEW b \in {list[p], fis[p], table[p]},
             a # b
      PROVE  a[1] + a[2] <= b[1] \/ b[1] + b[2] <= a[1]
  <2>1. /\ bases[p].list + 1024 <= bases[p].fis
        /\ bases[p].fis + 256 <= bases[p].table
        /\ bases[p].list \in Nat /\ bases[p].fis \in Nat /\ bases[p].table \in Nat
    BY <1>1 DEF Placed
  <2> QED BY <1>3, <1>8, <2>1
<1>9. \A a, b \in areas : a # b => a[1] + a[2] <= b[1] \/ b[1] + b[2] <= a[1]
  <2> SUFFICES ASSUME NEW a \in areas, NEW b \in areas, a # b
               PROVE  a[1] + a[2] <= b[1] \/ b[1] + b[2] <= a[1]
    OBVIOUS
  <2>1. PICK p \in P : a \in {list[p], fis[p], table[p]}
    BY <1>5
  <2>2. PICK q \in P : b \in {list[q], fis[q], table[q]}
    BY <1>5
  <2>3. CASE p = q
    BY <1>8, <2>1, <2>2, <2>3
  <2>4. CASE p # q
    BY <1>7, <2>1, <2>2, <2>4
  <2> QED BY <2>3, <2>4
<1>10. Cardinality(areas) = 3 * Cardinality(P)
  <2>1. IsFiniteSet(P)
    <3>1. IsFiniteSet(0..(NPORTS - 1))
      BY AhciAssumption, FS_Interval
    <3> QED BY <3>1, FS_Subset DEF Ports, P
  <2>2. ASSUME NEW p \in P, NEW q \in P, p # q
        PROVE  list[p] # list[q] /\ fis[p] # fis[q] /\ table[p] # table[q]
    <3>1. \A r \in P : /\ bases[r].list + 1024 <= bases[r].fis
                       /\ bases[r].fis + 256 <= bases[r].table
                       /\ bases[r].list \in Nat /\ bases[r].fis \in Nat
                       /\ bases[r].table \in Nat
      BY <1>1 DEF Placed
    <3>2. /\ bases[p].list # bases[q].list /\ bases[p].fis # bases[q].fis
          /\ bases[p].table # bases[q].table
      BY <1>2, <2>2, <3>1
    <3> QED BY <1>3, <3>2
  <2>3. L \cap F = {} /\ (L \union F) \cap T = {}
    <3>1. \A p, q \in P : /\ list[p] # fis[q] /\ list[p] # table[q]
                          /\ fis[p] # table[q]
      BY <1>3
    <3> QED BY <3>1
  <2>4. areas = (L \union F) \union T
    BY <1>3
  <2>5. IsFiniteSet(L) /\ Cardinality(L) = Cardinality(P)
    BY <1>4, <2>1, <2>2, SameCount
  <2>6. IsFiniteSet(F) /\ Cardinality(F) = Cardinality(P)
    BY <1>4, <2>1, <2>2, SameCount
  <2>7. IsFiniteSet(T) /\ Cardinality(T) = Cardinality(P)
    BY <1>4, <2>1, <2>2, SameCount
  <2> HIDE DEF L, F, T
  <2>8. IsFiniteSet(L \union F)
        /\ Cardinality(L \union F) = Cardinality(P) + Cardinality(P)
    BY <2>3, <2>5, <2>6, ApartCount
  <2>9. Cardinality(areas) = (Cardinality(P) + Cardinality(P)) + Cardinality(P)
    BY <2>3, <2>4, <2>7, <2>8, ApartCount
  <2>10. Cardinality(P) \in Nat
    BY <2>1, FS_CardinalityType
  <2> QED BY <2>9, <2>10
<1> QED BY <1>6, <1>9, <1>10 DEF StructuresApart, P

\* The list, the FIS area and the table of every port are aligned as the HBA
\* asks and share no byte, for every number of ports (ahci_alloc_aligned,
\* ahci_detect_ports).
THEOREM StructuresCorrect == Spec => []StructuresApart
<1>1. TypeOK /\ HeapInv => StructuresApart
  BY HeapGivesApart
<1> QED BY <1>1, BaseCorrect, StorageTypeCorrect, HeapInit, HeapStep, PTL DEF Spec

=============================================================================
