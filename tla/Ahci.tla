-------------------------------- MODULE Ahci --------------------------------
(***************************************************************************)
(* The AHCI driver (kernel/ahci.c) from the start of the disks in          *)
(* kernel_main to the requests of the shell, on top of the registry.       *)
(*                                                                         *)
(* The driver is sequential and polls; the host bus adapter (HBA) starts   *)
(* and stops its engines and completes a command when it likes, or never.  *)
(* So each access to a register is a step, and the structures in memory,   *)
(* which only the driver writes, are filled in one.  The HBA finds the     *)
(* command table of a command, and so its FIS, through the address in the  *)
(* command header.                                                         *)
(*                                                                         *)
(* The ATA driver is seen here through what it registers and returns (its  *)
(* own module is Ata).  An LBA is a number of six digits in base RADIX, of *)
(* which a 28-bit command has three and a nibble.                          *)
(***************************************************************************)
EXTENDS Disks, FiniteSets

CONSTANTS
    NPORTS,         \* ports of the HBA (32 in the code)
    BIT_POLLS,      \* polls of ahci_wait_bit (1000000)
    CMD_POLLS,      \* polls for a command (5000000)
    WORD,           \* the modulus of a u32 (2^32)
    RADIX,          \* values of a byte of a FIS (256)
    NIBBLE,         \* values of the LBA bits of its device byte (16)
    LBA_MODE,       \* the bit of the device byte that asks for an LBA (0x40)
    PRD_LIMIT,      \* bytes one PRD entry can name (2^22)
    Machines,       \* bound: what is at each port, [Ports -> Signatures]
    AtaUnits,       \* bound: the ATA units that may be there (0..3)
    Requests,       \* bound: what is asked, [op, disk, lba, count]
    HEAP,           \* bound: the bytes a buffer of malloc can have
    MaxRequests     \* bound: the number of requests

Ports == 0..(NPORTS - 1)
Signatures == {"ata", "atapi", "other", "absent"}

ASSUME AhciAssumption ==
    /\ {NPORTS, BIT_POLLS, CMD_POLLS, RADIX, PRD_LIMIT} \subseteq Nat \ {0}
    /\ NIBBLE \in 1..RADIX /\ LBA_MODE \in Nat
    /\ WORD \in Nat /\ WORD > CMD_POLLS + 1 /\ WORD >= PRD_LIMIT
    /\ RADIX * RADIX * RADIX * RADIX * RADIX * RADIX + WORD <= WORD * WORD
    /\ Machines \subseteq [Ports -> Signatures]
    /\ AtaUnits \in Nat /\ HEAP \in Nat /\ MaxRequests \in Nat
    /\ Requests \subseteq [op : {"read", "write"}, disk : Int, lba : Int, count : Int]

VARIABLES
    pc,             \* where the kernel is
    unit,           \* the ATA unit or the port that detection is at
    g_mem_alloc_ptr,
    bases,          \* each port: its list, FIS area and table, or NULL
    req,            \* the command of ahci_exec_cmd: [op, port, lba, count], the
                    \* bytes of the buffer (room) and the request it serves
    polls, timeout, \* of the current wait
    reply,          \* what the last request ended with
    served,         \* requests started; 0 while the ports are identified
    \* The HBA
    machine, controller,    \* what is at the ports; whether there is an HBA
    st, fre, cr, fr,        \* each port: the bits of PxCMD
    clb,                    \* each port: the list its base registers name
    ci, tfes,               \* each port: the command slot and the error bit
    \* The command structures in memory, and what became of the commands
    command,        \* each port: the header [ctba, write] with what the driver's
                    \* table holds, [lba48, bytes, fis]
    took,           \* auxiliary, each port: the request the HBA works on
    completed,      \* auxiliary, each port: the requests it has completed
    executed,       \* auxiliary, each port: those whose FIS the disk has executed
    gaveup,         \* auxiliary: the ports that ran when their stop was given up
    exhausted       \* auxiliary: the ports where a command was not awaited

kernel == <<unit, g_mem_alloc_ptr, bases>>
call == <<req, polls, timeout, reply, served>>
plug == <<machine, controller>>
engine == <<st, fre, cr, fr, clb>>
slot == <<ci, tfes, took, completed, executed>>
aux == <<gaveup, exhausted>>
vars == <<pc, registry, kernel, call, plug, engine, slot, command, aux>>

-----------------------------------------------------------------------------
(* The command structures.                                                 *)

\* The weight of digit i: 256^i in the code, where lba >> (8 * i) is shifted
Place(i) ==
    LET R == RADIX
    IN  <<1, R, R * R, R * R * R, R * R * R * R, R * R * R * R * R>>[i + 1]

Digit(n, i) == (n \div Place(i)) % RADIX

\* Mutant of NeedsLba48: an F too many, 0xFFFFFFFF.
NeedsLba48Wide(lba, count) == (lba + count) % (WORD * WORD) > RADIX * Place(3) - 1

\* lba + count > 0xFFFFFFF, of seven nibbles; the sum is a u64.
NeedsLba48(lba, count) == (lba + count) % (WORD * WORD) > NIBBLE * Place(3) - 1

\* ahci_build_reg_fis: bytes 4 to 13 of the FIS
RegFis(lba, count, lba48) ==
    [i \in 4..13 |->
        CASE i = 7 -> IF lba48 THEN 0 ELSE LBA_MODE + (Digit(lba, 3) % NIBBLE)
          [] i \in 4..6 -> IF lba48 THEN Digit(lba, i - 1) ELSE 0
          [] i \in 8..10 -> Digit(lba, i - 8)
          [] i = 11 -> IF lba48 THEN Digit(count, 1) ELSE 0
          [] i = 12 -> Digit(count, 0)
          [] i = 13 -> 0]

\* ahci_identify: the FIS has no address and no count.
IdentifyFis == [i \in 4..13 |-> IF i = 7 THEN LBA_MODE ELSE 0]

\* Mutant of Prdt: the count is not made 0-based.
PrdtOneBased(bytes) == (bytes % PRD_LIMIT) + 1

\* dbc = count - 1 in 22 bits, which the HBA reads as one byte more
Prdt(bytes) == ((bytes - 1) % PRD_LIMIT) + 1

\* The header is cleared, and the address of the table never set in it.  The
\* size of a transfer is a u32.
Command(op, lba, count) ==
    IF op = "identify"
    THEN [ctba |-> 0, write |-> FALSE, lba48 |-> FALSE, bytes |-> Prdt(512),
          fis |-> IdentifyFis]
    ELSE LET lba48 == NeedsLba48(lba, count)
         IN  [ctba |-> 0, write |-> op = "write", lba48 |-> lba48,
              bytes |-> Prdt((count * 512) % WORD), fis |-> RegFis(lba, count, lba48)]

-----------------------------------------------------------------------------
(* The HBA.                                                                *)

\* An engine follows the bit that starts and stops it; stopping the list
\* engine empties the slot.
Engines(p) ==
    /\ \/ cr[p] # st[p] /\ cr' = [cr EXCEPT ![p] = st[p]]
          /\ ci' = [ci EXCEPT ![p] = @ /\ st[p]] /\ UNCHANGED fr
       \/ fr[p] # fre[p] /\ fr' = [fr EXCEPT ![p] = fre[p]] /\ UNCHANGED <<cr, ci>>
    /\ UNCHANGED <<st, fre, clb, tfes, took, completed, executed>>

\* A command leaves its slot without an error.  The request is executed when the
\* header leads to the table of the driver and the device is a disk; otherwise
\* what the HBA found at the address had no error.
Complete(p) ==
    /\ ci[p] /\ cr[p]
    /\ ci' = [ci EXCEPT ![p] = FALSE]
    /\ completed' = [completed EXCEPT ![p] = @ \union {took[p]}]
    /\ executed' = IF command[p].ctba = bases[p].table /\ machine[p] = "ata"
                   THEN [executed EXCEPT ![p] = @ \union {took[p]}] ELSE executed
    /\ UNCHANGED <<engine, tfes, took>>

\* A command that fails leaves its slot or not.
Fail(p) ==
    /\ ci[p] /\ cr[p]
    /\ tfes' = [tfes EXCEPT ![p] = TRUE]
    /\ ci' \in {ci, [ci EXCEPT ![p] = FALSE]}
    /\ UNCHANGED <<engine, took, completed, executed>>

HbaStep ==
    /\ controller
    /\ \E p \in Ports : Engines(p) \/ Complete(p) \/ Fail(p)
    /\ UNCHANGED <<pc, registry, kernel, call, plug, command, aux>>

-----------------------------------------------------------------------------
(* kernel_main up to the prompt.                                           *)

\* The firmware may have used the ports, and left them on or with an error.
Init ==
    /\ DisksInit
    /\ pc = "disk_init" /\ unit = 0
    /\ g_mem_alloc_ptr = 16777216
    /\ bases = [p \in Ports |-> NULL]
    /\ req = [op |-> "identify", port |-> 0, lba |-> 0, count |-> 1,
             room |-> 512, serial |-> 0]
    /\ polls = 0 /\ timeout = 0 /\ reply = "none" /\ served = 0
    /\ machine \in Machines /\ controller \in BOOLEAN
    /\ st \in [Ports -> BOOLEAN] /\ fre \in [Ports -> BOOLEAN]
    /\ tfes \in [Ports -> BOOLEAN]
    /\ cr = st /\ fr = fre
    /\ \A p \in Ports : machine[p] \in {"other", "absent"} \/ ~controller
                            => ~st[p] /\ ~fre[p] /\ ~tfes[p]
    /\ \A p \in Ports : st[p] => fre[p]
    /\ clb = [p \in Ports |-> 0]
    /\ ci = [p \in Ports |-> FALSE]
    /\ command = [p \in Ports |-> NULL]
    /\ took = [p \in Ports |-> 0]
    /\ completed = [p \in Ports |-> {}] /\ executed = [p \in Ports |-> {}]
    /\ gaveup = {} /\ exhausted = {}

DiskInit ==
    /\ pc = "disk_init" /\ pc' = "ata"
    /\ disk_init
    /\ UNCHANGED <<kernel, call, plug, engine, slot, command, aux>>

\* Mutant of AtaDetect: a unit that was found is probed again.
AtaDetectAgain ==
    /\ pc = "ata" /\ unit < AtaUnits
    /\ \/ disk_register([driver |-> "ata", unit |-> unit]) /\ unit' = unit
       \/ UNCHANGED registry /\ unit' = unit + 1
    /\ UNCHANGED <<pc, g_mem_alloc_ptr, bases, call, plug, engine, slot, command, aux>>

\* One unit of ata_detect_disks
AtaDetect ==
    /\ pc = "ata" /\ unit < AtaUnits
    /\ disk_register([driver |-> "ata", unit |-> unit]) \/ UNCHANGED registry
    /\ unit' = unit + 1
    /\ UNCHANGED <<pc, g_mem_alloc_ptr, bases, call, plug, engine, slot, command, aux>>

\* ahci_init: the search of the buses for a controller
Search ==
    /\ pc = "ata" /\ unit = AtaUnits
    /\ pc' = IF controller THEN "detect" ELSE "shell"
    /\ unit' = 0
    /\ UNCHANGED <<registry, g_mem_alloc_ptr, bases, call, plug, engine, slot,
                   command, aux>>

Aligned(ptr, align) == ((ptr + align - 1) \div align) * align

\* Mutant of Structures: the table is placed without its size.
StructuresOverlap(ptr) ==
    LET list == Aligned(ptr, 1024)
        fis == Aligned(list + 1024, 256)
        table == Aligned(fis + 256, 4096)
    IN  [list |-> list, fis |-> fis, table |-> table, next |-> table]

\* Three calls of ahci_alloc_aligned
Structures(ptr) ==
    LET list == Aligned(ptr, 1024)
        fis == Aligned(list + 1024, 256)
        table == Aligned(fis + 256, 4096)
    IN  [list |-> list, fis |-> fis, table |-> table, next |-> table + 4096]

\* An iteration of ahci_detect_ports up to the call of ahci_port_start, or all
\* of it for a port that is not there or has another signature
DetectPort ==
    /\ pc = "detect" /\ unit < NPORTS
    /\ IF machine[unit] \in {"ata", "atapi"}
       THEN LET s == Structures(g_mem_alloc_ptr)
            IN  /\ bases' = [bases EXCEPT ![unit] =
                                [list |-> s.list, fis |-> s.fis, table |-> s.table]]
                /\ g_mem_alloc_ptr' = s.next
                /\ pc' = "stop"
                /\ UNCHANGED unit
       ELSE unit' = unit + 1 /\ UNCHANGED <<pc, bases, g_mem_alloc_ptr>>
    /\ UNCHANGED <<registry, call, plug, engine, slot, command, aux>>

Detected ==
    /\ pc = "detect" /\ unit = NPORTS
    /\ pc' = "shell"
    /\ UNCHANGED <<registry, kernel, call, plug, engine, slot, command, aux>>

-----------------------------------------------------------------------------
(* ahci_port_start                                                         *)

\* Mutant of ClearSt: the driver does not wait.
ClearStOnly ==
    /\ pc = "stop" /\ pc' = "bases"
    /\ st' = [st EXCEPT ![unit] = FALSE]
    /\ UNCHANGED <<registry, kernel, call, plug, fre, cr, fr, clb, slot, command, aux>>

\* Only ST is cleared: FRE stays as the firmware left it.
ClearSt ==
    /\ pc = "stop" /\ pc' = "stopwait"
    /\ st' = [st EXCEPT ![unit] = FALSE]
    /\ polls' = 0
    /\ UNCHANGED <<registry, kernel, req, timeout, reply, served, plug,
                   fre, cr, fr, clb, slot, command, aux>>

\* One poll of ahci_wait_bit: it sees the bits, or goes on, or is the last
PollBit(sees, then, giveup) ==
    /\ \/ sees /\ pc' = then /\ UNCHANGED polls
       \/ ~sees /\ polls + 1 < BIT_POLLS /\ polls' = polls + 1 /\ UNCHANGED pc
       \/ ~sees /\ polls + 1 = BIT_POLLS /\ pc' = giveup /\ UNCHANGED polls

\* What the wait returns is ignored.  With FRE on it always runs out.
StopWait ==
    /\ pc = "stopwait"
    /\ PollBit(~cr[unit] /\ ~fr[unit], "bases", "bases")
    /\ gaveup' = IF cr[unit] /\ pc' = "bases" THEN gaveup \union {unit} ELSE gaveup
    /\ UNCHANGED <<registry, kernel, req, timeout, reply, served, plug, engine,
                   slot, command, exhausted>>

SetBases ==
    /\ pc = "bases" /\ pc' = "run"
    /\ clb' = [clb EXCEPT ![unit] = bases[unit].list]
    /\ UNCHANGED <<registry, kernel, call, plug, st, fre, cr, fr, slot, command, aux>>

Run ==
    /\ pc = "run" /\ pc' = "startwait"
    /\ st' = [st EXCEPT ![unit] = TRUE]
    /\ fre' = [fre EXCEPT ![unit] = TRUE]
    /\ polls' = 0
    /\ UNCHANGED <<registry, kernel, req, timeout, reply, served, plug,
                   cr, fr, clb, slot, command, aux>>

\* A port that does not start is passed over.
StartWait ==
    /\ pc = "startwait"
    /\ PollBit(cr[unit] /\ fr[unit], "prepare", "detect")
    /\ unit' = IF pc' = "detect" THEN unit + 1 ELSE unit
    /\ req' = [op |-> "identify", port |-> unit, lba |-> 0, count |-> 1,
             room |-> 512, serial |-> 0]
    /\ UNCHANGED <<registry, g_mem_alloc_ptr, bases, timeout, reply, served, plug,
                   engine, slot, command, aux>>

-----------------------------------------------------------------------------
(* ahci_exec_cmd                                                           *)

Prepare ==
    /\ pc = "prepare" /\ pc' = "issue"
    /\ command' = [command EXCEPT ![req.port] = Command(req.op, req.lba, req.count)]
    /\ UNCHANGED <<registry, kernel, call, plug, engine, slot, aux>>

\* Writing a bit of CI that is set changes nothing.
Issue ==
    /\ pc = "issue" /\ pc' = "ciwait"
    /\ ci' = [ci EXCEPT ![req.port] = TRUE]
    /\ took' = IF ci[req.port] THEN took ELSE [took EXCEPT ![req.port] = req.serial]
    /\ timeout' = CMD_POLLS
    /\ UNCHANGED <<registry, kernel, req, polls, reply, served, plug, engine,
                   tfes, completed, executed, command, aux>>

\* Mutants of PollCi: the loop does not count; it ends whatever the first poll
\* sees.
PollCiUncounted ==
    /\ pc = "ciwait"
    /\ pc' = IF ci[req.port] THEN "ciwait" ELSE "status"
    /\ UNCHANGED <<registry, kernel, call, plug, engine, slot, command, aux>>

PollCiOnce ==
    /\ pc = "ciwait" /\ pc' = "status"
    /\ timeout' = (timeout - 1) % WORD
    /\ UNCHANGED <<registry, kernel, req, polls, reply, served, plug, engine, slot,
                   command, aux>>

\* One turn of while (timeout--): the test is of the value before, and the
\* turn that finds 0 leaves WORD - 1.
PollCi ==
    /\ pc = "ciwait"
    /\ timeout' = (timeout - 1) % WORD
    /\ IF timeout # 0
       THEN pc' = (IF ci[req.port] THEN "ciwait" ELSE "status") /\ UNCHANGED exhausted
       ELSE pc' = "status" /\ exhausted' = exhausted \union {req.port}
    /\ UNCHANGED <<registry, kernel, req, polls, reply, served, plug, engine, slot,
                   command, gaveup>>

\* timeout is 0 when the last poll saw the command complete.
Failed == timeout = 0 \/ tfes[req.port]

\* The rest of an iteration of ahci_detect_ports.  The size is what IDENTIFY
\* gave, or what the stack held when nothing was transferred.
Identified ==
    /\ pc = "status" /\ req.op = "identify"
    /\ \/ ~Failed /\ disk_register([driver |-> "ahci", unit |-> unit])
       \/ UNCHANGED registry
    /\ pc' = "detect" /\ unit' = unit + 1
    /\ UNCHANGED <<g_mem_alloc_ptr, bases, call, plug, engine, slot, command, aux>>

\* Mutant of Status: the error bit is not looked at.
StatusBlind ==
    /\ pc = "status" /\ req.op # "identify"
    /\ pc' = "shell"
    /\ reply' = IF timeout = 0 THEN "erreur" ELSE "lu"
    /\ UNCHANGED <<registry, kernel, req, polls, timeout, served, plug, engine, slot,
                   command, aux>>

Status ==
    /\ pc = "status" /\ req.op # "identify"
    /\ pc' = "shell"
    /\ reply' = IF Failed THEN "erreur" ELSE "lu"
    /\ UNCHANGED <<registry, kernel, req, polls, timeout, served, plug, engine, slot,
                   command, aux>>

-----------------------------------------------------------------------------
(* The requests: the command read of the shell, and disk_write.            *)

\* n as an int
Signed(n) == IF n % WORD < WORD \div 2 THEN n % WORD ELSE (n % WORD) - WORD

\* The buffers that malloc(count * 512) may give.  The product is of ints: when it
\* overflows, a build wraps it or computes it in 64 bits.  A negative size is
\* more than any heap has.
Buffers(count) == {Signed(count * 512), count * 512} \intersect (0..HEAP)

\* disk_read(d, lba, count, buf) and disk_write: the function that the driver of
\* the disk has set, with an LBA of 64 bits and a count of 32
Dispatch(r, disk, room) ==
    \/ /\ disk.driver = "ata"
       /\ reply' \in {"lu", "erreur"} /\ UNCHANGED <<pc, req>>
    \/ /\ disk.driver = "ahci"
       /\ reply' = "none" /\ pc' = "prepare"
       /\ req' = [op |-> r.op, port |-> disk.unit, lba |-> r.lba % (WORD * WORD),
                   count |-> r.count % WORD, room |-> room, serial |-> served + 1]

Request(r) ==
    /\ pc = "shell" /\ served < MaxRequests
    /\ served' = served + 1
    /\ LET d == disk_get(r.disk)
       IN  \/ d = NULL /\ reply' = "invalide" /\ UNCHANGED <<pc, req>>
           \/ d # NULL /\ reply' = "erreur" /\ UNCHANGED <<pc, req>>
           \/ d # NULL /\ \E room \in Buffers(r.count) : Dispatch(r, d, room)
    /\ UNCHANGED <<registry, kernel, polls, timeout, plug, engine, slot, command, aux>>

KernelStep ==
    \/ DiskInit \/ AtaDetect \/ Search \/ DetectPort \/ Detected
    \/ ClearSt \/ StopWait \/ SetBases \/ Run \/ StartWait
    \/ Prepare \/ Issue \/ PollCi \/ Identified \/ Status

User == \E r \in Requests : Request(r)

Next == KernelStep \/ User \/ HbaStep

\* The processor runs the kernel; the HBA may never answer.
Spec == Init /\ [][Next]_vars
FairSpec == Spec /\ WF_vars(KernelStep)

-----------------------------------------------------------------------------
(* Properties                                                              *)

Phases == {"disk_init", "ata", "detect", "stop", "stopwait", "bases", "run",
           "startwait", "prepare", "issue", "ciwait", "status", "shell"}

TypeOK ==
    /\ RegistryTypeOK
    /\ pc \in Phases /\ unit \in Nat /\ g_mem_alloc_ptr \in Nat
    /\ bases \in [Ports -> [list : Nat, fis : Nat, table : Nat] \union {NULL}]
    /\ req \in [op : {"identify", "read", "write"}, port : Ports, lba : Nat, count : Nat,
               room : Nat, serial : 0..MaxRequests]
    /\ polls \in 0..(BIT_POLLS - 1) /\ timeout \in 0..(WORD - 1)
    /\ reply \in {"none", "invalide", "erreur", "lu"} /\ served \in 0..MaxRequests
    /\ machine \in [Ports -> Signatures] /\ controller \in BOOLEAN
    /\ st \in [Ports -> BOOLEAN] /\ fre \in [Ports -> BOOLEAN]
    /\ cr \in [Ports -> BOOLEAN] /\ fr \in [Ports -> BOOLEAN]
    /\ ci \in [Ports -> BOOLEAN] /\ tfes \in [Ports -> BOOLEAN]
    /\ clb \in [Ports -> Nat]
    /\ took \in [Ports -> 0..MaxRequests]
    /\ completed \in [Ports -> SUBSET (0..MaxRequests)]
    /\ executed \in [Ports -> SUBSET (0..MaxRequests)]
    /\ gaveup \subseteq Ports /\ exhausted \subseteq Ports

\* The list, the FIS area and the table of every port lie where the HBA can use
\* them, and no two structures share a byte.
Areas(p) == {<<bases[p].list, 1024>>, <<bases[p].fis, 256>>, <<bases[p].table, 4096>>}

StructuresApart ==
    LET areas == UNION {Areas(p) : p \in {q \in Ports : bases[q] # NULL}}
    IN  /\ \A a \in areas : a[1] % a[2] = 0
        /\ Cardinality(areas) = 3 * Cardinality({q \in Ports : bases[q] # NULL})
        /\ \A a, b \in areas : a # b => a[1] + a[2] <= b[1] \/ b[1] + b[2] <= a[1]

\* The list that a port works from is replaced only once the port, as the firmware
\* left it, has been seen to have stopped ("Arreter d'abord"), unless it still ran
\* when the wait for that was over.  The FIS engine, which the driver does not
\* stop, may go on.
BasesChangeStopped ==
    [][\A p \in Ports : clb'[p] # clb[p] => ~cr[p] \/ p \in gaveup]_vars

\* Outside ahci_exec_cmd the HBA holds no command of the driver, so nothing
\* rewrites a command it works on and no buffer is freed under it; the
\* exception is a port where the wait for a command ran out.
NothingLeftBehind ==
    \A p \in Ports : ci[p] => p \in exhausted \/ pc \in {"ciwait", "status"}

\* The request that has just returned 0 through the AHCI driver
Answered(p) == pc = "shell" /\ reply = "lu" /\ req.serial = served /\ req.port = p

\* A command that ahci_exec_cmd reports as done left its slot without an error:
\* the command of this call and no other one, and for a disk in the registry its
\* IDENTIFY, while no wait for a command has run out on that port.  (It need not
\* have been executed: LuMeansExecuted.)
ZeroMeansCompleted ==
    \A p \in Ports \ exhausted :
        /\ \A i \in Slots : g_disks[i] = [driver |-> "ahci", unit |-> p]
                                => 0 \in completed[p]
        /\ Answered(p) => served \in completed[p]

\* The LBA and the count of a FIS, read where its comments (ahci.c:190-202) put
\* them
FisLba(c) ==
    LET low == c.fis[8] + c.fis[9] * Place(1) + c.fis[10] * Place(2)
    IN  IF c.lba48
        THEN low + c.fis[4] * Place(3) + c.fis[5] * Place(4) + c.fis[6] * Place(5)
        ELSE low + (c.fis[7] - LBA_MODE) * Place(3)

FisCount(c) == c.fis[12] + (IF c.lba48 THEN c.fis[11] * RADIX ELSE 0)

\* The form that ahci_read_sectors chooses has room for the LBA, on both sides of
\* 2^28 and however large the count: no LBA of 48 bits loses a digit, and no
\* count that has the digits of the form.
FisKeepsRequest ==
    (pc = "ciwait" /\ req.op # "identify")
        => LET c == command[req.port]
           IN  /\ req.lba < Place(5) * RADIX
                      => FisLba(c) = req.lba
               /\ req.count < (IF c.lba48 THEN RADIX * RADIX ELSE RADIX)
                      => FisCount(c) = req.count

\* The PRD entry that the driver fills never names more bytes than the buffer of
\* the command has, whichever way the products of the count wrap on the way to
\* malloc and to ahci_exec_cmd; the exception is a buffer of 0 bytes, for which
\* the entry names PRD_LIMIT.
PrdtFitsBuffer ==
    (pc = "ciwait" /\ req.room # 0) => command[req.port].bytes <= req.room

\* The boot reaches the prompt and every request returns, whatever the HBA does.
EveryCallReturns == pc # "shell" ~> pc = "shell"

\* The shell prints "Lu %d secteurs du disque %d (LBA %d)" (kernel.c:95) when
\* ahci_exec_cmd returned 0, which has waited for the completion of the command
\* ("Attendre completion", ahci.c:162): the command is complete.
LuMeansCompleted == \A p \in Ports : Answered(p) => served \in completed[p]

\* The same line says that the sectors were read: where no wait ran out, the HBA
\* has executed the FIS that the driver put in the command table.
LuMeansExecuted ==
    \A p \in Ports \ exhausted : Answered(p) => served \in executed[p]

=============================================================================
