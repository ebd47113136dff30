-------------------------------- MODULE Ata ---------------------------------
(***************************************************************************)
(* The ATA PIO driver (kernel/ata.c) on one channel with two units.        *)
(*                                                                         *)
(* The driver is sequential; what interleaves with it is the drive, which  *)
(* finishes a command when it likes, or never.  So the driver takes a step *)
(* for each register it writes and each status it polls.  The 256 words of *)
(* a sector are one step.  A register written while the selected unit is   *)
(* busy or waits for a transfer may be taken or lost; a command is lost.   *)
(*                                                                         *)
(* An LBA is a number of six digits in base RADIX (bytes in the code), and *)
(* the contents of sector l of unit u are <<u, l>>.                        *)
(***************************************************************************)
EXTENDS Integers, Sequences

CONSTANTS
    RADIX,      \* values of a register (256 in the code)
    NIBBLE,     \* values of the head nibble of DEVICE (16)
    POLLS,      \* times a wait reads the status (timeout_ms * 1000)
    Channels,   \* bound: what may be plugged, [0..1 -> [kind, sectors, lba48]]
    Lbas,       \* bound: the LBAs requests start at
    Counts,     \* bound: the sector counts of requests
    MaxRequests \* bound: the number of requests

Master == 0
Slave == 1

ASSUME AtaAssumption ==
    /\ RADIX \in Nat /\ RADIX > 1 /\ NIBBLE \in 1..RADIX
    /\ POLLS \in Nat \ {0}
    /\ Channels \subseteq [0..1 -> [kind : {"ata", "atapi", "none"}, sectors : Nat,
                                    lba48 : BOOLEAN]]
    /\ Lbas \subseteq Nat /\ Counts \subseteq Nat /\ MaxRequests \in Nat

VARIABLES
    pc,         \* where the driver is
    drive,      \* ata_detect_disks: the unit probed; 2 when it is done
    disks,      \* the disks it registered, in order
    req,        \* the request: [op, disk, lba, count]
    sector,     \* its current sector
    todo,       \* the register writes left before the next wait
    polls,      \* iterations of the current wait
    buffer,     \* what was read
    result,     \* of the last request that returned: 0 or -1
    served,     \* requests started
    regs,       \* the channel's registers: [now, before] for the LBA bytes
    phase, cmd, err,    \* each unit: what it does, its command, its ERR bit
    written,            \* each unit: the sectors it was given
    plugged,            \* what is on the channel
    overrun     \* auxiliary: a wait gave up while a unit was at work

driver == <<drive, disks, req, served>>
transfer == <<sector, todo, polls, buffer, result>>
units == <<phase, cmd, err, written>>
ataVars == <<pc, driver, transfer, regs, units, plugged, overrun>>

\* The weight of digit i: 256^i in the code, where lba >> (8 * i) is shifted
Place(i) ==
    LET R == RADIX
    IN  <<1, R, R * R, R * R * R, R * R * R * R, R * R * R * R * R,
          R * R * R * R * R * R>>[i + 1]

Digit(lba, i) == (lba \div Place(i)) % RADIX
Present(u) == plugged[u].kind # "none"
At(reg) == regs[reg].now

-----------------------------------------------------------------------------
(* The register writes of an operation, in order.                          *)

Out(reg, val) == [reg |-> reg, val |-> val]

\* The head nibble of the DEVICE register carries what it can of the fourth digit.
Device(u, lba) == <<u, Digit(lba, 3) % NIBBLE>>

\* ata_select_drive
SelectDrive(is_master, lba, lba48) ==
    (IF lba48
     THEN <<Out("features", 0), Out("seccount", 0),
            Out("high", Digit(lba, 3)), Out("mid", Digit(lba, 4)),
            Out("low", Digit(lba, 5))>>
     ELSE <<>>)
    \o <<Out("device", Device(IF is_master = 1 THEN Master ELSE Slave, lba))>>

\* Mutant of SectorWrites: the second and the third digit change places.
SectorWritesCrossed(op, lba, lba48) ==
    SelectDrive(0, lba, lba48)
    \o (IF lba48 THEN <<Out("features", 0)>> ELSE <<>>)
    \o <<Out("seccount", 1), Out("low", Digit(lba, 0)),
         Out("high", Digit(lba, 1)), Out("mid", Digit(lba, 2))>>
    \o <<Out("command", [op |-> op, lba48 |-> lba48])>>

\* Both ata_pio_read and ata_pio_write select with is_master = 0.
SectorWrites(op, lba, lba48) ==
    SelectDrive(0, lba, lba48)
    \o (IF lba48 THEN <<Out("features", 0)>> ELSE <<>>)
    \o <<Out("seccount", 1), Out("low", Digit(lba, 0)),
         Out("mid", Digit(lba, 1)), Out("high", Digit(lba, 2))>>
    \o <<Out("command", [op |-> op, lba48 |-> lba48])>>

\* Mutant of IdentifyWrites: the slave is selected for either unit.
IdentifyWritesSlave(u) ==
    SelectDrive(0, 0, FALSE)
    \o <<Out("command", [op |-> "identify", lba48 |-> FALSE])>>

IdentifyWrites(u) ==
    SelectDrive(IF u = 0 THEN 1 ELSE 0, 0, FALSE)
    \o <<Out("command", [op |-> "identify", lba48 |-> FALSE])>>

-----------------------------------------------------------------------------
(* The units.                                                              *)

selected == At("device")[1]

\* The sector a command addresses: the two last values of each LBA register,
\* or one of each and the nibble of DEVICE.
Addressed(lba48) ==
    At("low") + At("mid") * Place(1) + At("high") * Place(2)
    + (IF lba48 THEN regs["low"].before * Place(3)
                     + regs["mid"].before * Place(4)
                     + regs["high"].before * Place(5)
       ELSE At("device")[2] * Place(3))

Accept(reg, val) ==
    regs' = [regs EXCEPT ![reg] = [now |-> val, before |-> regs[reg].now]]

\* outb to a register of the command block
RegisterWrite(reg, val) ==
    /\ \/ Accept(reg, val)
       \/ phase[selected] # "idle" /\ UNCHANGED regs
    /\ UNCHANGED units

\* outb to the COMMAND register
CommandWrite(c) ==
    /\ IF Present(selected) /\ phase[selected] = "idle"
       THEN /\ phase' = [phase EXCEPT ![selected] = "busy"]
            /\ cmd' = [cmd EXCEPT ![selected] =
                          [op |-> c.op, lba |-> Addressed(c.lba48)]]
            /\ err' = [err EXCEPT ![selected] = FALSE]
       ELSE UNCHANGED <<phase, cmd, err>>
    /\ UNCHANGED <<regs, written>>

BSY == phase[selected] \in {"busy", "storing"}
DRQ == phase[selected] \in {"in", "out"}
DRDY == Present(selected) /\ ~BSY
ERR == err[selected]

Proceed(u) ==
    /\ phase[u] = "busy"
    /\ ~ (cmd[u].op = "identify" /\ plugged[u].kind = "atapi")
    /\ phase' = [phase EXCEPT ![u] = CASE cmd[u].op \in {"read", "identify"} -> "in"
                                       [] cmd[u].op = "write" -> "out"
                                       [] cmd[u].op = "flush" -> "idle"]
    /\ UNCHANGED <<cmd, err, written>>

Store(u) ==
    /\ phase[u] = "storing"
    /\ phase' = [phase EXCEPT ![u] = "idle"]
    /\ written' = [written EXCEPT ![u] = @ \union {cmd[u].lba}]
    /\ UNCHANGED <<cmd, err>>

Abort(u) ==
    /\ phase[u] \in {"busy", "storing"}
    /\ phase' = [phase EXCEPT ![u] = "idle"]
    /\ err' = [err EXCEPT ![u] = TRUE]
    /\ UNCHANGED <<cmd, written>>

DriveStep ==
    /\ \E u \in 0..1 : Proceed(u) \/ Store(u) \/ Abort(u)
    /\ UNCHANGED <<pc, driver, transfer, regs, plugged, overrun>>

-----------------------------------------------------------------------------
(* The driver.                                                             *)

Goto(from, to) == pc = from /\ pc' = to

Init ==
    /\ pc = "next" /\ drive = 0 /\ disks = <<>>
    /\ req = [op |-> "identify", disk |-> 0, lba |-> 0, count |-> 1]
    /\ sector = 0 /\ todo = <<>> /\ polls = 0
    /\ buffer = <<>> /\ result = -1 /\ served = 0
    /\ regs = [r \in {"features", "seccount", "low", "mid", "high", "device"} |->
                  LET zero == IF r = "device" THEN <<0, 0>> ELSE 0
                  IN  [now |-> zero, before |-> zero]]
    /\ phase = [u \in 0..1 |-> "idle"]
    /\ cmd = [u \in 0..1 |-> [op |-> "none", lba |-> 0]]
    /\ err = [u \in 0..1 |-> FALSE]
    /\ written = [u \in 0..1 |-> {}]
    /\ plugged \in Channels
    /\ overrun = FALSE

\* ata_detect_disks goes on with the next unit, or a call of the driver returns.
Return(r) ==
    /\ pc' = "next"
    /\ IF req.op = "identify"
       THEN drive' = drive + 1 /\ UNCHANGED result
       ELSE result' = r /\ UNCHANGED drive
    /\ UNCHANGED <<req, served, sector, todo, polls>>

\* The outputs of ata_identify for the unit that is next
Probe ==
    /\ drive < 2
    /\ Goto("next", "out")
    /\ todo' = IdentifyWrites(drive)
    /\ UNCHANGED <<driver, sector, polls, buffer, result, regs, units, overrun>>

\* disk_read or disk_write of a registered disk: ata_disk_read, ata_disk_write
Request(op, disk, lba, count) ==
    /\ drive = 2 /\ served < MaxRequests
    /\ Goto("next", "sector")
    /\ req' = [op |-> op, disk |-> disk, lba |-> lba, count |-> count]
    /\ sector' = 0 /\ buffer' = <<>> /\ served' = served + 1
    /\ UNCHANGED <<drive, disks, todo, polls, result, regs, units, overrun>>

\* Mutant of BeginSector: every sector is asked for at the first LBA.
BeginSectorFixed ==
    /\ pc = "sector"
    /\ IF sector < req.count
       THEN /\ pc' = "out"
            /\ todo' = SectorWrites(req.op, req.lba, disks[req.disk].lba48)
            /\ UNCHANGED <<driver, sector, polls, result>>
       ELSE Return(0) /\ UNCHANGED disks
    /\ UNCHANGED <<buffer, regs, units, overrun>>

\* The head of the loop over the sectors
BeginSector ==
    /\ pc = "sector"
    /\ IF sector < req.count
       THEN /\ pc' = "out"
            /\ todo' = SectorWrites(req.op, req.lba + sector, disks[req.disk].lba48)
            /\ UNCHANGED <<driver, sector, polls, result>>
       ELSE Return(0) /\ UNCHANGED disks
    /\ UNCHANGED <<buffer, regs, units, overrun>>

OutB ==
    /\ pc = "out"
    /\ IF Head(todo).reg = "command" THEN CommandWrite(Head(todo).val)
                                     ELSE RegisterWrite(Head(todo).reg, Head(todo).val)
    /\ todo' = Tail(todo)
    /\ polls' = 0
    /\ pc' = IF Tail(todo) # <<>> THEN "out"
             ELSE IF req.op = "identify" THEN "presence" ELSE "waitdrq"
    /\ UNCHANGED <<driver, sector, buffer, result, overrun>>

\* A status of 0 says that no unit answers.
Presence ==
    /\ pc = "presence"
    /\ IF Present(selected)
       THEN pc' = "waitready" /\ UNCHANGED <<driver, sector, todo, polls, result>>
       ELSE Return(-1) /\ UNCHANGED disks
    /\ UNCHANGED <<buffer, regs, units, overrun>>

\* The end of a wait whose polls are used up: a unit may still be at work.
GiveUp ==
    /\ polls + 1 = POLLS
    /\ overrun' = (overrun \/ \E u \in 0..1 : phase[u] # "idle")

\* Mutants of PollAgain: no bound on the polls; the polls are not counted.
PollUnbounded ==
    /\ polls' = polls + 1
    /\ UNCHANGED <<pc, driver, sector, todo, buffer, result, overrun>>

PollUncounted ==
    /\ polls + 1 < POLLS
    /\ UNCHANGED <<pc, driver, transfer, overrun>>

PollAgain ==
    /\ polls + 1 < POLLS
    /\ polls' = polls + 1
    /\ UNCHANGED <<pc, driver, sector, todo, buffer, result, overrun>>

\* ata_wait_ready, for ata_identify and at the end of a written sector, which
\* ignores what it returns
WaitReady ==
    /\ pc = "waitready"
    /\ \/ /\ DRDY
          /\ pc' = "errcheck"
          /\ UNCHANGED <<driver, transfer, overrun>>
       \/ ~DRDY /\ PollAgain
       \/ ~DRDY /\ GiveUp /\ Return(-1) /\ UNCHANGED <<disks, buffer>>
    /\ UNCHANGED <<regs, units>>

\* Mutant of Settle: it does not wait for the unit to store the sector.
SettleAtOnce ==
    /\ pc = "settle"
    /\ pc' = "sector" /\ sector' = sector + 1
    /\ UNCHANGED <<driver, todo, polls, buffer, result, regs, units, overrun>>

Settle ==
    /\ pc = "settle"
    /\ \/ DRDY /\ UNCHANGED overrun /\ pc' = "sector" /\ sector' = sector + 1
          /\ UNCHANGED polls
       \/ ~DRDY /\ PollAgain
       \/ ~DRDY /\ GiveUp /\ pc' = "sector" /\ sector' = sector + 1
          /\ UNCHANGED polls
    /\ UNCHANGED <<driver, todo, buffer, result, regs, units>>

\* Mutant of WaitDrq: one look at ERR and no wait for DRQ.
WaitDrqOnce ==
    /\ pc = "waitdrq"
    /\ \/ ERR /\ Return(-1) /\ UNCHANGED <<disks, buffer, overrun>>
       \/ ~ERR /\ pc' = "data" /\ UNCHANGED <<driver, transfer, overrun>>
    /\ UNCHANGED <<regs, units>>

\* ata_wait_drq: the ERR bit ends it first
WaitDrq ==
    /\ pc = "waitdrq"
    /\ \/ ERR /\ Return(-1) /\ UNCHANGED <<disks, buffer, overrun>>
       \/ ~ERR /\ DRQ /\ pc' = "data" /\ UNCHANGED <<driver, transfer, overrun>>
       \/ ~ERR /\ ~DRQ /\ PollAgain
       \/ ~ERR /\ ~DRQ /\ GiveUp /\ Return(-1) /\ UNCHANGED <<disks, buffer>>
    /\ UNCHANGED <<regs, units>>

ErrCheck ==
    /\ pc = "errcheck"
    /\ IF ERR THEN Return(-1) /\ UNCHANGED disks
       ELSE pc' = "data" /\ UNCHANGED <<driver, sector, todo, polls, result>>
    /\ UNCHANGED <<buffer, regs, units, overrun>>

\* What 256 reads of the data port give: the sector the unit has, its identity
\* (lba -1), or nothing that means anything (unit 2).
DataIn ==
    IF phase[selected] # "in" THEN [unit |-> 2, lba |-> 0, new |-> FALSE]
    ELSE IF cmd[selected].op = "identify"
         THEN [unit |-> selected, lba |-> -1, new |-> FALSE]
         ELSE [unit |-> selected, lba |-> cmd[selected].lba,
               new |-> cmd[selected].lba \in written[selected]]

Drained ==
    /\ phase' = [phase EXCEPT ![selected] = IF @ = "in" THEN "idle" ELSE @]
    /\ UNCHANGED <<cmd, err, written>>

\* The end of ata_identify and the rest of an iteration of ata_detect_disks
Register ==
    /\ pc = "data" /\ req.op = "identify"
    /\ Drained
    /\ disks' = IF /\ DataIn.lba = -1
                   /\ plugged[DataIn.unit].kind = "ata"
                   /\ plugged[DataIn.unit].sectors > 0
                THEN Append(disks, [unit |-> drive, from |-> DataIn.unit,
                                    lba48 |-> plugged[DataIn.unit].lba48])
                ELSE disks
    /\ Return(0)
    /\ UNCHANGED <<buffer, regs, overrun>>

ReadSector ==
    /\ Goto("data", "sector") /\ req.op = "read"
    /\ Drained
    /\ buffer' = Append(buffer, DataIn)
    /\ sector' = sector + 1
    /\ UNCHANGED <<driver, todo, polls, result, regs, overrun>>

WriteSector ==
    /\ Goto("data", "flush") /\ req.op = "write"
    /\ phase' = [phase EXCEPT ![selected] = IF @ = "out" THEN "storing" ELSE @]
    /\ UNCHANGED <<driver, transfer, regs, cmd, err, written, overrun>>

Flush ==
    /\ Goto("flush", "settle")
    /\ CommandWrite([op |-> "flush", lba48 |-> FALSE])
    /\ polls' = 0
    /\ UNCHANGED <<driver, sector, todo, buffer, result, overrun>>

DriverStep ==
    /\ \/ Probe \/ BeginSector \/ OutB \/ Presence \/ WaitReady \/ Settle
       \/ WaitDrq \/ ErrCheck \/ Register \/ ReadSector \/ WriteSector \/ Flush
    /\ UNCHANGED plugged

Caller ==
    \E op \in {"read", "write"}, d \in DOMAIN disks, l \in Lbas, n \in Counts :
        Request(op, d, l, n) /\ UNCHANGED plugged

Done == drive = 2 /\ pc = "next" /\ (served = MaxRequests \/ disks = <<>>)
        /\ UNCHANGED ataVars

Next == DriverStep \/ Caller \/ DriveStep \/ Done

\* The processor runs the driver; a drive may never answer.
Spec == Init /\ [][Next]_ataVars
FairSpec == Spec /\ WF_ataVars(DriverStep)

-----------------------------------------------------------------------------
(* Properties                                                              *)

TypeOK ==
    /\ pc \in {"next", "sector", "out", "presence", "waitready", "errcheck",
               "waitdrq", "data", "flush", "settle"}
    /\ drive \in 0..2 /\ sector \in Nat /\ polls \in 0..(POLLS - 1)
    /\ result \in {0, -1} /\ served \in 0..MaxRequests
    /\ \A i \in DOMAIN disks : disks[i].unit \in 0..1 /\ disks[i].from \in 0..1
    /\ phase \in [0..1 -> {"idle", "busy", "in", "out", "storing"}]
    /\ overrun \in BOOLEAN

Finished(op) == pc = "next" /\ drive = 2 /\ req.op = op /\ result = 0

\* The sectors the driver's register writes can name: on the slave, with the
\* fourth and the sixth byte of an LBA48 equal, in 28 bits otherwise.
Named(lba48, lba) ==
    IF lba48 THEN lba < Place(6) /\ Digit(lba, 3) = Digit(lba, 5)
             ELSE lba < NIBBLE * Place(3)

Reachable(disk, lba) == disks[disk].unit = Slave /\ Named(disks[disk].lba48, lba)

\* While no wait has given up on a unit at work, a read that returns 0 filled
\* the buffer with the sectors asked for, in order and as last written.
ReadsAreFaithful ==
    (Finished("read") /\ ~overrun
       /\ \A i \in 1..req.count : Reachable(req.disk, req.lba + i - 1))
    => /\ Len(buffer) = req.count
       /\ \A i \in 1..req.count :
            LET l == req.lba + i - 1
            IN  buffer[i] = [unit |-> Slave, lba |-> l, new |-> l \in written[Slave]]

\* A unit stores a sector only for the write in progress and at the LBA that
\* write is at, while no wait has given up on a unit at work.
WritesStayPut ==
    [][\A u \in 0..1 : written'[u] # written[u] /\ ~overrun
           => /\ req.op = "write" /\ pc \in {"flush", "settle"}
              /\ Reachable(req.disk, req.lba + sector)
                    => u = Slave /\ written'[u] = written[u] \union {req.lba + sector}
      ]_ataVars

\* The disk on the slave, as a request sees it.  It promises nothing once a wait
\* has given up on a unit at work, and for a request of sectors that the driver's
\* writes cannot name.
Promised ==
    ~overrun /\ (req.op # "identify" =>
                    \A i \in 1..req.count : Reachable(req.disk, req.lba + i - 1))

\* The unit has stored the sector of the write in progress, or given it up.
Settled == pc \in {"flush", "settle"} /\ phase[Slave] # "storing"

Disk == INSTANCE SectorDisk WITH
            Unit <- Slave, sure <- Promised,
            busy <- req.op # "identify" /\ pc # "next",
            request <- [op |-> req.op, lba |-> req.lba, count |-> req.count],
            done <- sector, data <- buffer, settled <- Settled,
            stored <- written[Slave], answer <- result

\* A request goes through its sectors in order: a read takes each one as it was
\* last stored, a write leaves each one stored or given up by the unit before
\* it goes on, and 0 is returned at the end of them only.  The flush that the
\* driver sends too early, and the wait whose result it ignores, break none of
\* this (ata_pio_read, ata_pio_write).
RefinesDisk == Disk!Spec

\* The data port is used for the command that the driver issued and in its
\* direction, while no wait has given up on a unit at work.
NoBlindTransfer ==
    pc = "data" /\ ~overrun
        => /\ phase[selected] = (IF req.op = "write" THEN "out" ELSE "in")
           /\ cmd[selected].op = req.op

\* Detection registers a disk at most once and under the unit it is, while no
\* wait has given up on a unit at work.
DetectionIsRight ==
    ~overrun => \A i, j \in DOMAIN disks :
                    /\ disks[i].from = disks[i].unit
                    /\ disks[i].unit = disks[j].unit => i = j

\* Every probe and every request returns, whatever the units do: the waits
\* are bounded.
EveryCallReturns == pc # "next" ~> pc = "next"

=============================================================================
