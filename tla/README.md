# Aetherion OS: a TLA+ verification project

Aetherion OS is a small 64-bit kernel (`src/kernel/`, C) with its own boot
loader (`src/boot/`, assembly).  It has one thread: `kernel_main` initialises
the drivers and then runs a shell.  What makes it hard to get right is not
concurrency between threads but the devices: an interrupt handler that shares a
ring buffer with the shell, disk units and a host adapter that answer late or
never, a keyboard that sends while it is being initialised, a BIOS that may
refuse any call, a bus scan that calls itself in the middle of an update, a
screen whose state is the sum of everything printed on it.

This directory holds TLA+ modules translated from that code, TLC configurations
that model-check small instances, and theorems that TLAPS proves for every
value of the constants.

- `PROJECT.json` lists the components, the runs, a mutant for every property,
  the source lines of every definition, the findings, the hazards and the
  theorems.
- To check a run: `tlc -config <cfg> <module>`.  To check the proofs: `tlapm` on
  each module whose name ends in `Proofs`.


## 1. Inventory

| component | source | state | operations | modelled by |
|---|---|---|---|---|
| keyboard driver | `keyboard.c` | ring `kb_buffer`, `kb_head`, `kb_tail`; five modifier flags; the dialogue with the controller | `keyboard_init`, `keyboard_handler` (IRQ1), `keyboard_getchar`, `keyboard_has_key` | `KeyboardInit`; `Keyboard`, `KeyQueue` |
| ATA PIO driver | `ata.c` | none of its own: the registers and units of a channel | `ata_detect_disks`, `ata_identify`, `ata_pio_read`, `ata_pio_write` | `Ata`, `SectorDisk` |
| disk registry | `disk.c` | `g_disks`, `g_disk_count` | `disk_init`, `disk_register`, `disk_get`, `disk_find_by_name`, `disk_read`, `disk_write` | `Disks` |
| AHCI driver | `ahci.c` | `g_hba`, `g_mem_alloc_ptr`, the command structures of each port | `ahci_init`, `ahci_detect_ports`, `ahci_port_start`, `ahci_identify`, `ahci_read_sectors`, `ahci_write_sectors`, `ahci_exec_cmd` | `Ahci` |
| PCI enumeration | `pci.c` | `pci_devices`, `pci_device_count` | `pci_init`, `pci_scan_bus`, lookups | `PciScan` |
| text console | `vga.c` | cursor, screen, colour | `vga_putchar`, `vga_clear`, `vga_scroll_up`, `vga_set_cursor`, `vga_printf` | `Vga` (not the colour) |
| shell | `kernel.c` | `cmd_buf`, `cmd_len` | edit the line, run it, the boot of the drivers | `Shell`; its command `read` and the boot in `Ahci` |
| boot stage 2 | `boot/stage2.asm` | geometry, the position of the CHS read, memory from 1 MiB | ask the geometry, check the processor, load the kernel by LBA or in chunks by CHS | `Stage2` (the real-mode part) |

How they interact:

- The shell calls `keyboard_getchar`, which waits with `hlt`; the interrupt
  handler fills the ring.  They share the ring and nothing locks it.
- The shell and the drivers print with `vga_putchar`; all calls come from the
  one thread.
- `kernel_main` calls `disk_init`, the ATA and the AHCI detection; both register
  their disks with `disk_register`.  The shell reaches a disk with `disk_get` and
  `disk_read`, which calls `ata_disk_read` or `ahci_read_sectors` through the disk.
- The drivers talk to devices through ports and memory; a device changes its
  registers whenever it likes.

What is hard, per component, and what makes it correct:

- *Keyboard.*  The handler may enter between any two instructions of the
  reader.  No character is lost but by a full ring, none is delivered twice or
  torn; the reader wakes when there is something to read; no modifier sticks.
  While it is initialised, the bytes do not say who sent them: a key is read as
  an answer, or as the configuration that is written back.
- *ATA.*  A unit finishes a command when it likes, aborts it or never answers;
  each wait gives up after a number of polls, and the unit may answer after
  that.  A read that returns 0 gives the sectors asked for, a write changes
  only its own sectors, every call returns.
- *AHCI.*  The adapter completes or fails a command while the driver polls, and
  the last poll races it.  It reads the command where the header says.  The
  firmware may have left a port running.  A return of 0 should mean that this
  command was executed (it does not: section 3); the list of commands is replaced
  only while its engine is stopped; no command outlives its call; the adapter is
  never told of more bytes than the buffer has, whatever is typed as a count; no
  two ports share memory.
- *Registry.*  It is full after eight disks and the drivers do not look at the
  refusal: the first ones keep their indices and their names.
- *PCI.*  `pci_scan_bus` fills a slot, calls itself for the bus behind a
  bridge, and counts the slot afterwards: the calls share it.  Every endpoint is
  found once; the scan ends on any machine.
- *Console and shell.*  The screen is a window on a long text, and the cursor
  wraps at once when a row is full.  The screen shows the text; the line on the
  screen is the line that runs; nothing is written outside the screen or
  `cmd_buf`.
- *Stage 2.*  A read that failed half way is followed by another of another
  kind; offsets and segments wrap in 16 bits.  It goes on only with the whole
  kernel in its place, and no chunk comes down on the code that reads it.

`PROJECT.json` has the hazards line by line, with the properties that watch each, or
the reason why none does.


## 2. Modules

```
KeyQueue          the bounded queue a keyboard buffer promises (abstract)
Keyboard          implements it: KQ == INSTANCE KeyQueue WITH ...
  MCKeyboard      keyboards of a few keys
  KeyboardProofs  theorems, every ring size and keyboard
KeyboardInit      driver, controller, keyboard and user during keyboard_init
  MCKeyboardInit  what the firmware leaves, what the user types
  KeyboardInitProofs  theorems, every configuration and every scan code typed
SectorDisk        the disk a caller of disk_read and disk_write sees (abstract)
Ata               one channel, two units, the driver; implements it:
                  Disk == INSTANCE SectorDisk WITH ...
  MCAta           what is plugged, and the LBAs
  AtaProofs       theorems on the steps of the driver, every channel
    AtaDataProofs theorems on the data and the refinement, every LBA and count
Disks             the registry
  Ahci            EXTENDS Disks: the boot of the disks, the HBA, the requests
    MCAhci        what is at the ports, what is asked
    StorageProofs theorems about both, every machine
PciScan           the scan, its calls a stack of frames
  MCPciScan       the machines
  PciProofs       theorems, every machine
Vga               the console
  MCVga           a screen of three rows
  Shell           EXTENDS Vga: the shell and the console it prints on
    MCShell       commands of one letter
    ConsoleProofs theorems about both, every size
Stage2            the loading of the kernel
  MCStage2        builds and drives
  Stage2Proofs    theorems, every build and drive
```

Definitions keep the names of the code.  A definition that starts with the word
*Mutant* in its comment is a plausible bug, and is used nowhere: replacing the
definition that follows by it must make a property fail.

### Keyboard, KeyQueue

`keyboard_handler` runs to completion with interrupts off, so it is one action.
`keyboard_getchar` is cut at each access to what it shares with the handler:
`Check` (the test of the wait loop), `Hlt`, `PopCheck`, `PopRead`, `PopAdvance`.
`Hlt` is a step of its own because the handler may run between the test and the
instruction.  The handler releases a halted processor (`WakeUp`).  `kb_head` and
`kb_tail` are not volatile; `reloads` chooses at the start whether the compiled
wait loop reads them again or keeps what it read first.

The keyboard is external: `Keys` says what each key sends when it goes down,
repeats, and comes up, and `wire` holds the bytes not yet handled.  A character
is the pair of a scan code and the table that translated it; the characters
themselves play no part.  `IrqRouted` says whether IRQ1 reaches the handler.  In
the kernel as it is built it does not: nothing installs an interrupt table and
stage 2 clears the interrupt flag.  Every run sets it to TRUE and checks the
driver as its header describes it.

`KeyQueue` is the abstract specification: characters are offered, dropped when
`Capacity` of them wait, and taken in order.  `Keyboard` refines it with the
queue read off the ring (`Waiting`) and `Capacity = KB_BUFFER_SIZE - 1`.

### KeyboardInit

`keyboard_init` is a straight line of bytes to send, bytes to read and answers to
compare, so it is a sequence (`Script`) and an action per kind of entry:
`SendByte` (with `ps2_wait_input`), `Drain`, `ReadByte` (with `ps2_wait_output`;
an answer that is not the one expected ends the call) and `SetIrq`.  The
controller has a buffer of one byte in each direction, takes commands
(`TakeCommand`), its configuration (`TakeConfig`) and bytes for the keyboard
(`ToKeyboard`), says its own answers (`Say`) and forwards the keyboard's
(`Forward`) while its clock is on.  `Type` is the user.  `health` says which tests
fail and whether there is a keyboard.

### Ata

The driver is a sequence of register writes (`SectorWrites`, `IdentifyWrites`,
each one step of `OutB`), waits (`WaitReady`, `WaitDrq`, `Settle`, one step for
each poll) and transfers of a sector (one step).  A unit is external and takes
its own steps: `Proceed`, `Store`, `Abort`, or none for ever.  Writing a register
of a unit at work may be taken or lost; a command then is lost.  An LBA is six
digits in base `RADIX`, the i-th worth `Place(i)` (bytes in the code); `NIBBLE` is
what the DEVICE register has room for beside its flags.  `Named` is the LBAs that
the driver's register writes can name, `Reachable` the same for a disk.  `overrun` is
auxiliary and records that a wait gave up while a unit was at work.

`SectorDisk` is the abstract specification: a disk takes the sectors of one request
after the other; a read hands each one back as it was last stored; a sector
written is stored, or given up by the disk, before the next one is taken; the
answer 0 comes at the end.  `Ata` refines it with the slave, which every request
selects: a sector is in hand while `ata_pio_read` or `ata_pio_write` is in its loop,
and settled when the unit no longer stores it (`Settled`).  `Promised` is when it
does so: no wait has given up on a unit at work, and the sectors of the request are
`Reachable`.  While it is false the abstract disk may do anything; it comes back
with a new request only, and only if what spoiled it was the LBA.

Taken as given: the disk structures are allocated, the status port of an empty
channel reads 0, a unit shows BSY at once when a command is written (it may take
400 ns; `Settle` and `WaitReady` could read the status from before in that time).

### Disks, Ahci

`Disks` is the registry: `disk_init`, `disk_register` and the two lookups.  A
disk is its driver and its unit, from which its name and its functions follow.
`offered` is auxiliary, the disks the drivers gave.

`Ahci` is `kernel_main` from `disk_init` to the requests of the shell.  `pc` is the
place in it: `DiskInit`, `AtaDetect` (one unit, which is there or not), `Search` for
a controller, one iteration of `ahci_detect_ports` from `DetectPort` through
`ahci_port_start` (`ClearSt`, `StopWait`, `SetBases`, `Run`, `StartWait`) to
`ahci_identify`, and `ahci_exec_cmd` (`Prepare`, `Issue`, `PollCi`, then `Identified`
or `Status`).  `Request` is the command `read` of the shell, and `disk_write`: an
index that names no disk, an allocation that fails, or the function of the
disk's driver.  The HBA is external: its engines follow the bits that start and
stop them (`Engines`), and a command leaves its slot without an error (`Complete`)
or fails (`Fail`) at any time or never.

The command structures are what the driver writes: the FIS byte by byte (`RegFis`),
the length of the PRD entry (`Prdt`), and in the header the address of the table,
which is 0 for every command (`ctba`).  `Complete` executes the request only if that
address is the one of the port's table; it is not, so in this model as in the code
no request is ever executed.  What an adapter makes of the bytes it finds at
address 0 is not modelled: they have an error, or none, or are never done with.

A `u32` is a number modulo `WORD`, an LBA one modulo `WORD * WORD`, so that
`timeout--`, `count * 512` and a negative LBA wrap as they do.  The product of the
command `read` is one of `int`s, whose overflow the language leaves undefined:
`Buffers` has the size that wraps and the one that does not.  Auxiliary: `took`,
`completed` and `executed` tie a command of the HBA to the request it serves, `room`
is the size of the caller's buffer, `gaveup` and `exhausted` are the ports where a
wait ran out with the list engine on or with the command pending.

### PciScan

A machine is a set of functions (`Topologies`).  The recursion is a stack of
frames; `Fill` is the part of an iteration before the recursive call and `Count`
the part after it, which reads the slot again as the code does.  `Skip` is a
function that is not there, `Return` the end of the loops or a full table.

### Vga, Shell

`Vga` has one operator per call of `vga.h` that changes state, and one per branch
of `vga_putchar`.  The screen is a function of rows and columns.  `VgaSpec` lets
any call come at any time.

`Shell` composes the shell with the console.  `out` is what is left to print;
each step prints one character with `vga_putchar`, and the next key is taken
when nothing is left.  Commands are any sequences of characters; what `disks`,
`pci` and `read` print is any text of `Reports`.  `Printed` cuts a text as
`vsnprintf` does.  Auxiliary: `shown` is the text printed since the screen was
last clear, `crossed` says that a backspace met the start of a row since then,
`cut` that the last reply lost its end.

### Stage2

The real-mode part of stage 2, one action per step that calls the BIOS:
`get_drive_params`, `check_cpu64`, `CheckLba`, `ReadLba`, and `read_chs` in chunks
(`ReadChunk`, `ReadFailed`, `ChsDone`).  Any call may fail, and an LBA read that
fails may have read a part.  Memory from 1 MiB on is a row of places of a sector,
and a place holds the number of the sector read there; `Loaded` moves each sector
of a transfer to `seg * 16 + offset`, with or without the wrap of the offset in its
segment, as BIOSes differ.  `pc = "lost"` is a chunk at 0x10000, where stage 2
itself lies.  `chs_cnt` is always 16: the comparison that should shorten the last
chunk looks at `ax`, in which `dbg_putc` has left 0x0E49 (a BIOS that keeps `ax` over
its teletype call is assumed).


## 3. Runs

Bounds are constants of the modules, each with the word *bound* in its comment,
or constraints in an MC module.

| run | specification, size | what it shows |
|---|---|---|
| `kb_queue` | `FairSpec`, ring of 3, three keyboards of two to four keys with prefixes and fake shifts, 620 000 states | the ring implements the queue (`RefinesKeyQueue`); a pop finds what the wait found (`PopFindsTheKey`); while interrupts keep coming every character is read (`DeliveredUnderTraffic`); no order of presses, repeats and releases leaves a modifier stuck (`NoStuckModifier`) |
| `kb_init` | `FairSpec`, 3 configurations, up to 2 scan codes typed at any moment, 34 500 states | the configuration written back is the controller's own (`ConfigIsTheControllers`); a failure reported is one (`FailuresAreReal`), and a success (`SuccessIsReal`); the keyboard is ready and nothing is left to be taken for a key (`ReadyForKeys`); the dialogue ends (`InitEnds`) |
| `ata_requests` | `FairSpec`, three channels with disks, a CD-ROM and a blank unit, 2 requests of up to 2 sectors, 412 000 states | `ReadsAreFaithful`, `WritesStayPut`, `NoBlindTransfer`, `DetectionIsRight`, and that the driver implements the abstract disk (`RefinesDisk`), while no wait has given up on a unit at work; every probe and request returns (`EveryCallReturns`) |
| `storage` | `FairSpec`, 2 ports, a table of 2 disks, one ATA unit, 2 requests, 1 030 000 states | the registry (`RegistryInOrder`, `NamesAreUnique`), memory (`StructuresApart`, `PrdtFitsBuffer`), the ports (`BasesChangeStopped`), the commands (`NothingLeftBehind`, `ZeroMeansCompleted`, `FisKeepsRequest`); the boot and every request end (`EveryCallReturns`) |
| `pci_scan` | `FairSpec`, 2112 machines, table of 5, 36 000 states | `EndpointsFound`, `FlatScanIsExact`, `ScanEnds` |
| `vga_calls` | `VgaSpec`, 5 columns, 3 rows, 246 000 states | the cursor stays on the screen, the text moves as a whole (`TextMovesAsAWhole`) |
| `shell_console` | `Spec`, 3 by 3 screen, line of 4, 43 000 states | `ScreenShowsText`, `SeesWhatRuns`, `PromptStartsALine` |
| `stage2_load` | `FairSpec`, 8 sizes of kernel, 3 drives, 7 400 states | the kernel is whole when stage 2 goes on (`KernelWhole`), no chunk replaces stage 2 (`Stage2Survives`), the loading ends (`LoadEnds`) |

Four runs show where the code does not do what its comments or messages say:

| run | violated | what happens |
|---|---|---|
| `kb_lost_wakeup` | `EveryCharIsRead` | the interrupt comes between the test of the ring and `hlt`; the shell sleeps on a character |
| `pci_functions` | `FunctionsScanned` | the slot read after the recursive call holds another device, and functions 1 to 7 of the bridge's device are skipped |
| `ahci_timeout` | `LuMeansCompleted` | the turn of `while (timeout--)` that finds 0 leaves 0xFFFFFFFF, the test for 0 after the loop sees no time-out, and the shell prints "Lu" for a command that is still pending |
| `ahci_table` | `LuMeansExecuted` | the header of the command has the address 0 for its table; the command leaves its slot without an error, its FIS unread, and the shell prints "Lu" |

Why the bounds are enough:

- *Ring of 3.*  It can be empty, hold one, be full, wrap, and drop; a key with a
  character and one that changes the table tell an old character from a new one.
  The keyboards have, together with the shift, a key whose fake shift comes with a
  character, a lock and a grey key, and the other two modifiers with a prefix.
  Four bytes on the wire are the longest that one key sends, so the keys of one
  keyboard overlap; the handler may wait for any number of steps.
- *Keyboard dialogue.*  The scan codes are one that is no answer and the three
  that are answers awaited (0x55, 0x00, 0xAA).  Two of them are what it takes to
  imitate the answers of two tests.
- *ATA.*  In base 4, with room for half a digit in DEVICE, the digits of 77 are
  1, 3, 0, 1, 0, 0: an LBA of 28 bits that uses DEVICE.  Those of 1628 are 0, 3, 1,
  1, 2, 1: an LBA of 48 bits that the register writes can name, with different
  digits in the two writes of a register.  The sector after each differs in the
  lowest digit.  Counts are 0, 1 and 2: none, one, and one after another.  Two polls
  are a poll that fails and the last one.  Two requests are what a read of what was
  written needs.  After a wait has given up on a unit only the return of that call
  is followed (`FirstAfterOverrun`).
- *Storage.*  A table of two disks with three that may be found is full in some
  boots and not in others.  Two requests are what a command left behind by the
  first one needs.  The ports were left by the firmware with any of their engines
  on.  In base 4 the LBAs are one of six digits, the last one of 28 bits with a count
  that is 0 in one byte and makes the command one of 48 bits, one that has the
  digits of 28 bits and not the nibble, and a negative one.  With `WORD = 8192`, 17
  sectors and -15 wrap to a buffer of one sector and 16 to one of 0 bytes.
- *PCI.*  Buses of three devices with two functions; bridges nested two deep,
  single and multi-function, missing function 0, bridges that lead back to bus
  0.  A table of 5 is full in some machines and not in others; `pci_functions`
  takes 16 so that it never is.
- *Console.*  With five columns a tab stays on its row from column 0 and leaves
  it from column 4; three rows are a first, a middle and a last one.
- *Shell.*  On 3 by 3 every command line wraps or scrolls; `CMD_SIZE` 5 lets the
  line be full; `PRINTF_SIZE` 5 puts an unknown command just inside and just
  past the buffer.  `MaxShown` bounds the text when a key is taken.  After a
  backspace has met the start of a row, the cursor may go down for ever without
  more text, so `CrossedBriefly` follows such a screen to its last row only.
- *Stage 2.*  Kernels of less than a chunk, a chunk, a part of a chunk more, and
  on both sides of the end of the segment (127 sectors) and of the carry of the
  offset (128).  The drives are two floppy disks, one of which has the default
  geometry, and a hard disk.

`CHECK_DEADLOCK FALSE` is set where the system stops: the shell after `reboot`
or at its bound, the keyboard whose bytes nobody takes, the end of
`keyboard_init`, the prompt after the last request, stage 2 at its end.

### Fairness

- `Keyboard`: weak fairness on the reader's next instruction and on the handler.
  The processor executes instructions and serves a pending interrupt.  Nobody
  has to type.  `DeliveredUnderTraffic` assumes in its statement that interrupts
  keep coming and that the loop reads the indices again.
- `KeyboardInit`: weak fairness on the driver and on the devices, which answer
  within microseconds; a keyboard that is absent does not, and `InitEnds` excludes
  it.  None on the user.
- `Ata` and `Ahci`: weak fairness on the driver alone; the units and the adapter
  have none.
- `PciScan`: weak fairness on the scan.  `Stage2`: on its next step; the BIOS
  returns, well or not.
- The console has no liveness property.


## 4. Proofs

| theorem | module | says |
|---|---|---|
| `TypeCorrect` | `KeyboardProofs` | `Spec => []TypeOK` |
| `PopSafe` | `KeyboardProofs` | `Spec => []PopFindsTheKey` |
| `Refinement` | `KeyboardProofs` | `Spec => RefinesKeyQueue` |
| `NoneStuck` | `KeyboardProofs` | `Spec => []NoStuckModifier` |
| `TypeCorrect` | `KeyboardInitProofs` | `Spec => []TypeOK` |
| `ConfigCorrect` | `KeyboardInitProofs` | `Spec => []ConfigIsTheControllers` |
| `FailuresCorrect` | `KeyboardInitProofs` | `Spec => []FailuresAreReal` |
| `SuccessCorrect` | `KeyboardInitProofs` | `Spec => []SuccessIsReal` |
| `ReadyCorrect` | `KeyboardInitProofs` | `Spec => []ReadyForKeys` |
| `VgaTypeCorrect` | `ConsoleProofs` | `VgaSpec => []VgaTypeOK` |
| `TextMoves` | `ConsoleProofs` | `VgaSpec => TextMovesAsAWhole` |
| `ShellTypeCorrect` | `ConsoleProofs` | `Spec => []TypeOK` of the shell |
| `SeesCorrect` | `ConsoleProofs` | `Spec => []SeesWhatRuns` |
| `PromptCorrect` | `ConsoleProofs` | `Spec => []PromptStartsALine` |
| `ScreenCorrect` | `ConsoleProofs` | `Spec => []ScreenShowsText` |
| `AtaTypeCorrect` | `AtaProofs` | `Spec => []TypeOK` |
| `TransfersCorrect` | `AtaProofs` | `Spec => []NoBlindTransfer` |
| `DetectionCorrect` | `AtaProofs` | `Spec => []DetectionIsRight` |
| `ReadsCorrect` | `AtaDataProofs` | `Spec => []ReadsAreFaithful` |
| `WritesCorrect` | `AtaDataProofs` | `Spec => WritesStayPut` |
| `DiskRefinement` | `AtaDataProofs` | `Spec => RefinesDisk` |
| `StorageTypeCorrect` | `StorageProofs` | `Spec => []TypeOK` |
| `RegistryCorrect` | `StorageProofs` | `Spec => []RegistryInOrder` |
| `NamesCorrect` | `StorageProofs` | `Spec => []NamesAreUnique` |
| `NothingLeftCorrect` | `StorageProofs` | `Spec => []NothingLeftBehind` |
| `ZeroCorrect` | `StorageProofs` | `Spec => []ZeroMeansCompleted` |
| `BasesCorrect` | `StorageProofs` | `Spec => BasesChangeStopped` |
| `TransferCorrect` | `StorageProofs` | `Spec => []PrdtFitsBuffer` |
| `CommandCorrect` | `StorageProofs` | `Spec => []FisKeepsRequest` |
| `StructuresCorrect` | `StorageProofs` | `Spec => []StructuresApart` |
| `PciTypeCorrect` | `PciProofs` | `Spec => []TypeOK` |
| `FlatScanCorrect` | `PciProofs` | `Spec => []FlatScanIsExact` |
| `EndpointsCorrect` | `PciProofs` | `Spec => []EndpointsFound` |
| `LoadingCorrect` | `Stage2Proofs` | `Spec => []KernelWhole` |
| `SurvivalCorrect` | `Stage2Proofs` | `Spec => []Stage2Survives` |

Assumptions on the constants are the named `ASSUME`s of the modules: a ring of
more than one slot, a screen of at least one row and one column, buffers of at
least one place, texts made of printable characters and newlines, a byte of more
than one value, at least one poll per wait, a poll counter that does not wrap
while it counts down, units and requests of the right kind, a null pointer that
is no disk.  TLC evaluates each of them.  Five say more than a type:

- `ReleaseAssumption` (`Keyboard`): a key that sends the code of a modifier when it
  goes down or repeats takes it back when it comes up, and sends no such code when
  it comes up.  So do the modifier keys, and the grey keys with the fake shift they
  send around their code.  A grey key that comes up while a shift is held sends the
  code of that shift once more; `Keys` says what a key sends whatever else is down,
  and such keys are outside it.
- `VgaAssumption`: newline and backspace differ from each other and from return and
  tab, as they do in C.
- `ShellAssumption`: the banner, the help and the reports of the commands end with a
  newline (`Lines`), as the strings of `kernel.c` do.  Without it no prompt starts a
  line.
- `AhciAssumption`: a u32 has room for the poll counter and for the bytes of a PRD
  entry, and a u64 for an LBA of six digits and a count more, as 2^64 has.
- `PciAssumption`: an address (bus, device, function) names one function, which is
  what an address of the configuration space is.

*Keyboard.*  `TypeOK` is inductive: each step's index is the successor of an
index (`RingNextType`), each slot gets a character of a table (`ToAsciiType`).
`PopFindsTheKey` needs `TypeOK` and is inductive with it (`Inv`): between the
test and the advance only the handler moves, it changes `kb_head` alone, and
never makes it equal to `kb_tail`, because it pushes only when the next index is
not `kb_tail`; the slot at the head is not the slot at the tail as long as the
ring is not empty.  The refinement rests on two lemmas about the sequence read
off the ring: a push appends one character or, when `Used` is at the capacity,
none; an advance drops the first.  `NoStuckModifier` speaks of an empty wire and is
not inductive.  `ReleasedInv` is: if a flag would be on after all the bytes on the
wire have been handled (`StaysOn`), a key that switches it on is down.  A step of the
user puts on the wire a make with its key in `held`, or a break that ends what the
wire leaves on (`UserReleases`); a step of the handler moves the first byte into the
flag and leaves what will be as it was (`ByteHandled`).

*Keyboard dialogue.*  The place in `Script` settles what the driver has sent, what
the controller has done of it and what may be in the input buffer (`PlaceInv`,
`SentInv`, `EffectInv`), and when the keyboard may send at all (`QuietInv`): 0xAD
stops it before the buffer is flushed, so that the byte read as the configuration
is the controller's, whoever typed what before.  From there to the end its bits
change only where the driver sets and clears them, which is arithmetic on powers
of 2.  What was answered depends on the user.  `CalmInv` says, when nothing was
typed, at each place where the one answer is: still in the controller, in its
output buffer, or in the keyboard.  `StrayInv` follows one scan code typed at any
moment: it may stand for the answer that the driver is waiting for, and then the
true answer is behind it and is read at the next place, which wants another one;
so the call fails rather than take a failed controller or port for a good one.

*Console.*  `VgaTypeOK` is inductive; the cases that end a row go through
`NextRowType`.  `TextMoves` follows from it step by step: a newline, or a glyph in
the last column, is `NextRowMoves` (the text moves up by one or not at all), a
clear moves it up by the whole screen, every other call leaves it (`StaysPut`).
For the shell, `TypeOK` is inductive: what a command prints is printable
(`RepliesType`, with `PrintedType` for the cut), and only `Insert` lengthens the
line, under its guard.  `SeesWhatRuns` and `PromptStartsALine` hold between two keys
only; `EchoInv` says it of every step, of the text there will be when what is left
has been printed (`Coming`): it ends with the prompt and the line, and before these
it is empty or ends with a newline, unless the reply was cut.  A step that prints
leaves `Coming` as it is; one that takes a key appends to it, drops its last
character together with that of the line, or ends it with a new prompt.  The text is
cleared only with nothing after it but what is still to be printed.

`ScreenShowsText` compares the screen with a layout of the whole text: the row of a
character is the number of rows that the lines before it take (`RowsAbove`, a
recursive function), its column what is left of its place in the line.  Nothing is
proved by induction over the text.  That the function exists and is the only one of
its kind (`Laid`) is part of the invariant: it holds of the empty text, and when the
text grows or loses its end by one character the new function is the old one with
one more value or one less.  `Ordered` says that the places of the text follow one
another on the page, up to the one behind its end; so the next character takes a free
cell, and the row that scrolls in is below the text and blank.  `Shown` is the property with the cursor:
the window of `VGA_HEIGHT` rows that ends where the text ends.  A printed character
adds one cell to the page, a full row or a newline moves the window with the screen,
and a backspace away from the start of a row takes the last cell back.  `TextInv` has
these parts with the types.

*ATA.*  `TypeOK` is not inductive: that `selected` stays a unit depends on what is
left to be written, so `TypeInv` adds that `todo` is a `Program`, outputs that
select the unit of the request and end with its command (`IdentifyProgram`,
`SectorProgram`, and `TailProgram` as each is written).  `PhaseInv` then says, for
each place of the driver, what the selected unit may be doing and that the other
one rests, until `overrun`: a wait is left either with the unit where the driver
takes it to be or with `overrun` set, and a unit's error bit is up only while it
rests.  `NoBlindTransfer` is one of its conjuncts.  `DetectInv` adds that, once
DEVICE is written, the selected unit is the one that is probed, which needs
`PhaseInv` (a write to a unit at rest is not lost), and that the disks registered
are units probed before, once each.

*ATA data.*  `ReadsAreFaithful` and `WritesStayPut` follow a sector from its LBA to the
buffer.  A number is the sum of its six digits at their places (`TakeDigit` and the
lemmas after it).  While the outputs of a sector are written, each register holds
what the outputs already taken carry and the rest is still in `todo` (`Sending`); none
is lost, as the units rest (`PhaseInv`).  When the command is taken, the unit reads
its LBA back from the registers, with their former contents for a 48-bit one, and it
is the sector in progress if the writes can name it (`Named`).  `DataInv` then says
that the slave is selected, that its command is at that sector until it rests, and
that each sector read so far is in the buffer at its index, as last written: no unit
stores while a read is in progress, so no entry goes stale.

`DiskRefinement` adds that the loop never passes the count (`CountInv`) and that each
unit has its set of stored sectors (`StoredInv`); with `DataInv` this is `DiskInv`.  A
step after which `Promised` holds is then a step of `SectorDisk` or a stutter: a call
is `Ask`; the transfer from the data port is `Fetch`, of the sector in hand, by
`DataInv` (`DiskRead`); the end of the storing is `Store` or `Drop` (`DiskDrive`); `Settle`
is `Advance`, as its wait is left with a unit that is ready or with `overrun` set;
the end of the loop is the answer 0, a wait that fails the answer -1 (`DiskDriver`).
All else, detection with it (`DiskDetection`), does not show.  The FLUSH CACHE that the
unit loses, since it is still storing, changes nothing here.

*Storage.*  `BaseInv` is the types with what holds of the port in hand.
`RegistryInOrder` is inductive with them (`OrderInv`); `NamesAreUnique` needs that
the disks offered so far come before the unit in hand (`UniqueInv`).
`ZeroMeansCompleted` and `NothingLeftBehind` rest on `ExecInv`, whose parts follow a
command: a slot is in use only between `Issue` and `Status` (`SlotInv`), and a slot
found empty without the error bit was left by this command and no other (`DoneInv`),
on a port that is not `exhausted`.  `ZeroMeansCompleted` is as much as a result of 0
means in this code; that the command was executed is what `ahci_table` refutes.
`BasesChangeStopped` needs that, between the wait and the new list, the list engine
of the port in hand is off or the port is in `gaveup` (`EngineInv`): nothing but the
driver switches it on again.

`FisKeepsRequest` and `PrdtFitsBuffer` are arithmetic on what `Prepare` writes, which
`CommandInv` ties to the request.  An LBA is the sum of its digits: three low ones
(`LowDigits`) and three more (`HighDigits`), or a nibble where `lba + count` does not
pass 28 bits, which needs that this sum does not wrap for an LBA of 48 bits
(`ShortLba`).  The length of the entry and the buffer come from the same product
along two ways, `int` to `malloc` and `u32` to the entry; modulo `WORD` they agree
(`WrapTwice`, `BuffersMeant`), the entry takes no more than what is left of them
(`PrdtFits`), and if nothing is left of them and the buffer is not empty, it has at
least `WORD` bytes, which is more than an entry can name (`EntryFits`).  `StructuresApart` is
`HeapInv`: memory is given to the ports in their order and never given back, each
area is rounded up to its own size, so the last area of a port ends before the first
of the next and before what is still free; ports that detection has not reached have
none.

*PCI.*  `TypeOK` needs that every call in progress that has filled a slot is still
inside its loop (`Frame`), which `Count` relies on when it goes on.  For
`FlatScanIsExact`, `FlatInv` follows the one call there is without bridges: the count
is the number of functions in front of the place of the loops (`Seen`), each of them
is at its rank, and a slot that is filled and not yet counted holds the function the
loops are at.  The loops leave out the functions 1 to 7 of a device whose function 0 says that
there are no more, which are no part of the list either (`Visible`); when the table
is full, every rank it has room for is taken.

`EndpointsFound` asks that the bridges are `Numbered`, each leading to a bus of its
own, as firmware numbers them; two bridges to one bus would have it scanned twice.
`ScanInv` gives the set D of the buses whose scan is over.  Each bus is scanned by one
call, made by the bridge that leads to it, and the call below is still at that
bridge (`StackInv`); so no call rereads a bus.  When the loops go on from a sound
bridge, the bus behind it is in D (`ReachInv`).  An endpoint is counted once, when the
loops go on from it, and from the count on the table holds no endpoint but the one
being counted, which is why the slots that nested calls share lose bridges only
(`TableInv`).  At the end no call is left: D holds bus 0 and is closed under the sound
bridges, so it contains `BusesBehind`, the smallest such set.

*Stage 2.*  `Inv` says where the CHS read is after `k` chunks (`After`): what is left,
the sector, the segment and the offset, and that the first `16 * k` places hold
their sectors if the geometry is that of the drive.  `LoadedPlaces` gives the place
of each sector of a transfer, with and without the wrap of the offset, and
`ChsNames` that cylinder, head and sector name the LBA they come from, for every
geometry.  A kernel that is not of whole chunks never finds `chs_left` at 0 before
the ninth chunk, so it is `lost` or refused and never `loaded`.

Only model-checked:

- *Liveness* (`DeliveredUnderTraffic`, `InitEnds`, `EveryCallReturns` of `Ata` and of
  `Ahci`, `ScanEnds`, `LoadEnds`) and the four runs that end in a violation: the
  prover has no rules for fairness and `ENABLED`.  Every safety property that a run
  checks, every action property and both refinements are theorems.

The type invariant of `KeyboardInit` is proved (`TypeCorrect`) and no property of a
run; its buffers and bytes are what the other properties of that run speak of.

The invariants of the proofs that are not properties of a run were checked with TLC
on the instance of the run first.  Where the definitions of a model have several
cases they are written with `IF` or as disjunctions, because the SMT backend takes
no `CASE`.


## 5. What was observed and no run checks

Keyboard:

- `keyboard.c:156` tests bit 7 before line 174 tests for `0xE0`, so the prefix is
  taken for a break code and `extended` is never set.
- `keyboard.c:161`: with both shift keys down, releasing one ends the shift.
- `keyboard.c:134`: without a keyboard the wait for its first answer has no end.
  Keys typed during the dialogue shift the answers: two that imitate answers can
  hide a failed test or leave a wait without its byte.
- `keyboard_init` sets scan code set 1 in the keyboard and keeps the translation
  bit as the firmware left it; with translation on, the codes are translated
  twice.

ATA:

- `ata.c:112`, `ata.h:51`: every request selects the slave, whichever unit the disk
  is.  `ReadsAreFaithful` is about disks that are slaves.
- `ata.c:73-75` send bits 24-31 of an LBA48 in the register where a unit expects
  bits 40-47.  `Reachable` in `Ata` has the LBAs this leaves right.
- `ata.c:129`: a unit that answers after a time-out gives its answer to the next
  request, which takes it for its own.
- `ata.c:172` sends FLUSH CACHE while the unit stores the sector; the command is
  lost, and the result of the wait after it is ignored.

AHCI:

- `ahci.c:144`: the header of a command is cleared and the address of its table
  never set (run `ahci_table`).  The adapter takes what lies at address 0 for the
  command; with other bytes there it might do what nobody asked for.
- With the table in its place the FIS would still be read otherwise: it has the low
  bytes of the LBA in bytes 8 to 10, where a device reads bits 24 to 47, the high byte
  of the count in byte 11, and no 0x40 in the device byte of a 48-bit command
  (`ahci.c:193`).  `FisKeepsRequest` reads the bytes where the comments put them: it
  says that nothing of a request is lost, not that a device would find it.
- `ahci_port_start` clears ST only.  If the firmware left FRE on, the wait for the
  port to stop always runs out and the FIS area is replaced under a running FIS
  engine, against the comment of `ahci.c:100`.  `BasesChangeStopped` is about the list
  and its engine, and leaves out one that has not stopped when the wait is over.
- After a time-out the command stays in its slot, and the next call rewrites its
  structures; the properties of the commands leave such a port out (`exhausted`).
- `ahci.c:174`: the error bit is never cleared, so after one failed command every
  later one on that port fails.
- `ahci.c:170`: a command that the last poll sees complete is reported as failed.
- A count of 0, or one that wraps to 0 bytes (2^23), gives a buffer of 0 bytes and a
  PRD entry of 4 MiB; `PrdtFitsBuffer` leaves it out.
- The allocator starts at 16 MiB, `ahci_port_stop` is never called, and
  `pci_read32` writes the address port byte by byte.

PCI, console:

- `pci.c:217`: behind a bridge an empty slot is counted for it, and a table that
  fills inside nested calls is counted past its end by up to their depth.
- `vga.c:82`: a backspace does not go back to the row above, while the shell drops
  the character that is there.
- `vga.c:115`: `vga_printf` cuts at 255 characters, so an unknown command of 236
  characters or more has the next prompt on its own line.

Boot:

- The last chunk of the CHS read is never shortened.  Unless the kernel has a
  multiple of 16 sectors, the count passes 0 and the read goes on until a chunk
  comes down on stage 2 at 0x10000 or fails.  A kernel of more than 128 sectors
  reaches stage 2 as well; a 128th sector may be torn at the wrap of the offset.
- When the BIOS does not tell the geometry, that of a floppy disk is used for any
  drive, and wrong sectors are read.
- `stage1.asm:120` stores the boot drive at 0x7BFF and the next call overwrites it
  with its return address; the packet of stage 1 is not where DS:SI points, and
  its fallback loses the function number in AH.
- `stage2.asm`, after the loading: the far jump and the base of the GDT are
  truncated to 16 bits, a 64-bit code descriptor is used in 32-bit mode, the
  entries of the page directories are 4 bytes apart.
- `create_disk_image.cmake` puts stage 2 at sector 1 and the kernel at sector 17,
  and the loaders read them from 2 and 18; the `math(STRING LENGTH` of that script
  is not a CMake command.


## 6. Not modelled

- *Boot stage 1, the mode switches of stage 2, the image layout.*  Straight lines
  without choice or interleaving, whose flaws (section 5) are constants and
  encodings: a model would state them and nothing more.
- *The write accessors, `pci_enable_device` and the BAR helpers of `pci.c`*: nothing in
  the kernel calls them, so no state of the system depends on them.  What
  `pci_read_device_info` reads is what the device gives.
- *The colours of the console, the parsing of the arguments of `read`*: the first
  changes no property, the second gives any index, LBA and count.
- *`string.c`*: loops over bytes; its functions appear where their callers need
  what they do.
- *`boot/bootloader.asm`, `ai.c`, `system.c`, `ia.h`*: no build file uses them.
  *Build scripts*: no state.
- *The registers of the search for the HBA* (PCI class, BAR, GHC, CAP, PI): `Search`
  keeps whether there is a controller.
- *Time.*  A wait is a number of polls.  *Memory faults.*  The driver's structures
  are where it puts them.


## 7. Plan

Done: the keyboard with its initialisation, the ATA channel, the registry with
the AHCI driver, the PCI scan, the console and the shell, the loading of the
kernel; theorems about all of them.  Every safety property, action property and
refinement that a run checks is also a theorem.

`Ahci` has no abstract disk.  As the code is, no request of it reaches a disk
(`ahci_table`), so there is nothing to refine; what is checked is what the driver
writes, that it returns, and that its result of 0 comes from its own command.  Once
the address of the table is set, the refinement is what to add: the sectors that a
device stores and hands back, and a disk that takes those of a request in one step.
