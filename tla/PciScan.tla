------------------------------ MODULE PciScan -------------------------------
(***************************************************************************)
(* The enumeration of the PCI buses (kernel/pci.c): pci_scan_bus calls     *)
(* itself for the bus behind a bridge, after it has filled the slot        *)
(* pci_devices[pci_device_count] for the bridge and before it counts it.   *)
(*                                                                         *)
(* The calls in progress are a stack of frames; a step is one iteration of *)
(* the loop over the functions, cut where the recursive call is.           *)
(***************************************************************************)
EXTENDS Integers, Sequences, FiniteSets

CONSTANTS
    MAX_PCI_DEVICES,    \* slots of the table (32 in the code)
    DEVICES,            \* devices of a bus (32)
    FUNCTIONS,          \* functions of a device (8)
    Topologies          \* the machines: sets of functions on buses

\* A function at bus:device.function; "multi" is bit 7 of its header type,
\* and "secondary" the bus behind a bridge.  Class "none" is an unused slot.
FunctionType == [bus : 0..255, device : 0..(DEVICES - 1),
                 function : 0..(FUNCTIONS - 1), multi : BOOLEAN,
                 class : {"none", "endpoint", "bridge"}, secondary : 0..255]

ASSUME PciAssumption ==
    /\ MAX_PCI_DEVICES \in Nat \ {0}
    /\ DEVICES \in Nat \ {0} /\ FUNCTIONS \in Nat \ {0}
    /\ \A t \in Topologies : t \subseteq FunctionType /\ IsFiniteSet(t)
    /\ \A t \in Topologies : \A f, g \in t :       \* an address names one function
          f.bus = g.bus /\ f.device = g.device /\ f.function = g.function => f = g

VARIABLES
    topology,           \* the machine that is scanned
    pci_devices,        \* the table
    pci_device_count,
    frames              \* the calls of pci_scan_bus, outermost first

pciVars == <<topology, pci_devices, pci_device_count, frames>>

\* What memset leaves in a slot: zeros, with no vendor and no class
Zero == [bus |-> 0, device |-> 0, function |-> 0, multi |-> FALSE,
         class |-> "none", secondary |-> 0]

At(bus, device, function) ==
    {f \in topology : f.bus = bus /\ f.device = device /\ f.function = function}

\* pci_device_exists
Exists(bus, device, function) == At(bus, device, function) # {}

Call(bus) == [bus |-> bus, device |-> 0, function |-> 0,
              slot |-> -1, called |-> FALSE]

\* pci_init
Init ==
    /\ topology \in Topologies
    /\ pci_devices = [i \in 0..(MAX_PCI_DEVICES - 1) |-> Zero]
    /\ pci_device_count = 0
    /\ frames = <<Call(0)>>

-----------------------------------------------------------------------------

top == frames[Len(frames)]
Below == SubSeq(frames, 1, Len(frames) - 1)

\* Mutant of NextDevice: the device number never leaves the loop.
NextDeviceWraps(f) ==
    [f EXCEPT !.device = (@ + 1) % DEVICES, !.function = 0, !.called = FALSE]

NextDevice(f) == [f EXCEPT !.device = @ + 1, !.function = 0, !.called = FALSE]

\* Mutant of NextFunction: one function too many.
NextFunctionLate(f) ==
    IF f.function + 1 <= FUNCTIONS
    THEN [f EXCEPT !.function = @ + 1, !.called = FALSE]
    ELSE NextDevice(f)

NextFunction(f) ==
    IF f.function + 1 < FUNCTIONS
    THEN [f EXCEPT !.function = @ + 1, !.called = FALSE]
    ELSE NextDevice(f)

Scanning == frames # <<>> /\ ~top.called /\ top.device < DEVICES
Found == Exists(top.bus, top.device, top.function)

\* Mutant of Skip: a function that is missing ends its device.
SkipDevice ==
    /\ Scanning /\ ~Found
    /\ frames' = Append(Below, NextDevice(top))
    /\ UNCHANGED <<topology, pci_devices, pci_device_count>>

\* No device answers: go on with the next function.
Skip ==
    /\ Scanning /\ ~Found
    /\ frames' = Append(Below, NextFunction(top))
    /\ UNCHANGED <<topology, pci_devices, pci_device_count>>

\* The end of the loops, or a full table
Return ==
    /\ frames # <<>> /\ ~top.called
    /\ \/ top.device = DEVICES
       \/ Scanning /\ Found /\ pci_device_count >= MAX_PCI_DEVICES
    /\ frames' = Below
    /\ UNCHANGED <<topology, pci_devices, pci_device_count>>

\* pci_read_device_info fills the slot at the count; behind a bridge the scan
\* goes on first.
Fill ==
    /\ Scanning /\ Found
    /\ pci_device_count < MAX_PCI_DEVICES
    /\ \E dev \in At(top.bus, top.device, top.function) :
        /\ pci_devices' = [pci_devices EXCEPT ![pci_device_count] = dev]
        /\ LET filled == [top EXCEPT !.slot = pci_device_count, !.called = TRUE]
           IN  frames' = Append(Below, filled)
                         \o (IF dev.class = "bridge" THEN <<Call(dev.secondary)>> ELSE <<>>)
    /\ UNCHANGED <<topology, pci_device_count>>

\* Mutant of Count: the header type is not looked at.
CountEveryFunction ==
    /\ frames # <<>> /\ top.called
    /\ pci_device_count' = pci_device_count + 1
    /\ frames' = Append(Below, NextFunction(top))
    /\ UNCHANGED <<topology, pci_devices>>

\* What follows the recursive call: count the device, and read in its slot
\* whether it has more functions.
Count ==
    /\ frames # <<>> /\ top.called
    /\ pci_device_count' = pci_device_count + 1
    /\ frames' = Append(Below, IF top.function = 0 /\ ~pci_devices[top.slot].multi
                               THEN NextDevice(top) ELSE NextFunction(top))
    /\ UNCHANGED <<topology, pci_devices>>

Done == frames = <<>> /\ UNCHANGED pciVars

Next == Skip \/ Return \/ Fill \/ Count \/ Done

Spec == Init /\ [][Next]_pciVars
FairSpec == Spec /\ WF_pciVars(Next)

-----------------------------------------------------------------------------
(* The lookups                                                             *)

Matches(bus, device, function) ==
    {i \in 0..(pci_device_count - 1) :
        /\ pci_devices[i].bus = bus
        /\ pci_devices[i].device = device
        /\ pci_devices[i].function = function}

\* pci_get_device: the first slot that matches, MAX_PCI_DEVICES for none
pci_get_device(bus, device, function) ==
    LET m == Matches(bus, device, function)
    IN  IF m = {} THEN MAX_PCI_DEVICES
        ELSE CHOOSE i \in m : \A j \in m : i <= j

-----------------------------------------------------------------------------
(* Properties                                                              *)

TypeOK ==
    /\ topology \in Topologies
    /\ pci_devices \in [0..(MAX_PCI_DEVICES - 1) -> FunctionType]
    /\ pci_device_count \in Nat
    /\ \A i \in DOMAIN frames :
          /\ frames[i].slot \in -1..(MAX_PCI_DEVICES - 1)
          /\ frames[i].device \in 0..DEVICES
          /\ frames[i].function \in 0..(FUNCTIONS - 1)

\* The functions a scan of their bus is to find: function 0, and the others
\* of a device whose function 0 is missing or says there are more.
Visible(f) ==
    f.function = 0 \/ \A z \in At(f.bus, f.device, 0) : z.multi

Bridges == {f \in topology : f.class = "bridge"}

\* The buses that the bridges of a set lead to from bus 0: those of every set
\* of buses that holds bus 0 and is closed under the bridges
BusesBehind(bridges) ==
    LET buses == {0} \union {c.secondary : c \in bridges}
    IN  {b \in buses :
            \A S \in SUBSET buses :
                0 \in S /\ (\A c \in bridges : c.bus \in S => c.secondary \in S)
                    => b \in S}

\* The firmware has numbered the buses: each bridge leads to a bus of its own.
Numbered ==
    \A b, c \in Bridges : b.secondary # 0 /\ (b # c => b.secondary # c.secondary)

\* The scan is over, and neither the numbering nor the size of the table
\* cut it short.
Complete == frames = <<>> /\ Numbered /\ pci_device_count < MAX_PCI_DEVICES

\* Does function 0 of the device of f keep its slot while the device is
\* scanned?  (A bridge may lose it.)
Undisturbed(f) ==
    f.function = 0 \/ \A z \in At(f.bus, f.device, 0) : z.class # "bridge"

\* After a complete scan every endpoint is in the table exactly once, however
\* deep the recursive calls went, if it and the bridges that lead to it are
\* undisturbed: the slots that the calls share lose bridges only.
EndpointsFound ==
    Complete =>
        LET sound == {f \in topology : Visible(f) /\ Undisturbed(f)}
        IN  \A f \in sound :
              f.class = "endpoint" /\ f.bus \in BusesBehind(sound \intersect Bridges)
                => Cardinality({i \in 0..(pci_device_count - 1) :
                                    pci_devices[i] = f}) = 1

Before(f, g) == \/ f.bus < g.bus
                \/ f.bus = g.bus /\ f.device < g.device
                \/ f.bus = g.bus /\ f.device = g.device /\ f.function < g.function

\* Without a bridge on bus 0 the table is exactly the functions of the bus, in
\* order, up to the capacity of the table.
FlatScanIsExact ==
    (frames = <<>> /\ ~\E b \in Bridges : b.bus = 0)
        => LET all == {f \in topology : f.bus = 0 /\ Visible(f)}
               Rank(f) == Cardinality({g \in all : Before(g, f)})
           IN  /\ pci_device_count =
                     (IF Cardinality(all) < MAX_PCI_DEVICES
                      THEN Cardinality(all) ELSE MAX_PCI_DEVICES)
               /\ \A f \in all : Rank(f) < MAX_PCI_DEVICES
                                    => pci_devices[Rank(f)] = f

\* The scan ends in every machine, the ones whose bridges the firmware left at
\* bus 0 included, as long as another device comes before such a bridge.
ScanEnds == <>(frames = <<>>)

\* pci.c:220 stops after function 0 of a device "si pas multi-function": an
\* endpoint of a multi-function device of a scanned bus is found.
FunctionsScanned ==
    Complete =>
        LET visible == {f \in topology : Visible(f)}
        IN  \A f \in visible :
              f.class = "endpoint" /\ f.bus \in BusesBehind(visible \intersect Bridges)
                => pci_get_device(f.bus, f.device, f.function) # MAX_PCI_DEVICES

=============================================================================
