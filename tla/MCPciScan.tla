----------------------------- MODULE MCPciScan ------------------------------
(***************************************************************************)
(* Machines for TLC: buses of three devices with two functions.            *)
(***************************************************************************)
EXTENDS PciScan

Fn(bus, device, function, multi) ==
    [bus |-> bus, device |-> device, function |-> function, multi |-> multi,
     class |-> "endpoint", secondary |-> 0]
Bridge(bus, device, function, multi, secondary) ==
    [Fn(bus, device, function, multi) EXCEPT
        !.class = "bridge", !.secondary = secondary]

Host == Fn(0, 0, 0, FALSE)

\* Any functions on bus 0
FlatBus0 ==
    SUBSET {Fn(0, d, f, d = 1) : d \in 0..2, f \in 0..1}

\* A host bridge, then on bus 0 any of a plain and a multi-function endpoint
\* and any of three bridges; any endpoints on the buses behind them.
Firmware ==
    {{Host} \union t : t \in SUBSET
        {Fn(0, 1, 1, FALSE), Bridge(0, 1, 0, TRUE, 1), Bridge(0, 2, 1, FALSE, 2),
         Fn(0, 2, 0, TRUE),
         Fn(1, 0, 0, FALSE), Bridge(1, 1, 0, FALSE, 3), Fn(1, 2, 0, TRUE),
         Fn(1, 2, 1, TRUE), Fn(2, 1, 0, FALSE), Fn(3, 0, 0, FALSE),
         Fn(3, 1, 1, FALSE)}}

\* Bridges that the firmware did not number lead back to bus 0.
Unnumbered ==
    {{Host} \union t : t \in SUBSET
        {Fn(0, 1, 0, TRUE), Bridge(0, 1, 1, FALSE, 0), Bridge(0, 2, 0, FALSE, 0),
         Bridge(0, 2, 1, FALSE, 1), Fn(1, 1, 0, FALSE)}}

AllMachines == FlatBus0 \union Firmware \union Unnumbered

=============================================================================
