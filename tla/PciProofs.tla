------------------------------ MODULE PciProofs ------------------------------
(***************************************************************************)
(* What holds of the scan for every machine, however its bridges are       *)
(* numbered: the table is never written outside its slots, and the loops   *)
(* stay in their ranges.  For every machine without a bridge on bus 0: the *)
(* table is the functions of the bus, in their order.  And for every       *)
(* machine whose bridges each lead to a bus of its own: the endpoints      *)
(* behind the bridges are in the table once.                               *)
(***************************************************************************)
EXTENDS PciScan, SequenceTheorems, FiniteSetTheorems, TLAPS

FrameType == [bus : 0..255, device : 0..DEVICES, function : 0..(FUNCTIONS - 1),
              slot : -1..(MAX_PCI_DEVICES - 1), called : BOOLEAN]

\* A call that has filled a slot is still inside its loop.
Frame == {f \in FrameType : f.called => f.device < DEVICES}

Inv ==
    /\ topology \in Topologies
    /\ pci_devices \in [0..(MAX_PCI_DEVICES - 1) -> FunctionType]
    /\ pci_device_count \in Nat
    /\ frames \in Seq(Frame)

LEMMA Sizes ==
    /\ MAX_PCI_DEVICES \in Nat \ {0} /\ DEVICES \in Nat \ {0} /\ FUNCTIONS \in Nat \ {0}
    /\ \A t \in Topologies : t \subseteq FunctionType
BY PciAssumption

LEMMA CallType == ASSUME NEW bus \in 0..255 PROVE Call(bus) \in Frame
BY Sizes DEF Call, Frame, FrameType

\* The frames split into the last call and the ones it came from.
LEMMA TopType ==
    ASSUME Inv, frames # <<>>
    PROVE  top \in Frame /\ Below \in Seq(Frame)
<1>1. frames \in Seq(Frame) /\ Len(frames) \in Nat \ {0}
  BY EmptySeq, LenProperties DEF Inv
<1>2. top \in Frame
  BY <1>1, ElementOfSeq DEF top
<1>3. Below \in Seq(Frame)
  BY <1>1, SubSeqProperties DEF Below
<1> QED BY <1>2, <1>3

\* Going on keeps the loops in their ranges.
LEMMA GoOnType ==
    ASSUME NEW f \in Frame, f.device < DEVICES
    PROVE  NextDevice(f) \in Frame /\ NextFunction(f) \in Frame
<1>1. f \in FrameType /\ f.device + 1 \in 0..DEVICES /\ 0 \in 0..(FUNCTIONS - 1)
  BY Sizes DEF Frame, FrameType
<1>2. NextDevice(f) \in Frame
  BY <1>1 DEF NextDevice, Frame, FrameType
<1>3. NextFunction(f) \in Frame
  <2>1. CASE f.function + 1 < FUNCTIONS
    <3>1. f.function + 1 \in 0..(FUNCTIONS - 1)
      BY <1>1, <2>1, Sizes DEF FrameType
    <3> QED BY ZenonT(40), <1>1, <2>1, <3>1 DEF NextFunction, Frame, FrameType
  <2>2. CASE ~ (f.function + 1 < FUNCTIONS)
    BY <1>2, <2>2 DEF NextFunction
  <2> QED BY <2>1, <2>2
<1> QED BY <1>2, <1>3

LEMMA InitInv == Init => Inv
<1> SUFFICES ASSUME Init PROVE Inv
  OBVIOUS
<1>1. Zero \in FunctionType
  BY Sizes DEF Zero, FunctionType
<1>2. <<Call(0)>> \in Seq(Frame)
  BY CallType
<1> QED BY <1>1, <1>2 DEF Init, Inv

LEMMA InvStep == Inv /\ [Next]_pciVars => Inv'
<1> SUFFICES ASSUME Inv, [Next]_pciVars PROVE Inv'
  OBVIOUS
<1>1. CASE Skip
  <2>1. frames # <<>> /\ top.device < DEVICES
    BY <1>1 DEF Skip, Scanning
  <2>2. Append(Below, NextFunction(top)) \in Seq(Frame)
    BY <2>1, TopType, GoOnType, AppendProperties
  <2> QED BY <1>1, <2>2 DEF Skip, Inv
<1>2. CASE Return
  BY <1>2, TopType DEF Return, Inv
<1>3. CASE Fill
  <2>1. frames # <<>> /\ top.device < DEVICES /\ top \in Frame /\ Below \in Seq(Frame)
    BY <1>3, TopType DEF Fill, Scanning
  <2>2. pci_device_count \in 0..(MAX_PCI_DEVICES - 1)
    BY <1>3, Sizes DEF Fill, Inv
  <2> DEFINE filled == [top EXCEPT !.slot = pci_device_count, !.called = TRUE]
  <2>3. filled \in Frame
    <3>1. top \in FrameType /\ pci_device_count \in -1..(MAX_PCI_DEVICES - 1)
      BY <2>1, <2>2, Sizes DEF Frame
    <3>2. filled \in FrameType /\ filled.device = top.device
      BY <3>1 DEF FrameType
    <3> QED BY <2>1, <3>2 DEF Frame
  <2> HIDE DEF filled
  <2>4. PICK dev \in At(top.bus, top.device, top.function) :
          /\ pci_devices' = [pci_devices EXCEPT ![pci_device_count] = dev]
          /\ frames' = Append(Below, filled)
                       \o (IF dev.class = "bridge" THEN <<Call(dev.secondary)>> ELSE <<>>)
    BY <1>3 DEF Fill, filled
  <2>5. dev \in FunctionType
    BY <2>4, Sizes DEF At, Inv
  <2>6. <<Call(dev.secondary)>> \in Seq(Frame)
    BY <2>5, CallType DEF FunctionType
  <2>7. Append(Below, filled) \in Seq(Frame)
    BY <2>1, <2>3, AppendProperties
  <2>8. frames' \in Seq(Frame)
    BY <2>4, <2>6, <2>7, ConcatProperties
  <2>9. pci_devices' \in [0..(MAX_PCI_DEVICES - 1) -> FunctionType]
    BY <2>2, <2>4, <2>5 DEF Inv
  <2> QED BY <1>3, <2>8, <2>9 DEF Fill, Inv
<1>4. CASE Count
  <2>1. frames # <<>> /\ top \in Frame /\ Below \in Seq(Frame) /\ top.device < DEVICES
    BY <1>4, TopType DEF Count, Frame
  <2>2. Append(Below, NextDevice(top)) \in Seq(Frame)
        /\ Append(Below, NextFunction(top)) \in Seq(Frame)
    BY <2>1, GoOnType, AppendProperties
  <2>3. frames' \in Seq(Frame)
    BY <1>4, <2>2 DEF Count
  <2> QED BY <1>4, <2>3 DEF Count, Inv
<1>5. CASE UNCHANGED pciVars
  BY <1>5 DEF pciVars, Inv
<1> QED BY <1>1, <1>2, <1>3, <1>4, <1>5 DEF Next, Done

\* Whatever the machine, the table is written inside its slots only and the
\* loops over devices and functions stay in their ranges.
THEOREM PciTypeCorrect == Spec => []TypeOK
<1>1. Inv => TypeOK
  <2> SUFFICES ASSUME Inv PROVE TypeOK
    OBVIOUS
  <2>1. \A i \in DOMAIN frames : frames[i] \in FrameType
    BY ElementOfSeq DEF Inv, Frame
  <2> QED BY <2>1 DEF Inv, TypeOK, FrameType
<1> QED BY <1>1, InitInv, InvStep, PTL DEF Spec

-----------------------------------------------------------------------------
(* A machine without a bridge on bus 0                                     *)

Flat == ~\E b \in Bridges : b.bus = 0
Listed == {f \in topology : f.bus = 0 /\ Visible(f)}
Earlier(f) == {g \in Listed : Before(g, f)}

\* The functions that the loops of bus 0 have left behind
Seen(device, function) ==
    {g \in Listed : \/ g.device < device
                    \/ g.device = device /\ g.function < function}

\* The table is what has been seen; in a call, the slot at the count too.
Listing(t) ==
    /\ t.bus = 0
    /\ t.function # 0 => \A z \in At(0, t.device, 0) : z.multi
    /\ pci_device_count <= MAX_PCI_DEVICES
    /\ pci_device_count = Cardinality(Seen(t.device, t.function))
    /\ \A f \in Seen(t.device, t.function) : pci_devices[Cardinality(Earlier(f))] = f
    /\ t.called => /\ pci_device_count < MAX_PCI_DEVICES
                   /\ t.slot = pci_device_count
                   /\ pci_devices[pci_device_count] \in At(0, t.device, t.function)

FlatInv ==
    Flat => /\ frames # <<>> => Len(frames) = 1 /\ Listing(frames[1])
            /\ FlatScanIsExact

LEMMA ListedFacts ==
    ASSUME Inv
    PROVE  /\ IsFiniteSet(topology) /\ topology \subseteq FunctionType
           /\ Listed \subseteq FunctionType /\ IsFiniteSet(Listed)
           /\ \A S \in SUBSET Listed :
                 IsFiniteSet(S) /\ Cardinality(S) \in Nat
           /\ \A f, g \in topology :
                 f.bus = g.bus /\ f.device = g.device /\ f.function = g.function => f = g
           /\ \A f \in Listed : f.bus = 0
<1>1. topology \in Topologies
  BY DEF Inv
<1>2. /\ IsFiniteSet(topology) /\ topology \subseteq FunctionType
      /\ \A f, g \in topology :
            f.bus = g.bus /\ f.device = g.device /\ f.function = g.function => f = g
  BY <1>1, PciAssumption
<1>3. Listed \subseteq topology
  BY DEF Listed
<1>4. \A S \in SUBSET Listed : IsFiniteSet(S) /\ Cardinality(S) \in Nat
  BY <1>2, <1>3, FS_Subset, FS_CardinalityType
<1>5. Listed \in SUBSET Listed
  OBVIOUS
<1> QED BY <1>2, <1>3, <1>4, <1>5 DEF Listed

\* The rank of a function that has been seen is below their number; the rank
\* of one that has not is not.
LEMMA RankOfSeen ==
    ASSUME Inv, NEW device \in 0..DEVICES, NEW function \in 0..(FUNCTIONS - 1),
           NEW f \in Listed
    PROVE  /\ f \in Seen(device, function)
                => Cardinality(Earlier(f)) < Cardinality(Seen(device, function))
           /\ f \notin Seen(device, function)
                => Cardinality(Earlier(f)) >= Cardinality(Seen(device, function))
<1> DEFINE S == Seen(device, function)
<1>1. S \in SUBSET Listed /\ Earlier(f) \in SUBSET Listed
  BY DEF Seen, Earlier
<1>2. /\ IsFiniteSet(S) /\ IsFiniteSet(Earlier(f))
      /\ Cardinality(S) \in Nat /\ Cardinality(Earlier(f)) \in Nat
  BY <1>1, ListedFacts
<1>3. \A g \in Listed : /\ g.bus = 0 /\ g.device \in Nat /\ g.function \in Nat
  BY ListedFacts, Sizes DEF FunctionType
<1>4. CASE f \in S
  <2>1. Earlier(f) \subseteq S
    <3>1. ASSUME NEW g \in Earlier(f) PROVE g \in S
      <4>1. /\ g \in Listed /\ g.bus = 0 /\ g.device \in Nat /\ g.function \in Nat
            /\ f.bus = 0 /\ f.device \in Nat /\ f.function \in Nat
            /\ device \in Nat /\ function \in Nat
        BY <1>3, Sizes DEF Earlier
      <4>2. \/ g.device < f.device
            \/ g.device = f.device /\ g.function < f.function
        BY <4>1 DEF Earlier, Before
      <4>3. \/ f.device < device
            \/ f.device = device /\ f.function < function
        BY <1>4 DEF Seen
      <4>4. \/ g.device < device
            \/ g.device = device /\ g.function < function
        BY <4>1, <4>2, <4>3
      <4> QED BY <4>1, <4>4 DEF Seen
    <3> QED BY <3>1
  <2>2. f \notin Earlier(f)
    BY <1>3 DEF Earlier, Before
  <2>3. Cardinality(Earlier(f)) < Cardinality(S)
    BY <1>2, <1>4, <2>1, <2>2, FS_Subset
  <2> QED BY <1>4, <2>3
<1>5. CASE f \notin S
  <2>1. S \subseteq Earlier(f)
    <3>1. ASSUME NEW g \in S PROVE g \in Earlier(f)
      <4>1. /\ g \in Listed /\ g.bus = 0 /\ g.device \in Nat /\ g.function \in Nat
            /\ f.bus = 0 /\ f.device \in Nat /\ f.function \in Nat
            /\ device \in Nat /\ function \in Nat
        BY <1>1, <1>3, Sizes
      <4>2. \/ g.device < device
            \/ g.device = device /\ g.function < function
        BY <3>1 DEF Seen
      <4>3. ~(\/ f.device < device
              \/ f.device = device /\ f.function < function)
        BY <1>5 DEF Seen
      <4>4. \/ g.device < f.device
            \/ g.device = f.device /\ g.function < f.function
        BY <4>1, <4>2, <4>3
      <4> QED BY <4>1, <4>4 DEF Earlier, Before
    <3> QED BY <3>1
  <2>2. Cardinality(S) <= Cardinality(Earlier(f))
    BY <1>2, <2>1, FS_Subset
  <2> QED BY <1>2, <1>5, <2>2
<1> QED BY <1>4, <1>5

\* Going on from a function adds it, and it alone, to what has been seen.
LEMMA SeenMore ==
    ASSUME Inv, NEW t \in Frame, t.bus = 0, t.device < DEVICES,
           t.function # 0 => \A z \in At(0, t.device, 0) : z.multi,
           NEW n, \/ n = NextFunction(t)
                  \/ /\ n = NextDevice(t) /\ t.function = 0
                     /\ \E z \in At(0, t.device, 0) : ~z.multi
    PROVE  /\ At(0, t.device, t.function) \subseteq Listed
           /\ Seen(n.device, n.function)
                = Seen(t.device, t.function) \union At(0, t.device, t.function)
           /\ \A z \in At(0, t.device, t.function) :
                 Earlier(z) = Seen(t.device, t.function)
           /\ At(0, t.device, t.function) \intersect Seen(t.device, t.function) = {}
           /\ n.bus = 0 /\ ~n.called
<1>1. /\ t.device \in 0..(DEVICES - 1) /\ t.function \in 0..(FUNCTIONS - 1)
      /\ t.device \in Nat /\ t.function \in Nat
  BY Sizes DEF Frame, FrameType
<1>2. At(0, t.device, t.function) \subseteq Listed
  BY DEF At, Listed, Visible
<1>3. \A g \in Listed : /\ g.bus = 0 /\ g.device \in Nat /\ g.function \in Nat
                        /\ g.function < FUNCTIONS /\ g \in topology
  BY ListedFacts, Sizes DEF FunctionType, Listed
<1>4. \A g : g \in At(0, t.device, t.function)
               <=> g \in Listed /\ g.device = t.device /\ g.function = t.function
  BY <1>2, <1>3 DEF At
<1>5. \A z \in At(0, t.device, t.function) :
         Earlier(z) = Seen(t.device, t.function)
  <2>1. ASSUME NEW z \in At(0, t.device, t.function), NEW g \in Listed
        PROVE  g \in Earlier(z) <=> g \in Seen(t.device, t.function)
    <3>1. z \in Listed /\ z.device = t.device /\ z.function = t.function /\ z.bus = 0
          /\ g.bus = 0
      BY <1>2, <1>3, <1>4
    <3> QED BY <3>1 DEF Earlier, Seen, Before
  <2> QED BY <2>1 DEF Earlier, Seen
<1>6. At(0, t.device, t.function) \intersect Seen(t.device, t.function) = {}
  BY <1>1, <1>4 DEF Seen
<1>7. /\ n.bus = 0 /\ ~n.called
      /\ \/ n.device = t.device /\ n.function = t.function + 1
         \/ /\ n.device = t.device + 1 /\ n.function = 0
            /\ \/ t.function + 1 = FUNCTIONS
               \/ t.function = 0 /\ \E z \in At(0, t.device, 0) : ~z.multi
  <2>1. t \in FrameType
    BY DEF Frame
  <2>2. NextDevice(t) = [t EXCEPT !.device = t.device + 1, !.function = 0, !.called = FALSE]
    BY <2>1 DEF NextDevice, FrameType
  <2>3. CASE t.function + 1 < FUNCTIONS /\ n = NextFunction(t)
    <3>1. n = [t EXCEPT !.function = t.function + 1, !.called = FALSE]
      BY <2>1, <2>3 DEF NextFunction, FrameType
    <3> QED BY <2>1, <3>1 DEF FrameType
  <2>4. CASE ~(t.function + 1 < FUNCTIONS) /\ n = NextFunction(t)
    <3>1. n = NextDevice(t) /\ t.function + 1 = FUNCTIONS
      BY <1>1, <2>4, Sizes DEF NextFunction
    <3> QED BY <2>1, <2>2, <3>1 DEF FrameType
  <2>5. CASE /\ n = NextDevice(t) /\ t.function = 0
             /\ \E z \in At(0, t.device, 0) : ~z.multi
    BY <2>1, <2>2, <2>5 DEF FrameType
  <2> QED BY <2>3, <2>4, <2>5
<1>8. ASSUME NEW g \in Listed
      PROVE  g \in Seen(n.device, n.function)
               <=> \/ g \in Seen(t.device, t.function)
                   \/ g.device = t.device /\ g.function = t.function
  <2>0. /\ g.device \in Nat /\ g.function \in Nat /\ g.function < FUNCTIONS
        /\ g.bus = 0
    BY <1>3
  <2>1. CASE n.device = t.device /\ n.function = t.function + 1
    BY <1>1, <2>0, <2>1 DEF Seen
  <2>2. CASE n.device = t.device + 1 /\ n.function = 0 /\ t.function + 1 = FUNCTIONS
    BY <1>1, <2>0, <2>2, Sizes DEF Seen
  <2>3. CASE /\ n.device = t.device + 1 /\ n.function = 0
             /\ t.function = 0 /\ \E z \in At(0, t.device, 0) : ~z.multi
    <3>1. g.device = t.device => g.function = 0
      BY <2>0, <2>3 DEF Listed, Visible
    <3> QED BY <1>1, <2>0, <2>3, <3>1 DEF Seen
  <2> QED BY <1>7, <2>1, <2>2, <2>3
<1>9. Seen(n.device, n.function)
        = Seen(t.device, t.function) \union At(0, t.device, t.function)
  BY <1>4, <1>8 DEF Seen
<1> QED BY <1>2, <1>5, <1>6, <1>7, <1>9

LEMMA FlatInit == Init => FlatInv
<1> SUFFICES ASSUME Init PROVE FlatInv
  OBVIOUS
<1>1. Inv
  BY InitInv
<1>2. Len(frames) = 1 /\ frames[1] = Call(0) /\ frames # <<>>
  BY DEF Init
<1>3. Seen(0, 0) = {}
  BY ListedFacts, <1>1, Sizes DEF Seen, FunctionType
<1>4. Cardinality(Seen(0, 0)) = 0
  BY <1>3, FS_EmptySet
<1>5. Listing(frames[1])
  BY <1>2, <1>3, <1>4, Sizes DEF Listing, Call, Init
<1> QED BY <1>2, <1>5 DEF FlatInv, FlatScanIsExact

LEMMA FlatReturn ==
    ASSUME Inv, NEW t, frames = <<t>>, t \in Frame, Listing(t), Return
    PROVE  frames' = <<>> /\ FlatScanIsExact'
<1>1. /\ top = t /\ frames' = <<>> /\ ~t.called
      /\ UNCHANGED <<topology, pci_devices, pci_device_count>>
  <2>1. Len(frames) = 1 /\ top = t
    BY DEF top
  <2>2. Below = <<>>
    BY <2>1 DEF Below
  <2> QED BY <2>1, <2>2 DEF Return
<1>2. /\ t.device \in 0..DEVICES /\ t.function \in 0..(FUNCTIONS - 1)
      /\ MAX_PCI_DEVICES \in Nat \ {0} /\ pci_device_count \in Nat
  BY Sizes DEF Frame, FrameType, Inv
<1> DEFINE S == Seen(t.device, t.function)
<1>3. /\ S \in SUBSET Listed /\ Listed \in SUBSET Listed
      /\ pci_device_count = Cardinality(S) /\ pci_device_count <= MAX_PCI_DEVICES
      /\ \A f \in S : pci_devices[Cardinality(Earlier(f))] = f
  BY DEF Seen, Listing
<1>4. /\ IsFiniteSet(Listed) /\ Cardinality(Listed) \in Nat
      /\ Cardinality(S) \in Nat
  BY <1>3, ListedFacts
<1>5. \A f \in Listed : f \notin S => Cardinality(Earlier(f)) >= Cardinality(S)
  BY <1>2, RankOfSeen
<1>6. /\ pci_device_count = (IF Cardinality(Listed) < MAX_PCI_DEVICES
                             THEN Cardinality(Listed) ELSE MAX_PCI_DEVICES)
      /\ \A f \in Listed : Cardinality(Earlier(f)) < MAX_PCI_DEVICES
                              => pci_devices[Cardinality(Earlier(f))] = f
  <2>1. CASE t.device = DEVICES
    <3>1. \A g \in Listed : g.device < DEVICES
      BY ListedFacts, Sizes DEF FunctionType
    <3>2. S = Listed
      BY <2>1, <3>1 DEF Seen
    <3> QED BY <1>2, <1>3, <1>4, <3>2
  <2>2. CASE Scanning /\ Found /\ pci_device_count >= MAX_PCI_DEVICES
    <3>1. pci_device_count = MAX_PCI_DEVICES
      BY <1>2, <1>3, <2>2
    <3>2. S \subseteq Listed
      BY <1>3
    <3>3. Cardinality(S) <= Cardinality(Listed)
      BY <1>4, <3>2, FS_Subset
    <3>4. \A f \in Listed : Cardinality(Earlier(f)) < MAX_PCI_DEVICES => f \in S
      <4>1. \A f \in Listed : Cardinality(Earlier(f)) \in Nat
        BY ListedFacts DEF Earlier
      <4> QED BY <1>2, <1>3, <1>5, <3>1, <4>1
    <3>5. ~(Cardinality(Listed) < MAX_PCI_DEVICES)
      BY <1>2, <1>3, <1>4, <3>1, <3>3
    <3> QED BY <1>3, <3>1, <3>4, <3>5
  <2> QED BY <1>1, <2>1, <2>2 DEF Return
<1>7. Listed' = Listed /\ \A f : Earlier(f)' = Earlier(f)
  BY <1>1 DEF Listed, Earlier, Visible, At, Before
<1>8. frames' = <<>>
  BY <1>1
<1> HIDE DEF S
<1>9. FlatScanIsExact'
  BY <1>1, <1>6, <1>7 DEF FlatScanIsExact, Listed, Earlier, Visible, At, Before
<1> QED BY <1>8, <1>9

LEMMA FlatStep == Inv /\ FlatInv /\ [Next]_pciVars => FlatInv'
<1> SUFFICES ASSUME Inv, FlatInv, [Next]_pciVars, Flat' PROVE FlatInv'
  BY DEF FlatInv
<1>0. /\ topology' = topology /\ Flat
      /\ Listed' = Listed /\ (\A f : Earlier(f)' = Earlier(f))
      /\ \A d, n : Seen(d, n)' = Seen(d, n) /\ At(0, d, n)' = At(0, d, n)
  BY DEF Next, Skip, Return, Fill, Count, Done, pciVars, Flat, Bridges, Listed, Earlier,
      Seen, Visible, At
<1>1. CASE UNCHANGED pciVars
  BY <1>0, <1>1 DEF pciVars, FlatInv, FlatScanIsExact, Listing, Flat, Bridges, Visible, At
<1>2. CASE frames # <<>> /\ ~UNCHANGED pciVars
  <2>0. PICK t : t = frames[1]
    OBVIOUS
  <2>1. Len(frames) = 1 /\ Listing(t) /\ frames \in Seq(Frame)
    BY <1>0, <1>2, <2>0 DEF FlatInv, Inv
  <2>2. /\ t \in Frame /\ frames = <<t>> /\ top = t /\ Below = <<>>
        /\ t.bus = 0 /\ t.device \in 0..DEVICES /\ t.function \in 0..(FUNCTIONS - 1)
        /\ pci_device_count \in Nat /\ MAX_PCI_DEVICES \in Nat \ {0}
    <3>1. t \in Frame /\ frames = <<t>> /\ top = t
      BY <2>0, <2>1 DEF top
    <3>2. Below = <<>>
      BY <2>1 DEF Below
    <3> QED BY <2>1, <3>1, <3>2, Sizes DEF Listing, Frame, FrameType, Inv
  <2>3. /\ \A f \in Listed : f.bus = 0
        /\ \A S \in SUBSET Listed : IsFiniteSet(S) /\ Cardinality(S) \in Nat
        /\ \A f, g \in At(0, t.device, t.function) : f = g
        /\ Seen(t.device, t.function) \in SUBSET Listed
    BY ListedFacts DEF Seen, At
  <2>L. /\ t.function # 0 => \A z \in At(0, t.device, 0) : z.multi
        /\ pci_device_count <= MAX_PCI_DEVICES
        /\ pci_device_count = Cardinality(Seen(t.device, t.function))
        /\ \A f \in Seen(t.device, t.function) : pci_devices[Cardinality(Earlier(f))] = f
        /\ t.called => /\ pci_device_count < MAX_PCI_DEVICES
                       /\ t.slot = pci_device_count
                       /\ pci_devices[pci_device_count] \in At(0, t.device, t.function)
    BY <2>1 DEF Listing
  <2>4. CASE Skip
    <3>0. PICK n : n = NextFunction(t)
      OBVIOUS
    <3>1. /\ t.device < DEVICES /\ ~t.called /\ At(0, t.device, t.function) = {}
          /\ frames' = <<n>> /\ UNCHANGED <<pci_devices, pci_device_count>>
      <4>1. Append(Below, n) = <<n>>
        BY <2>2
      <4> QED BY <2>2, <2>4, <3>0, <4>1 DEF Skip, Scanning, Found, Exists
    <3>2. /\ Seen(n.device, n.function) = Seen(t.device, t.function)
          /\ n.bus = 0 /\ ~n.called
      BY ZenonT(40), <2>2, <2>L, <3>0, <3>1, SeenMore
    <3>3. n.function # 0 => \A z \in At(0, n.device, 0) : z.multi
      <4>1. t \in FrameType
        BY <2>2 DEF Frame
      <4>2. n.function = 0 \/ n.device = t.device
        BY <3>0, <4>1 DEF NextFunction, NextDevice, FrameType
      <4> QED BY <2>L, <3>1, <4>2
    <3>4. Len(frames') = 1 /\ frames'[1] = n /\ frames' # <<>>
      BY <3>1
    <3>5. Listing(n)'
      BY <1>0, <2>L, <3>1, <3>2, <3>3 DEF Listing
    <3> QED BY <3>4, <3>5 DEF FlatInv, FlatScanIsExact
  <2>5. CASE Return
    BY <2>1, <2>2, <2>5, FlatReturn DEF FlatInv
  <2>6. CASE Fill
    <3>0. PICK n : n = [t EXCEPT !.slot = pci_device_count, !.called = TRUE]
      OBVIOUS
    <3>1. PICK dev \in At(0, t.device, t.function) :
            /\ pci_devices' = [pci_devices EXCEPT ![pci_device_count] = dev]
            /\ frames' = Append(Below, n)
                       \o (IF dev.class = "bridge" THEN <<Call(dev.secondary)>> ELSE <<>>)
      BY <2>2, <2>6, <3>0 DEF Fill
    <3>2. dev \in topology /\ dev.bus = 0
      BY <3>1 DEF At
    <3>3. dev.class # "bridge"
      BY <1>0, <3>2 DEF Flat, Bridges
    <3>4. /\ n.bus = 0 /\ n.device = t.device /\ n.function = t.function
          /\ n.slot = pci_device_count /\ n.called
      BY <2>2, <3>0 DEF Frame, FrameType
    <3>5. frames' = <<n>>
      <4>1. Append(Below, n) = <<n>>
        BY <2>2
      <4>2. frames' = <<n>> \o <<>>
        BY <3>1, <3>3, <4>1
      <4> QED BY <4>2
    <3>6. Len(frames') = 1 /\ frames'[1] = n /\ frames' # <<>>
      BY <3>5
    <3>7. /\ pci_device_count < MAX_PCI_DEVICES /\ pci_device_count' = pci_device_count
          /\ pci_devices'[pci_device_count] = dev
          /\ \A f \in Seen(t.device, t.function) :
                pci_devices'[Cardinality(Earlier(f))] = f
      <4>1. pci_device_count < MAX_PCI_DEVICES /\ pci_device_count' = pci_device_count
        BY <2>6 DEF Fill
      <4>2. pci_device_count \in 0..(MAX_PCI_DEVICES - 1)
        BY <2>2, <4>1
      <4>3. pci_devices'[pci_device_count] = dev
        BY <3>1, <4>2 DEF Inv
      <4>4. ASSUME NEW f \in Seen(t.device, t.function)
            PROVE  pci_devices'[Cardinality(Earlier(f))] = f
        <5>1. f \in Listed /\ Earlier(f) \in SUBSET Listed
          BY <2>3 DEF Earlier
        <5>2. Cardinality(Earlier(f)) < pci_device_count
          BY <2>2, <2>L, <5>1, <4>4, RankOfSeen
        <5>3. Cardinality(Earlier(f)) \in 0..(MAX_PCI_DEVICES - 1)
              /\ Cardinality(Earlier(f)) # pci_device_count
          BY <2>2, <2>3, <4>1, <5>1, <5>2
        <5> QED BY <2>L, <3>1, <4>4, <5>3 DEF Inv
      <4> QED BY <4>1, <4>3, <4>4
    <3>8. Listing(n)'
      BY <1>0, <2>2, <2>L, <3>1, <3>4, <3>7 DEF Listing
    <3> QED BY <3>6, <3>8 DEF FlatInv, FlatScanIsExact
  <2>7. CASE Count
    <3>d. PICK dev : dev = pci_devices[pci_device_count]
      OBVIOUS
    <3>n. PICK n : n = IF t.function = 0 /\ ~dev.multi THEN NextDevice(t) ELSE NextFunction(t)
      OBVIOUS
    <3>1. /\ t.called /\ t.slot = pci_device_count /\ t.device < DEVICES
          /\ dev \in At(0, t.device, t.function)
          /\ frames' = <<n>> /\ pci_devices' = pci_devices
          /\ pci_device_count' = pci_device_count + 1
          /\ pci_device_count < MAX_PCI_DEVICES
      <4>1. t.called
        BY <2>2, <2>7 DEF Count
      <4>2. Append(Below, n) = <<n>>
        BY <2>2
      <4> QED BY <2>2, <2>L, <2>7, <3>d, <3>n, <4>1, <4>2 DEF Count, Frame
    <3>2. /\ At(0, t.device, t.function) \subseteq Listed
          /\ Seen(n.device, n.function)
                = Seen(t.device, t.function) \union At(0, t.device, t.function)
          /\ Earlier(dev) = Seen(t.device, t.function)
          /\ dev \notin Seen(t.device, t.function)
          /\ n.bus = 0 /\ ~n.called
      <4>1. \/ n = NextFunction(t)
            \/ /\ n = NextDevice(t) /\ t.function = 0
               /\ \E z \in At(0, t.device, 0) : ~z.multi
        BY <3>n, <3>1
      <4> QED BY <2>2, <2>L, <3>1, <4>1, SeenMore
    <3>3. n.function # 0 => \A z \in At(0, n.device, 0) : z.multi
      <4>1. t \in FrameType
        BY <2>2 DEF Frame
      <4>2. n.function = 0 \/ (n = NextFunction(t) /\ n.device = t.device)
        BY <3>n, <4>1 DEF NextFunction, NextDevice, FrameType
      <4>3. CASE n.function # 0 /\ t.function = 0
        <5>1. dev.multi /\ n.device = t.device
          BY <3>n, <4>1, <4>3 DEF NextFunction, NextDevice, FrameType
        <5> QED BY <2>3, <3>1, <4>3, <5>1
      <4>4. CASE n.function # 0 /\ t.function # 0
        BY <2>L, <4>2, <4>4
      <4> QED BY <4>3, <4>4
    <3>4. At(0, t.device, t.function) = {dev}
      BY <2>3, <3>1
    <3>5. Cardinality(Seen(n.device, n.function)) = pci_device_count + 1
      <4>1. IsFiniteSet(Seen(t.device, t.function))
        BY <2>3
      <4>2. Cardinality(Seen(t.device, t.function) \union {dev})
              = Cardinality(Seen(t.device, t.function)) + 1
        BY <3>2, <4>1, FS_AddElement
      <4>3. Seen(n.device, n.function) = Seen(t.device, t.function) \union {dev}
        BY <3>2, <3>4
      <4> QED BY <2>L, <4>2, <4>3
    <3>6. \A f \in Seen(n.device, n.function) : pci_devices[Cardinality(Earlier(f))] = f
      <4>1. pci_devices[Cardinality(Earlier(dev))] = dev
        BY <2>L, <3>2, <3>d
      <4> QED BY <2>L, <3>2, <3>4, <4>1
    <3>7. Len(frames') = 1 /\ frames'[1] = n /\ frames' # <<>>
      BY <3>1
    <3>8. pci_device_count' <= MAX_PCI_DEVICES
      BY <2>2, <3>1
    <3>9. Listing(n)'
      BY <1>0, <3>1, <3>2, <3>3, <3>5, <3>6, <3>8 DEF Listing
    <3> QED BY <3>7, <3>9 DEF FlatInv, FlatScanIsExact
  <2> QED BY <1>2, <2>4, <2>5, <2>6, <2>7 DEF Next, Done
<1>3. CASE frames = <<>> /\ ~UNCHANGED pciVars
  BY <1>3 DEF Next, Skip, Return, Fill, Count, Done, Scanning
<1> QED BY <1>1, <1>2, <1>3

\* In a machine without a bridge on bus 0 the table is exactly the functions
\* of the bus in their order, as many as the table holds: the loops and the
\* test of the header type miss none and list none twice (pci_scan_bus).
THEOREM FlatScanCorrect == Spec => []FlatScanIsExact
<1>1. FlatInv => FlatScanIsExact
  BY DEF FlatInv, FlatScanIsExact, Flat
<1> QED BY <1>1, InitInv, InvStep, FlatInit, FlatStep, PTL DEF Spec

-----------------------------------------------------------------------------
(* Every endpoint, behind bridges too                                      *)

Past(f, t) ==
    /\ f.bus = t.bus
    /\ \/ f.device < t.device
       \/ f.device = t.device /\ f.function < t.function
Here(f, t) == f.bus = t.bus /\ f.device = t.device /\ f.function = t.function
Sound(f) == Visible(f) /\ Undisturbed(f)
Endpoints == {f \in topology : f.class = "endpoint"}
Calls == 1..Len(frames)
Called == frames # <<>> /\ top.called

\* With D the buses whose scan is over: the scan is over for a function, it is
\* begun, and the buses whose scan is begun
Ended(f, D) == f.bus \in D \/ \E k \in Calls : Past(f, frames[k])
Begun(f, D) == Ended(f, D) \/ \E k \in Calls : Here(f, frames[k]) /\ frames[k].called
Scanned(D) == D \union {frames[k].bus : k \in Calls}

\* Each bus is scanned by one call, which its own bridge has made.
StackInv(D) ==
    /\ 0 \in Scanned(D)
    /\ \A k \in Calls : frames[k].bus \notin D
    /\ \A j, k \in Calls : frames[j].bus = frames[k].bus => j = k
    /\ \A k \in Calls : k # Len(frames) =>
          /\ frames[k].called
          /\ \E g \in Bridges : Here(g, frames[k]) /\ g.secondary = frames[k + 1].bus
    /\ \A b \in Scanned(D) : b = 0 \/ \E g \in Bridges : g.secondary = b /\ Begun(g, D)

\* The bus behind a bridge is scanned before the loops go on.
ReachInv(D) ==
    /\ \A g \in Bridges : Sound(g) /\ Ended(g, D) => g.secondary \in D
    /\ \A g \in Bridges : Called /\ Here(g, top) => g.secondary \in D

Once(f) ==
    \E i \in 0..(pci_device_count - 1) :
        \A j \in 0..(pci_device_count - 1) : pci_devices[j] = f <=> j = i
Never(f) == \A j \in 0..(pci_device_count - 1) : pci_devices[j] # f

\* An endpoint is counted once, when the loops go on from it; from the count
\* on, the table has no endpoint but the one that is being counted.
TableInv(D) ==
    /\ \A f \in Endpoints : Sound(f) /\ Ended(f, D) => Once(f)
    /\ \A f \in Endpoints : ~Ended(f, D) => Never(f)
    /\ \A i \in pci_device_count..(MAX_PCI_DEVICES - 1) :
          pci_devices[i].class = "endpoint"
             => i = pci_device_count /\ Called /\ Here(pci_devices[i], top)
    /\ Called => \E z \in topology : Here(z, top)
    /\ Called => \A z \in topology : Here(z, top) /\ z.class # "bridge"
                    => top.slot = pci_device_count /\ pci_devices[pci_device_count] = z

Explored(D) == StackInv(D) /\ ReachInv(D) /\ TableInv(D)

ScanInv ==
    Numbered /\ pci_device_count < MAX_PCI_DEVICES
        => \E D \in SUBSET (0..255) : Explored(D)

LEMMA Machine ==
    ASSUME Inv
    PROVE  /\ topology \subseteq FunctionType
           /\ \A f \in topology : /\ f.bus \in 0..255 /\ f.device \in 0..(DEVICES - 1)
                                  /\ f.function \in 0..(FUNCTIONS - 1)
                                  /\ f.secondary \in 0..255
           /\ \A t : \A f, g \in topology : Here(f, t) /\ Here(g, t) => f = g
           /\ Bridges \subseteq topology /\ Endpoints \subseteq topology
<1>1. /\ topology \subseteq FunctionType
      /\ \A f, g \in topology :
            f.bus = g.bus /\ f.device = g.device /\ f.function = g.function => f = g
  BY ListedFacts
<1>2. \A t : \A f, g \in topology : Here(f, t) /\ Here(g, t) => f = g
  BY <1>1 DEF Here
<1> QED BY <1>1, <1>2 DEF FunctionType, Bridges, Endpoints

\* What the loops have passed when they go on
LEMMA Passing ==
    ASSUME NEW t \in Frame, t.device < DEVICES, NEW f \in FunctionType
    PROVE  /\ NextFunction(t) \in Frame /\ NextDevice(t) \in Frame
           /\ NextFunction(t).bus = t.bus /\ ~NextFunction(t).called
           /\ NextDevice(t).bus = t.bus /\ ~NextDevice(t).called
           /\ Past(f, NextFunction(t)) <=> Past(f, t) \/ Here(f, t)
           /\ Past(f, NextDevice(t))
                 <=> \/ Past(f, t) \/ Here(f, t)
                     \/ f.bus = t.bus /\ f.device = t.device /\ f.function > t.function
           /\ ~(Past(f, t) /\ Here(f, t))
<1>1. /\ t \in FrameType /\ t.device \in Nat /\ t.function \in 0..(FUNCTIONS - 1)
      /\ f.device \in Nat /\ f.function \in 0..(FUNCTIONS - 1)
      /\ FUNCTIONS \in Nat \ {0}
  BY Sizes DEF Frame, FrameType, FunctionType
<1>2. NextFunction(t) \in Frame /\ NextDevice(t) \in Frame
  BY GoOnType
<1>3. PICK d : d = NextDevice(t)
  OBVIOUS
<1>4. d.bus = t.bus /\ ~d.called /\ d.device = t.device + 1 /\ d.function = 0
  BY <1>1, <1>3 DEF NextDevice, FrameType
<1>5. Past(f, d) <=> \/ Past(f, t) \/ Here(f, t)
                     \/ f.bus = t.bus /\ f.device = t.device /\ f.function > t.function
  BY <1>1, <1>4 DEF Past, Here
<1>6. PICK n : n = NextFunction(t)
  OBVIOUS
<1>7. CASE t.function + 1 < FUNCTIONS
  <2>1. n = [t EXCEPT !.function = t.function + 1, !.called = FALSE]
    BY <1>1, <1>6, <1>7 DEF NextFunction, FrameType
  <2>2. n.bus = t.bus /\ ~n.called /\ n.device = t.device /\ n.function = t.function + 1
    BY <1>1, <2>1 DEF FrameType
  <2>3. Past(f, n) <=> Past(f, t) \/ Here(f, t)
    BY <1>1, <2>2 DEF Past, Here
  <2> QED BY <1>1, <1>2, <1>3, <1>4, <1>5, <1>6, <2>2, <2>3 DEF Past, Here
<1>8. CASE ~(t.function + 1 < FUNCTIONS)
  <2>1. n = d /\ t.function = FUNCTIONS - 1
    BY <1>1, <1>3, <1>6, <1>8 DEF NextFunction
  <2>2. ~(f.function > t.function)
    BY <1>1, <2>1
  <2> QED BY <1>1, <1>2, <1>3, <1>4, <1>5, <1>6, <2>1, <2>2 DEF Past, Here
<1> QED BY <1>7, <1>8

LEMMA TopIs ==
    ASSUME Inv, frames # <<>>
    PROVE  /\ Len(frames) \in Nat \ {0} /\ top = frames[Len(frames)]
           /\ \A k \in Calls : frames[k] \in Frame
           /\ Len(frames) \in Calls
           /\ Below \in Seq(Frame) /\ Len(Below) = Len(frames) - 1
           /\ \A k \in 1..(Len(frames) - 1) : Below[k] = frames[k]
<1>1. /\ frames \in Seq(Frame) /\ Len(frames) \in Nat \ {0} /\ top = frames[Len(frames)]
  BY EmptySeq, LenProperties DEF Inv, top
<1>2. \A k \in Calls : frames[k] \in Frame
  BY <1>1, ElementOfSeq DEF Calls
<1>3. PICK q : q = Len(frames) - 1
  OBVIOUS
<1>4. Below = SubSeq(frames, 1, q) /\ q \in Nat
  BY <1>1, <1>3 DEF Below
<1>5. \A i \in 1..q : frames[i] \in Frame
  BY <1>1, <1>2, <1>3 DEF Calls
<1>6. /\ Below \in Seq(Frame) /\ Len(Below) = (IF 1 <= q THEN q - 1 + 1 ELSE 0)
      /\ \A i \in 1..(q - 1 + 1) : Below[i] = frames[1 + i - 1]
  BY <1>4, <1>5, SubSeqProperties
<1>7. Len(Below) = q /\ \A i \in 1..q : Below[i] = frames[i]
  BY <1>4, <1>6
<1> QED BY <1>1, <1>2, <1>3, <1>6, <1>7 DEF Calls

\* The calls s are the calls in progress with the last one at n.
Moved(s, n) ==
    /\ Len(s) = Len(frames) /\ s[Len(frames)] = n /\ s # <<>>
    /\ \A k \in 1..(Len(frames) - 1) : s[k] = frames[k]

\* The frames when the last call goes on
LEMMA GoesOn ==
    ASSUME Inv, frames # <<>>, NEW n \in Frame
    PROVE  Moved(Append(Below, n), n) /\ Append(Below, n) \in Seq(Frame)
<1>1. PICK b : b = Below
  OBVIOUS
<1>2. /\ b \in Seq(Frame) /\ Len(b) = Len(frames) - 1 /\ Len(frames) \in Nat \ {0}
      /\ \A k \in 1..(Len(frames) - 1) : b[k] = frames[k]
  BY <1>1, TopIs
<1>3. PICK s : s = Append(b, n)
  OBVIOUS
<1>4. /\ s \in Seq(Frame) /\ Len(s) = Len(frames) /\ s[Len(frames)] = n
      /\ \A k \in 1..(Len(frames) - 1) : s[k] = frames[k]
  BY <1>2, <1>3, AppendProperties
<1>5. s # <<>>
  BY <1>2, <1>4
<1> QED BY <1>1, <1>3, <1>4, <1>5 DEF Moved

\* The frames when it calls
LEMMA CallsAgain ==
    ASSUME Inv, frames # <<>>, NEW n \in Frame, NEW m \in Frame
    PROVE  LET s == Append(Below, n) \o <<m>>
           IN  /\ Len(s) = Len(frames) + 1 /\ s # <<>>
               /\ s[Len(frames)] = n /\ s[Len(frames) + 1] = m
               /\ \A k \in 1..(Len(frames) - 1) : s[k] = frames[k]
<1>1. PICK a : a = Append(Below, n)
  OBVIOUS
<1>2. /\ Len(a) = Len(frames) /\ a[Len(frames)] = n /\ a \in Seq(Frame)
      /\ \A k \in 1..(Len(frames) - 1) : a[k] = frames[k]
      /\ Len(frames) \in Nat \ {0}
  BY <1>1, GoesOn, TopIs DEF Moved
<1>3. PICK r : r = Append(a, m)
  OBVIOUS
<1>4. /\ Len(r) = Len(a) + 1 /\ r[Len(a) + 1] = m
      /\ \A k \in 1..Len(a) : r[k] = a[k]
  BY <1>2, <1>3, AppendProperties
<1>5. a \o <<m>> = r
  BY <1>2, <1>3
<1>6. /\ Len(r) = Len(frames) + 1 /\ r # <<>>
      /\ r[Len(frames)] = n /\ r[Len(frames) + 1] = m
      /\ \A k \in 1..(Len(frames) - 1) : r[k] = frames[k]
  BY <1>2, <1>4
<1> QED BY <1>1, <1>5, <1>6

\* On the bus of the last call, its place says what is begun and what is over.
LEMMA AtTop ==
    ASSUME Inv, NEW D, StackInv(D), frames # <<>>, NEW f, f.bus = top.bus
    PROVE  /\ Ended(f, D) <=> Past(f, top)
           /\ Begun(f, D) <=> Past(f, top) \/ (Here(f, top) /\ top.called)
<1>1. Len(frames) \in Calls /\ top = frames[Len(frames)]
  BY TopIs
<1>2. /\ f.bus \notin D
      /\ \A k \in Calls : frames[k].bus = f.bus => frames[k] = top
  BY <1>1 DEF StackInv
<1>3. \A k \in Calls : Past(f, frames[k]) \/ Here(f, frames[k]) => frames[k] = top
  BY <1>2 DEF Past, Here
<1> QED BY <1>1, <1>2, <1>3 DEF Ended, Begun

\* A step that changes the place of the last call only
LEMMA Turn ==
    ASSUME Inv, NEW D, StackInv(D), frames # <<>>, topology' = topology,
           NEW n \in Frame, n.bus = top.bus, Moved(frames', n),
           \A f \in topology : f.bus = top.bus
               => (Past(f, top) \/ (Here(f, top) /\ top.called)
                     => Past(f, n) \/ (Here(f, n) /\ n.called))
    PROVE  /\ StackInv(D)' /\ top' = n /\ frames' # <<>>
           /\ \A f \in topology :
                 Ended(f, D)' <=> IF f.bus = top.bus THEN Past(f, n) ELSE Ended(f, D)
<1>1. PICK N : N = Len(frames)
  OBVIOUS
<1>2. /\ N \in Nat \ {0} /\ top = frames[N] /\ Calls = 1..N /\ N \in Calls
      /\ Len(frames') = N /\ frames'[N] = n /\ frames' # <<>>
      /\ \A k \in Calls : k # N => frames'[k] = frames[k]
  <2>1. N \in Nat \ {0} /\ top = frames[N] /\ Calls = 1..N /\ N \in Calls
    BY <1>1, TopIs DEF Calls
  <2>2. /\ Len(frames') = N /\ frames'[N] = n /\ frames' # <<>>
        /\ \A k \in 1..(N - 1) : frames'[k] = frames[k]
    BY <1>1 DEF Moved
  <2> QED BY <2>1, <2>2
<1>3. Calls' = Calls /\ top' = n
  BY <1>2 DEF Calls, top
<1>4. \A k \in Calls : frames'[k].bus = frames[k].bus
  BY <1>2
<1>5. Scanned(D)' = Scanned(D)
  BY <1>3, <1>4 DEF Scanned
<1>6. /\ \A k \in Calls : frames[k].bus \notin D
      /\ \A j, k \in Calls : frames[j].bus = frames[k].bus => j = k
      /\ 0 \in Scanned(D)
      /\ \A k \in Calls : k # N =>
            /\ frames[k].called
            /\ \E g \in Bridges : Here(g, frames[k]) /\ g.secondary = frames[k + 1].bus
      /\ \A b \in Scanned(D) : b = 0 \/ \E g \in Bridges : g.secondary = b /\ Begun(g, D)
  BY <1>1 DEF StackInv
<1>7. ASSUME NEW f \in topology, f.bus # top.bus
      PROVE  (Ended(f, D)' <=> Ended(f, D)) /\ (Begun(f, D)' <=> Begun(f, D))
  <2>1. \A k \in Calls : /\ Past(f, frames'[k]) <=> Past(f, frames[k])
                         /\ Here(f, frames'[k]) /\ frames'[k].called
                              <=> Here(f, frames[k]) /\ frames[k].called
    BY <1>2, <1>7 DEF Past, Here
  <2> QED BY <1>3, <2>1 DEF Ended, Begun
<1>8. ASSUME NEW f \in topology, f.bus = top.bus
      PROVE  /\ Ended(f, D)' <=> Past(f, n)
             /\ Begun(f, D)' <=> Past(f, n) \/ (Here(f, n) /\ n.called)
  <2>1. f.bus \notin D
    BY <1>2, <1>6, <1>8
  <2>2. \A k \in Calls : Past(f, frames'[k]) \/ Here(f, frames'[k]) => k = N
    BY <1>2, <1>4, <1>6, <1>8 DEF Past, Here
  <2> QED BY <1>2, <1>3, <2>1, <2>2 DEF Ended, Begun
<1>9. \A f \in topology : Begun(f, D) => Begun(f, D)'
  <2>1. ASSUME NEW f \in topology, Begun(f, D), f.bus = top.bus PROVE Begun(f, D)'
    <3>1. Past(f, top) \/ (Here(f, top) /\ top.called)
      BY <2>1, AtTop
    <3> QED BY <1>8, <2>1, <3>1
  <2> QED BY <1>7, <2>1
<1>10. Bridges' = Bridges /\ Bridges \subseteq topology
  BY DEF Bridges
<1>11. StackInv(D)'
  <2>1. \A k \in Calls : frames'[k].bus \notin D
    BY <1>4, <1>6
  <2>2. ASSUME NEW j \in Calls, NEW k \in Calls, frames'[j].bus = frames'[k].bus
        PROVE  j = k
    <3>1. frames[j].bus = frames[k].bus
      BY <1>4, <2>2
    <3> QED BY <1>6, <3>1
  <2>3. ASSUME NEW k \in Calls, k # N
        PROVE  /\ frames'[k].called
               /\ \E g \in Bridges : Here(g, frames'[k]) /\ g.secondary = frames'[k + 1].bus
    <3>1. frames'[k] = frames[k] /\ k + 1 \in Calls
      BY <1>2, <2>3
    <3>2. frames'[k + 1].bus = frames[k + 1].bus
      BY <1>4, <3>1
    <3>3. frames[k].called
      BY <1>6, <2>3
    <3>4. PICK g \in Bridges : Here(g, frames[k]) /\ g.secondary = frames[k + 1].bus
      BY <1>6, <2>3
    <3> QED BY <3>1, <3>2, <3>3, <3>4
  <2>4. ASSUME NEW b \in Scanned(D), b # 0
        PROVE  \E g \in Bridges : g.secondary = b /\ Begun(g, D)'
    BY <1>6, <1>9, <1>10, <2>4
  <2>5. Len(frames') = N /\ Calls' = Calls /\ Scanned(D)' = Scanned(D)
        /\ Bridges' = Bridges
    BY <1>2, <1>3, <1>5, <1>10
  <2> QED BY <1>6, <2>1, <2>2, <2>3, <2>4, <2>5 DEF StackInv
<1> QED BY <1>2, <1>3, <1>7, <1>8, <1>11

\* A missing function: what is over stays so.
LEMMA ExploredSkip ==
    ASSUME Inv, NEW D, Explored(D), Skip
    PROVE  Explored(D)'
<1>1. /\ StackInv(D) /\ ReachInv(D) /\ TableInv(D)
      /\ frames # <<>> /\ top \in Frame /\ ~top.called /\ top.device < DEVICES
      /\ At(top.bus, top.device, top.function) = {}
      /\ UNCHANGED <<topology, pci_devices, pci_device_count>>
  BY TopType DEF Explored, Skip, Scanning, Found, Exists
<1>2. PICK n : n = NextFunction(top)
  OBVIOUS
<1>3. \A f \in topology : ~Here(f, top)
  BY <1>1 DEF At, Here
<1>4. /\ n \in Frame /\ n.bus = top.bus /\ ~n.called /\ frames' = Append(Below, n)
      /\ \A f \in topology : Past(f, n) <=> Past(f, top)
  <2>1. topology \subseteq FunctionType
    BY Machine
  <2>2. \A f \in topology : Past(f, n) <=> Past(f, top)
    BY <1>1, <1>2, <1>3, <2>1, Passing
  <2>3. Zero \in FunctionType
    BY Sizes DEF Zero, FunctionType
  <2>4. n \in Frame /\ n.bus = top.bus /\ ~n.called
    BY <1>1, <1>2, <2>3, Passing
  <2> QED BY <1>2, <2>2, <2>4 DEF Skip
<1>m. Moved(frames', n)
  BY <1>1, <1>4, GoesOn
<1>5. /\ StackInv(D)' /\ top' = n /\ frames' # <<>>
      /\ \A f \in topology :
            Ended(f, D)' <=> IF f.bus = top.bus THEN Past(f, n) ELSE Ended(f, D)
  BY <1>1, <1>3, <1>4, <1>m, Turn
<1>6. \A f \in topology : Ended(f, D)' <=> Ended(f, D)
  BY <1>1, <1>4, <1>5, AtTop
<1>7. /\ ~Called /\ ~Called' /\ Bridges' = Bridges /\ Endpoints' = Endpoints
      /\ Bridges \subseteq topology /\ Endpoints \subseteq topology
      /\ \A f : Sound(f)' = Sound(f) /\ Once(f)' = Once(f) /\ Never(f)' = Never(f)
  BY <1>1, <1>4, <1>5 DEF Called, Bridges, Endpoints, Sound, Visible, Undisturbed, At, Once,
      Never
<1>8. ReachInv(D)'
  BY <1>1, <1>6, <1>7 DEF ReachInv
<1>9. TableInv(D)'
  BY <1>1, <1>6, <1>7 DEF TableInv
<1> QED BY <1>5, <1>8, <1>9 DEF Explored

\* The end of a call: its bus is scanned.
LEMMA ExploredReturn ==
    ASSUME Inv, NEW D, Explored(D), Return, top.device = DEVICES,
           NEW E, E = D \union {top.bus}
    PROVE  Explored(E)'
<1>1. /\ StackInv(D) /\ ReachInv(D) /\ TableInv(D)
      /\ frames # <<>> /\ ~top.called /\ frames' = Below
      /\ UNCHANGED <<topology, pci_devices, pci_device_count>>
  BY DEF Explored, Return
<1>2. PICK N : N = Len(frames)
  OBVIOUS
<1>3. /\ N \in Nat \ {0} /\ top = frames[N] /\ Calls = 1..N
      /\ Len(frames') = N - 1 /\ Calls' = 1..(N - 1)
      /\ \A k \in 1..(N - 1) : k \in Calls /\ frames'[k] = frames[k]
  <2>1. /\ N \in Nat \ {0} /\ top = frames[N] /\ Calls = 1..N
        /\ Len(Below) = N - 1 /\ \A k \in 1..(N - 1) : Below[k] = frames[k]
    BY <1>1, <1>2, TopIs DEF Calls
  <2> QED BY <1>1, <2>1 DEF Calls
<1>4. /\ \A k \in Calls : frames[k].bus \notin D
      /\ \A j, k \in Calls : frames[j].bus = frames[k].bus => j = k
      /\ 0 \in Scanned(D)
      /\ \A k \in Calls : k # N =>
            /\ frames[k].called
            /\ \E g \in Bridges : Here(g, frames[k]) /\ g.secondary = frames[k + 1].bus
      /\ \A b \in Scanned(D) : b = 0 \/ \E g \in Bridges : g.secondary = b /\ Begun(g, D)
  BY <1>1, <1>2 DEF StackInv
<1>5. \A k \in Calls : k \in 1..(N - 1) \/ k = N
  BY <1>3
<1>6. ASSUME NEW f \in topology
      PROVE  (Ended(f, E)' <=> Ended(f, D)) /\ (Begun(f, E)' <=> Begun(f, D))
  <2>1. CASE f.bus = top.bus
    <3>1. Past(f, top)
      BY <2>1, Machine, Sizes DEF Past
    <3> QED BY <1>3, <2>1, <3>1 DEF Ended, Begun
  <2>2. CASE f.bus # top.bus
    <3>1. ~Past(f, frames[N]) /\ ~Here(f, frames[N])
      BY <1>3, <2>2 DEF Past, Here
    <3>2. f.bus \in E <=> f.bus \in D
      BY <2>2
    <3>3. /\ (\E k \in Calls' : Past(f, frames'[k])) <=> \E k \in Calls : Past(f, frames[k])
          /\ (\E k \in Calls' : Here(f, frames'[k]) /\ frames'[k].called)
                <=> \E k \in Calls : Here(f, frames[k]) /\ frames[k].called
      BY <1>3, <1>5, <3>1
    <3> QED BY <3>2, <3>3 DEF Ended, Begun
  <2> QED BY <2>1, <2>2
<1>7. Scanned(E)' = Scanned(D)
  <2>1. \A b : b \in Scanned(E)' <=> b \in Scanned(D)
    <3>1. \A b : (\E k \in Calls' : b = frames'[k].bus) \/ b = top.bus
                    <=> \E k \in Calls : b = frames[k].bus
      BY <1>3, <1>5
    <3> QED BY <3>1 DEF Scanned
  <2> QED BY <2>1 DEF Scanned
<1>8. Bridges' = Bridges /\ Endpoints' = Endpoints
      /\ Bridges \subseteq topology /\ Endpoints \subseteq topology
      /\ \A f : Sound(f)' = Sound(f) /\ Once(f)' = Once(f) /\ Never(f)' = Never(f)
  BY <1>1 DEF Bridges, Endpoints, Sound, Visible, Undisturbed, At, Once, Never
<1>9. StackInv(E)'
  <2>1. ASSUME NEW k \in Calls' PROVE frames'[k].bus \notin E
    <3>1. k \in Calls /\ N \in Calls /\ k # N /\ frames'[k] = frames[k]
      BY <1>3, <2>1
    <3> QED BY <1>3, <1>4, <3>1
  <2>2. ASSUME NEW j \in Calls', NEW k \in Calls', frames'[j].bus = frames'[k].bus
        PROVE  j = k
    <3>1. /\ j \in Calls /\ k \in Calls
          /\ frames'[j] = frames[j] /\ frames'[k] = frames[k]
      BY <1>3, <2>2
    <3> QED BY <1>4, <2>2, <3>1
  <2>3. ASSUME NEW k \in Calls', k # N - 1
        PROVE  /\ frames'[k].called
               /\ \E g \in Bridges : Here(g, frames'[k]) /\ g.secondary = frames'[k + 1].bus
    <3>1. /\ k \in Calls /\ k # N /\ frames'[k] = frames[k]
          /\ frames'[k + 1] = frames[k + 1]
      BY <1>3, <2>3
    <3>2. frames[k].called
      BY <1>4, <3>1
    <3>3. PICK g \in Bridges : Here(g, frames[k]) /\ g.secondary = frames[k + 1].bus
      BY <1>4, <3>1
    <3> QED BY <3>1, <3>2, <3>3
  <2>4. ASSUME NEW b \in Scanned(D), b # 0
        PROVE  \E g \in Bridges : g.secondary = b /\ Begun(g, E)'
    BY <1>4, <1>6, <1>8, <2>4
  <2>5. Len(frames') = N - 1 /\ Scanned(E)' = Scanned(D) /\ Bridges' = Bridges
    BY <1>3, <1>7, <1>8
  <2>6. 0 \in Scanned(D)
    BY <1>4
  <2> QED BY <2>1, <2>2, <2>3, <2>4, <2>5, <2>6 DEF StackInv
\* The call below is at the bridge whose bus has been scanned.
<1>10. Called' => \E g \in Bridges : Here(g, top') /\ g.secondary = top.bus
  <2> SUFFICES ASSUME Called' PROVE \E g \in Bridges : Here(g, top') /\ g.secondary = top.bus
    OBVIOUS
  <2>1. frames' # <<>> /\ frames' \in Seq(Frame)
    BY <1>1, TopIs DEF Called
  <2>2. N - 1 \in 1..(N - 1)
    BY <1>3, <2>1, EmptySeq
  <2>3. top' = frames[N - 1] /\ N - 1 \in Calls /\ N - 1 # N /\ N - 1 + 1 = N
    BY <1>3, <2>2 DEF top
  <2>4. PICK g \in Bridges :
           Here(g, frames[N - 1]) /\ g.secondary = frames[N - 1 + 1].bus
    BY <1>4, <2>3
  <2> QED BY <1>3, <2>3, <2>4
<1>11. ReachInv(E)'
  <2>1. \A g \in Bridges : Sound(g) /\ Ended(g, E)' => g.secondary \in E
    BY <1>1, <1>6, <1>8 DEF ReachInv
  <2>2. ASSUME NEW g \in Bridges, Called', Here(g, top') PROVE g.secondary \in E
    <3>1. PICK h \in Bridges : Here(h, top') /\ h.secondary = top.bus
      BY <1>10, <2>2
    <3>2. g = h
      BY <1>8, <2>2, <3>1, Machine
    <3> QED BY <3>1, <3>2
  <2> QED BY <1>8, <2>1, <2>2 DEF ReachInv
<1>12. TableInv(E)'
  <2>1. /\ \A f \in Endpoints : Sound(f) /\ Ended(f, E)' => Once(f)
        /\ \A f \in Endpoints : ~Ended(f, E)' => Never(f)
    BY <1>1, <1>6, <1>8 DEF TableInv
  <2>2. \A i \in pci_device_count..(MAX_PCI_DEVICES - 1) : pci_devices[i].class # "endpoint"
    BY <1>1 DEF TableInv, Called
  <2>3. Called' => \E z \in topology : Here(z, top')
    BY <1>8, <1>10
  <2>4. ASSUME Called', NEW z \in topology, Here(z, top') PROVE z.class = "bridge"
    <3>1. PICK h \in Bridges : Here(h, top')
      BY <1>10, <2>4
    <3>2. z = h
      BY <1>8, <2>4, <3>1, Machine
    <3> QED BY <3>1, <3>2 DEF Bridges
  <2> QED BY <1>1, <1>8, <2>1, <2>2, <2>3, <2>4 DEF TableInv
<1> QED BY <1>9, <1>11, <1>12 DEF Explored

\* What a fill leaves of the table
LEMMA Filled ==
    ASSUME Inv, NEW D, Explored(D), Fill,
           NEW dev \in At(top.bus, top.device, top.function),
           pci_devices' = [pci_devices EXCEPT ![pci_device_count] = dev]
    PROVE  /\ pci_device_count \in 0..(MAX_PCI_DEVICES - 1)
           /\ pci_device_count' = pci_device_count /\ topology' = topology
           /\ pci_devices'[pci_device_count] = dev
           /\ \A f : Sound(f)' = Sound(f) /\ Once(f)' = Once(f) /\ Never(f)' = Never(f)
           /\ \A i \in pci_device_count..(MAX_PCI_DEVICES - 1) :
                 pci_devices'[i].class = "endpoint" => i = pci_device_count
           /\ Bridges' = Bridges /\ Endpoints' = Endpoints
           /\ Bridges \subseteq topology /\ Endpoints \subseteq topology
<1>1. pci_device_count \in 0..(MAX_PCI_DEVICES - 1)
  BY Sizes DEF Fill, Inv
<1>2. pci_device_count' = pci_device_count /\ topology' = topology
  BY DEF Fill
<1>3. /\ pci_devices'[pci_device_count] = dev
      /\ \A i \in 0..(MAX_PCI_DEVICES - 1) :
            i # pci_device_count => pci_devices'[i] = pci_devices[i]
  BY <1>1 DEF Inv
<1>4. \A j \in 0..(pci_device_count - 1) : pci_devices'[j] = pci_devices[j]
  BY <1>1, <1>3, Sizes
<1>5. \A f : Sound(f)' = Sound(f) /\ Once(f)' = Once(f) /\ Never(f)' = Never(f)
  <2>1. \A f : Sound(f)' = Sound(f)
    BY <1>2 DEF Sound, Visible, Undisturbed, At
  <2>2. \A f : Once(f)' = Once(f) /\ Never(f)' = Never(f)
    BY <1>2, <1>4 DEF Once, Never
  <2> QED BY <2>1, <2>2
<1>6. ~Called
  BY DEF Fill, Scanning, Called
<1>7. ASSUME NEW i \in pci_device_count..(MAX_PCI_DEVICES - 1), i # pci_device_count
      PROVE  pci_devices'[i].class # "endpoint"
  <2>1. i \in 0..(MAX_PCI_DEVICES - 1) /\ pci_devices'[i] = pci_devices[i]
    BY <1>1, <1>3, <1>7
  <2> QED BY <1>6, <2>1 DEF Explored, TableInv
<1>8. /\ Bridges' = Bridges /\ Endpoints' = Endpoints
      /\ Bridges \subseteq topology /\ Endpoints \subseteq topology
  BY <1>2 DEF Bridges, Endpoints
<1> QED BY <1>1, <1>2, <1>3, <1>5, <1>7, <1>8

\* A function that is no bridge: the loops stay at it.
LEMMA ExploredFill ==
    ASSUME Inv, NEW D, Explored(D), Fill,
           NEW dev \in At(top.bus, top.device, top.function), dev.class # "bridge",
           pci_devices' = [pci_devices EXCEPT ![pci_device_count] = dev],
           NEW n, n = [top EXCEPT !.slot = pci_device_count, !.called = TRUE],
           frames' = Append(Below, n)
    PROVE  Explored(D)'
<1>1. /\ StackInv(D) /\ ReachInv(D) /\ TableInv(D)
      /\ frames # <<>> /\ ~top.called /\ top \in Frame /\ top.device < DEVICES
  BY TopType DEF Explored, Fill, Scanning
<1>2. /\ dev \in topology /\ Here(dev, top)
      /\ \A f \in topology : Here(f, top) => f = dev
  <2>1. dev \in topology /\ Here(dev, top)
    BY DEF At, Here
  <2> QED BY <2>1, Machine
<1>3. /\ n \in Frame /\ n.called /\ n.slot = pci_device_count
      /\ n.bus = top.bus /\ n.device = top.device /\ n.function = top.function
  <2>0. pci_device_count \in 0..(MAX_PCI_DEVICES - 1)
    BY Filled
  <2>1. top \in FrameType /\ pci_device_count \in -1..(MAX_PCI_DEVICES - 1)
    BY <1>1, <2>0, Sizes DEF Frame
  <2> QED BY <1>1, <2>1 DEF Frame, FrameType
<1>4. \A f : (Past(f, n) <=> Past(f, top)) /\ (Here(f, n) <=> Here(f, top))
  BY <1>3 DEF Past, Here
<1>5. Moved(frames', n)
  BY <1>1, <1>3, GoesOn
<1>6. topology' = topology
  BY Filled
<1>7. /\ StackInv(D)' /\ top' = n /\ frames' # <<>>
      /\ \A f \in topology :
            Ended(f, D)' <=> IF f.bus = top.bus THEN Past(f, n) ELSE Ended(f, D)
  BY <1>1, <1>3, <1>4, <1>5, <1>6, Turn
<1>8. \A f \in topology : Ended(f, D)' <=> Ended(f, D)
  BY <1>1, <1>4, <1>7, AtTop
<1>9. /\ pci_device_count' = pci_device_count
      /\ pci_devices'[pci_device_count] = dev
      /\ \A f : Sound(f)' = Sound(f) /\ Once(f)' = Once(f) /\ Never(f)' = Never(f)
      /\ \A i \in pci_device_count..(MAX_PCI_DEVICES - 1) :
            pci_devices'[i].class = "endpoint" => i = pci_device_count
      /\ Bridges' = Bridges /\ Endpoints' = Endpoints
      /\ Bridges \subseteq topology /\ Endpoints \subseteq topology
  BY Filled
<1>10. Called' /\ Here(dev, n)
  BY <1>2, <1>3, <1>4, <1>7 DEF Called
<1>11. ReachInv(D)'
  <2>1. \A g \in Bridges : Sound(g) /\ Ended(g, D)' => g.secondary \in D
    BY <1>1, <1>8, <1>9 DEF ReachInv
  <2>2. \A g \in Bridges : ~Here(g, n)
    BY <1>2, <1>4, <1>9 DEF Bridges
  <2> QED BY <1>7, <1>9, <2>1, <2>2 DEF ReachInv
<1>12. TableInv(D)'
  <2>1. /\ \A f \in Endpoints : Sound(f) /\ Ended(f, D)' => Once(f)
        /\ \A f \in Endpoints : ~Ended(f, D)' => Never(f)
    BY <1>1, <1>8, <1>9 DEF TableInv
  <2>2. \A z \in topology : Here(z, n) => z = dev
    BY <1>2, <1>4
  <2> QED BY <1>2, <1>3, <1>6, <1>7, <1>9, <1>10, <2>1, <2>2 DEF TableInv
<1> QED BY <1>7, <1>11, <1>12 DEF Explored

\* A bridge: a call for a bus that no call has scanned
LEMMA ExploredCall ==
    ASSUME Inv, NEW D, Explored(D), Fill, Numbered,
           NEW dev \in At(top.bus, top.device, top.function), dev.class = "bridge",
           pci_devices' = [pci_devices EXCEPT ![pci_device_count] = dev],
           NEW n, n = [top EXCEPT !.slot = pci_device_count, !.called = TRUE],
           NEW m, m = Call(dev.secondary),
           frames' = Append(Below, n) \o <<m>>
    PROVE  Explored(D)'
<1>1. /\ StackInv(D) /\ ReachInv(D) /\ TableInv(D)
      /\ frames # <<>> /\ ~top.called /\ top \in Frame /\ top.device < DEVICES
  BY TopType DEF Explored, Fill, Scanning
<1>2. dev \in topology /\ Here(dev, top) /\ dev \in Bridges /\ dev.secondary \in 0..255
  <2>1. dev \in topology /\ Here(dev, top)
    BY DEF At, Here
  <2> QED BY <2>1, Machine DEF Bridges
<1>3. /\ n \in Frame /\ n.called
      /\ n.bus = top.bus /\ n.device = top.device /\ n.function = top.function
  <2>0. pci_device_count \in 0..(MAX_PCI_DEVICES - 1)
    BY Filled
  <2>1. top \in FrameType /\ pci_device_count \in -1..(MAX_PCI_DEVICES - 1)
    BY <1>1, <2>0, Sizes DEF Frame
  <2> QED BY <1>1, <2>1 DEF Frame, FrameType
<1>4. \A f : (Past(f, n) <=> Past(f, top)) /\ (Here(f, n) <=> Here(f, top))
  BY <1>3 DEF Past, Here
<1>5. m \in Frame /\ m.bus = dev.secondary /\ ~m.called /\ m.device = 0 /\ m.function = 0
  BY <1>2, CallType DEF Call
<1>6. PICK N : N = Len(frames)
  OBVIOUS
<1>7. /\ N \in Nat \ {0} /\ top = frames[N] /\ Calls = 1..N
      /\ Len(frames') = N + 1 /\ frames' # <<>> /\ Calls' = 1..(N + 1)
      /\ frames'[N] = n /\ frames'[N + 1] = m /\ top' = m
      /\ \A k \in 1..(N - 1) : frames'[k] = frames[k]
  <2>1. N \in Nat \ {0} /\ top = frames[N] /\ Calls = 1..N
    BY <1>1, <1>6, TopIs DEF Calls
  <2>2. /\ Len(frames') = N + 1 /\ frames' # <<>>
        /\ frames'[N] = n /\ frames'[N + 1] = m
        /\ \A k \in 1..(N - 1) : frames'[k] = frames[k]
    BY <1>1, <1>3, <1>5, <1>6, CallsAgain
  <2> QED BY <2>1, <2>2 DEF Calls, top
<1>8. /\ \A k \in Calls : frames[k].bus \notin D
      /\ \A j, k \in Calls : frames[j].bus = frames[k].bus => j = k
      /\ 0 \in Scanned(D)
      /\ \A k \in Calls : k # N =>
            /\ frames[k].called
            /\ \E g \in Bridges : Here(g, frames[k]) /\ g.secondary = frames[k + 1].bus
      /\ \A b \in Scanned(D) : b = 0 \/ \E g \in Bridges : g.secondary = b /\ Begun(g, D)
  BY <1>1, <1>6 DEF StackInv
<1>9. \A k \in Calls : frames'[k].bus = frames[k].bus /\ frames[k].bus \in Scanned(D)
  <2> SUFFICES ASSUME NEW k \in Calls
               PROVE  frames'[k].bus = frames[k].bus /\ frames[k].bus \in Scanned(D)
    OBVIOUS
  <2>1. frames[k].bus \in Scanned(D)
    BY DEF Scanned
  <2>2. CASE k = N
    BY <1>3, <1>7, <2>1, <2>2
  <2>3. CASE k # N
    <3>1. k \in 1..(N - 1)
      BY <1>7, <2>3
    <3> QED BY <1>7, <2>1, <3>1
  <2> QED BY <2>2, <2>3
<1>10. /\ \A k \in Calls' : k \in Calls \/ k = N + 1
       /\ \A k \in Calls : k \in Calls' /\ (k # N => k + 1 \in Calls)
       /\ N \in Calls /\ N + 1 \in Calls'
  BY <1>7
<1>s. \A k \in Calls : k # N => frames'[k] = frames[k]
  <2> SUFFICES ASSUME NEW k \in Calls, k # N PROVE frames'[k] = frames[k]
    OBVIOUS
  <2>1. k \in 1..(N - 1)
    BY <1>7
  <2> QED BY <1>7, <2>1
<1>11. dev.secondary \notin Scanned(D)
  <2> SUFFICES ASSUME dev.secondary \in Scanned(D) PROVE FALSE
    OBVIOUS
  <2>1. dev.secondary # 0
    BY <1>2 DEF Numbered
  <2>2. PICK g \in Bridges : g.secondary = dev.secondary /\ Begun(g, D)
    BY <1>8, <2>1
  <2>3. g = dev
    BY <1>2, <2>2 DEF Numbered
  <2>4. Past(dev, top) \/ (Here(dev, top) /\ top.called)
    BY <1>1, <1>2, <2>2, <2>3, AtTop DEF Here
  <2>5. dev \in FunctionType
    BY <1>2, Machine
  <2> QED BY <1>1, <1>2, <2>4, <2>5, Passing
<1>12. Scanned(D)' = Scanned(D) \union {dev.secondary}
  <2>1. ASSUME NEW b, b \in Scanned(D)' PROVE b \in Scanned(D) \union {dev.secondary}
    <3>1. b \in D \/ \E k \in Calls' : b = frames'[k].bus
      BY <2>1 DEF Scanned
    <3>2. CASE b \in D
      BY <3>2 DEF Scanned
    <3>3. ASSUME NEW k \in Calls', b = frames'[k].bus
          PROVE  b \in Scanned(D) \union {dev.secondary}
      BY <1>5, <1>7, <1>9, <1>10, <3>3
    <3> QED BY <3>1, <3>2, <3>3
  <2>2. ASSUME NEW b, b \in Scanned(D) PROVE b \in Scanned(D)'
    <3>1. CASE b \in D
      BY <3>1 DEF Scanned
    <3>2. ASSUME NEW k \in Calls, b = frames[k].bus PROVE b \in Scanned(D)'
      <4>1. k \in Calls' /\ b = frames'[k].bus
        BY <1>9, <1>10, <3>2
      <4> QED BY <4>1 DEF Scanned
    <3> QED BY <2>2, <3>1, <3>2 DEF Scanned
  <2>3. dev.secondary \in Scanned(D)'
    BY <1>5, <1>7, <1>10 DEF Scanned
  <2> QED BY <2>1, <2>2, <2>3
<1>13. ASSUME NEW f \in topology
       PROVE  /\ Ended(f, D)' <=> Ended(f, D)
              /\ Begun(f, D) \/ f = dev => Begun(f, D)'
  <2>1. ~Past(f, m)
    BY <1>5, Machine, Sizes DEF Past
  <2>2. \A k \in Calls : Past(f, frames'[k]) <=> Past(f, frames[k])
    BY <1>4, <1>7, <1>s
  <2>5. (\E k \in Calls' : Past(f, frames'[k])) <=> \E k \in Calls : Past(f, frames[k])
    BY SMTT(30), <1>7, <1>10, <2>1, <2>2
  <2>6. ASSUME NEW k \in Calls, Here(f, frames[k]), frames[k].called
        PROVE  \E i \in Calls' : Here(f, frames'[i]) /\ frames'[i].called
    <3>1. k # N
      BY <1>1, <1>7, <2>6
    <3>2. k \in Calls' /\ frames'[k] = frames[k]
      BY <1>10, <1>s, <3>1
    <3> QED BY <2>6, <3>2
  <2>7. f = dev => \E i \in Calls' : Here(f, frames'[i]) /\ frames'[i].called
    BY <1>2, <1>3, <1>4, <1>7, <1>10
  <2> QED BY <2>5, <2>6, <2>7 DEF Ended, Begun
<1>14. /\ pci_device_count' = pci_device_count
       /\ pci_devices'[pci_device_count] = dev
       /\ \A f : Sound(f)' = Sound(f) /\ Once(f)' = Once(f) /\ Never(f)' = Never(f)
       /\ \A i \in pci_device_count..(MAX_PCI_DEVICES - 1) :
             pci_devices'[i].class = "endpoint" => i = pci_device_count
       /\ Bridges' = Bridges /\ Endpoints' = Endpoints
       /\ Bridges \subseteq topology /\ Endpoints \subseteq topology
  BY Filled
<1>15. StackInv(D)'
  <2>1. ASSUME NEW k \in Calls' PROVE frames'[k].bus \notin D
    <3>1. CASE k \in Calls
      BY <1>8, <1>9, <3>1
    <3>2. CASE k = N + 1
      BY <1>5, <1>7, <1>11, <3>2 DEF Scanned
    <3> QED BY <1>10, <3>1, <3>2
  <2>2. ASSUME NEW j \in Calls', NEW k \in Calls', frames'[j].bus = frames'[k].bus
        PROVE  j = k
    <3>1. CASE j \in Calls /\ k \in Calls
      <4>1. frames[j].bus = frames[k].bus
        BY <1>9, <2>2, <3>1
      <4> QED BY <1>8, <3>1, <4>1
    <3>2. \A i \in Calls : frames'[i].bus # frames'[N + 1].bus
      BY ZenonT(40), <1>5, <1>7, <1>9, <1>11
    <3> QED BY <1>10, <2>2, <3>1, <3>2
  <2>3. ASSUME NEW k \in Calls', k # N + 1
        PROVE  /\ frames'[k].called
               /\ \E g \in Bridges : Here(g, frames'[k]) /\ g.secondary = frames'[k + 1].bus
    <3>1. CASE k = N
      <4>1. frames'[k] = n /\ frames'[k + 1] = m
        BY <1>7, <3>1
      <4>2. Here(dev, n) /\ dev.secondary = m.bus /\ dev \in Bridges /\ n.called
        BY <1>2, <1>3, <1>4, <1>5
      <4> QED BY <4>1, <4>2
    <3>2. CASE k # N
      <4>1. /\ k \in Calls /\ k + 1 \in Calls /\ frames'[k] = frames[k]
        BY <1>10, <1>s, <2>3, <3>2
      <4>2. frames[k].called /\ frames'[k + 1].bus = frames[k + 1].bus
        BY <1>8, <1>9, <3>2, <4>1
      <4>3. PICK g \in Bridges : Here(g, frames[k]) /\ g.secondary = frames[k + 1].bus
        BY <1>8, <3>2, <4>1
      <4> QED BY <4>1, <4>2, <4>3
    <3> QED BY <3>1, <3>2
  <2>4. ASSUME NEW b \in Scanned(D)', b # 0
        PROVE  \E g \in Bridges : g.secondary = b /\ Begun(g, D)'
    <3>1. CASE b = dev.secondary
      BY <1>2, <1>13, <3>1
    <3>2. CASE b \in Scanned(D)
      <4>1. PICK g \in Bridges : g.secondary = b /\ Begun(g, D)
        BY <1>8, <2>4, <3>2
      <4>2. Begun(g, D)'
        BY <1>13, <1>14, <4>1
      <4> QED BY <4>1, <4>2
    <3> QED BY <1>12, <2>4, <3>1, <3>2
  <2>5. Len(frames') = N + 1 /\ Bridges' = Bridges
    BY <1>7, <1>14
  <2>6. 0 \in Scanned(D)'
    BY <1>8, <1>12
  <2> QED BY <2>1, <2>2, <2>3, <2>4, <2>5, <2>6 DEF StackInv
<1>16. ~Called'
  BY <1>5, <1>7 DEF Called
<1>17. ReachInv(D)'
  BY <1>1, <1>13, <1>14, <1>16 DEF ReachInv
<1>18. TableInv(D)'
  <2>1. /\ \A f \in Endpoints : Sound(f) /\ Ended(f, D)' => Once(f)
        /\ \A f \in Endpoints : ~Ended(f, D)' => Never(f)
    BY <1>1, <1>13, <1>14 DEF TableInv
  <2>2. \A i \in pci_device_count..(MAX_PCI_DEVICES - 1) : pci_devices'[i].class # "endpoint"
    BY <1>14
  <2> QED BY <1>14, <1>16, <2>1, <2>2 DEF TableInv
<1> QED BY <1>15, <1>17, <1>18 DEF Explored

\* The loops go on from a function that is counted.
LEMMA ExploredCount ==
    ASSUME Inv, NEW D, Explored(D), Count, pci_device_count < MAX_PCI_DEVICES
    PROVE  Explored(D)'
<1>1. /\ StackInv(D) /\ ReachInv(D) /\ TableInv(D)
      /\ frames # <<>> /\ top.called /\ Called /\ top \in Frame /\ top.device < DEVICES
      /\ UNCHANGED <<topology, pci_devices>> /\ pci_device_count' = pci_device_count + 1
      /\ pci_device_count \in Nat /\ MAX_PCI_DEVICES \in Nat
  BY TopType, Sizes DEF Explored, Count, Frame, Called, Inv
<1>2. PICK last : last <=> top.function = 0 /\ ~pci_devices[top.slot].multi
  OBVIOUS
<1>3. PICK n : n = IF last THEN NextDevice(top) ELSE NextFunction(top)
  OBVIOUS
<1>4. topology \subseteq FunctionType /\ Zero \in FunctionType
  BY Machine, Sizes DEF Zero, FunctionType
<1>5. n \in Frame /\ n.bus = top.bus /\ ~n.called /\ frames' = Append(Below, n)
  <2>1. n \in Frame /\ n.bus = top.bus /\ ~n.called
    BY <1>1, <1>3, <1>4, Passing
  <2>2. frames' = Append(Below, n)
    BY <1>2, <1>3 DEF Count
  <2> QED BY <2>1, <2>2
<1>6. \A f \in topology : /\ Past(f, top) \/ Here(f, top) => Past(f, n)
                          /\ ~(Past(f, top) /\ Here(f, top))
  BY <1>1, <1>3, <1>4, Passing
\* Function 0 is no bridge, so its slot still says that there are more.
<1>7. ASSUME NEW f \in topology, Sound(f), Past(f, n)
      PROVE  Past(f, top) \/ Here(f, top)
  <2>1. CASE ~last
    BY <1>1, <1>3, <1>4, <1>7, <2>1, Passing
  <2>2. CASE last
    <3> SUFFICES ASSUME ~(Past(f, top) \/ Here(f, top)) PROVE FALSE
      OBVIOUS
    <3>1. top.function = 0 /\ ~pci_devices[top.slot].multi
      BY <1>2, <2>2
    <3>2. f.bus = top.bus /\ f.device = top.device /\ f.function > top.function
      BY <1>1, <1>3, <1>4, <1>7, <2>2, Passing
    <3>3. f.function # 0
      BY <3>1, <3>2, Machine
    <3>4. PICK z \in topology : Here(z, top)
      BY <1>1 DEF TableInv
    <3>5. z \in At(f.bus, f.device, 0)
      BY <3>1, <3>2, <3>4 DEF At, Here
    <3>6. z.multi /\ z.class # "bridge"
      BY <1>7, <3>3, <3>5 DEF Sound, Visible, Undisturbed
    <3>7. pci_devices[top.slot] = z
      BY <1>1, <3>4, <3>6 DEF TableInv
    <3> QED BY <3>1, <3>6, <3>7
  <2> QED BY <2>1, <2>2
<1>m. Moved(frames', n)
  BY <1>1, <1>5, GoesOn
<1>8. /\ StackInv(D)' /\ top' = n /\ frames' # <<>>
      /\ \A f \in topology :
            Ended(f, D)' <=> IF f.bus = top.bus THEN Past(f, n) ELSE Ended(f, D)
  BY <1>1, <1>5, <1>6, <1>m, Turn
<1>9. \A f \in topology : f.bus = top.bus => (Ended(f, D) <=> Past(f, top))
  BY <1>1, AtTop
<1>10. \A f \in topology : /\ Ended(f, D) \/ Here(f, top) => Ended(f, D)'
                           /\ Sound(f) /\ Ended(f, D)' => Ended(f, D) \/ Here(f, top)
                           /\ ~(Ended(f, D) /\ Here(f, top))
  BY <1>6, <1>7, <1>8, <1>9 DEF Here
<1>11. /\ ~Called' /\ Bridges' = Bridges /\ Endpoints' = Endpoints
       /\ Bridges \subseteq topology /\ Endpoints \subseteq topology
       /\ \A f : Sound(f)' = Sound(f)
  BY <1>1, <1>5, <1>8 DEF Called, Bridges, Endpoints, Sound, Visible, Undisturbed, At
<1>12. ReachInv(D)'
  <2>1. \A g \in Bridges : Sound(g) /\ Ended(g, D)' => g.secondary \in D
    BY <1>1, <1>10, <1>11 DEF ReachInv
  <2> QED BY <1>11, <2>1 DEF ReachInv
<1>13. PICK c : c = pci_device_count
  OBVIOUS
<1>14. /\ c \in Nat /\ c \in c..(MAX_PCI_DEVICES - 1) /\ (c + 1) - 1 = c
       /\ \A j : j \in 0..c <=> j \in 0..(c - 1) \/ j = c
       /\ c \notin 0..(c - 1)
  BY <1>1, <1>13
<1>15. \A f \in Endpoints : pci_devices[c] = f <=> Here(f, top)
  <2>1. \A f \in Endpoints : pci_devices[c] = f => Here(f, top)
    BY <1>1, <1>13, <1>14 DEF TableInv, Endpoints
  <2>2. \A f \in Endpoints : Here(f, top) => pci_devices[c] = f
    BY <1>1, <1>11, <1>13 DEF TableInv, Endpoints
  <2> QED BY <2>1, <2>2
<1>16. \A f : Once(f)' <=> \E i \in 0..c : \A j \in 0..c : pci_devices[j] = f <=> j = i
  BY <1>1, <1>13, <1>14 DEF Once
<1>17. \A f : Never(f)' <=> \A j \in 0..c : pci_devices[j] # f
  BY <1>1, <1>13, <1>14 DEF Never
<1>18. ASSUME NEW f \in Endpoints, Sound(f), Ended(f, D)'
       PROVE  Once(f)'
  <2>1. CASE Ended(f, D)
    <3>1. PICK i \in 0..(c - 1) : \A j \in 0..(c - 1) : pci_devices[j] = f <=> j = i
      BY <1>1, <1>13, <1>18, <2>1 DEF TableInv, Once
    <3>2. pci_devices[c] # f
      BY <1>10, <1>11, <1>15, <2>1
    <3>3. i \in 0..c /\ i # c /\ \A j \in 0..c : pci_devices[j] = f <=> j = i
      BY <1>14, <3>1, <3>2
    <3> QED BY <1>16, <3>3
  <2>2. CASE ~Ended(f, D)
    <3>1. Here(f, top)
      BY <1>10, <1>11, <1>18, <2>2
    <3>2. \A j \in 0..(c - 1) : pci_devices[j] # f
      BY <1>1, <1>13, <2>2 DEF TableInv, Never
    <3>3. pci_devices[c] = f
      BY <1>15, <3>1
    <3>4. c \in 0..c /\ \A j \in 0..c : pci_devices[j] = f <=> j = c
      BY <1>14, <3>2, <3>3
    <3> QED BY <1>16, <3>4
  <2> QED BY <2>1, <2>2
<1>19. ASSUME NEW f \in Endpoints, ~Ended(f, D)'
       PROVE  Never(f)'
  <2>1. ~Ended(f, D) /\ ~Here(f, top)
    BY <1>10, <1>11, <1>19
  <2>2. \A j \in 0..(c - 1) : pci_devices[j] # f
    BY <1>1, <1>13, <2>1 DEF TableInv, Never
  <2>3. pci_devices[c] # f
    BY <1>15, <2>1
  <2> QED BY <1>14, <1>17, <2>2, <2>3
<1>20. TableInv(D)'
  <2>1. \A i \in (c + 1)..(MAX_PCI_DEVICES - 1) :
           i \in c..(MAX_PCI_DEVICES - 1) /\ i # c
    BY <1>14
  <2>2. \A i \in (c + 1)..(MAX_PCI_DEVICES - 1) : pci_devices[i].class # "endpoint"
    BY <1>1, <1>13, <2>1 DEF TableInv
  <2> QED BY <1>1, <1>11, <1>13, <1>18, <1>19, <2>2 DEF TableInv
<1> QED BY <1>8, <1>12, <1>20 DEF Explored

LEMMA ScanInit == Init => ScanInv
<1> SUFFICES ASSUME Init PROVE Explored({})
  BY DEF ScanInv
<1>1. /\ Len(frames) = 1 /\ frames[1] = Call(0) /\ frames # <<>>
      /\ Call(0).bus = 0 /\ Call(0).device = 0 /\ Call(0).function = 0 /\ ~Call(0).called
  BY DEF Init, Call
<1>2. Calls = {1} /\ top = Call(0)
  BY <1>1 DEF Calls, top
<1>3. \A f \in topology : ~Past(f, frames[1])
  BY <1>1, InitInv, Machine, Sizes DEF Past
<1>4. /\ \A f \in topology : ~Ended(f, {})
      /\ Scanned({}) = {0}
  BY <1>1, <1>2, <1>3 DEF Ended, Scanned
<1>5. Bridges \subseteq topology /\ Endpoints \subseteq topology /\ ~Called
  BY <1>1, <1>2 DEF Bridges, Endpoints, Called
<1>6. StackInv({})
  BY <1>1, <1>2, <1>4 DEF StackInv
<1>7. ReachInv({})
  BY <1>4, <1>5 DEF ReachInv
<1>8. /\ pci_device_count = 0
      /\ \A i \in 0..(MAX_PCI_DEVICES - 1) : pci_devices[i].class = "none"
  BY DEF Init, Zero
<1>9. TableInv({})
  BY <1>4, <1>5, <1>8 DEF TableInv, Never
<1> QED BY <1>6, <1>7, <1>9 DEF Explored

LEMMA ScanStep == Inv /\ ScanInv /\ [Next]_pciVars => ScanInv'
<1> SUFFICES ASSUME Inv, ScanInv, [Next]_pciVars,
                    Numbered', (pci_device_count < MAX_PCI_DEVICES)'
             PROVE  \E D \in SUBSET (0..255) : Explored(D)'
  BY DEF ScanInv
<1>1. /\ pci_device_count \in Nat /\ MAX_PCI_DEVICES \in Nat
      /\ topology' = topology
      /\ pci_device_count' = pci_device_count \/ pci_device_count' = pci_device_count + 1
  BY Sizes DEF Next, Skip, Return, Fill, Count, Done, pciVars, Inv
<1>2. Numbered /\ pci_device_count < MAX_PCI_DEVICES
  BY <1>1 DEF Numbered, Bridges
<1>3. PICK D \in SUBSET (0..255) : Explored(D)
  BY <1>2 DEF ScanInv
<1>4. CASE Skip
  BY <1>3, <1>4, ExploredSkip
<1>5. CASE Return
  <2>1. top.device = DEVICES
    BY <1>1, <1>2, <1>5 DEF Return
  <2>2. top \in Frame
    BY <1>5, TopType DEF Return
  <2>3. top.bus \in 0..255
    BY <2>2 DEF Frame, FrameType
  <2>4. PICK E : E = D \union {top.bus}
    OBVIOUS
  <2>5. E \in SUBSET (0..255)
    BY <2>3, <2>4
  <2>6. Explored(E)'
    BY <1>3, <1>5, <2>1, <2>4, ExploredReturn
  <2> QED BY <2>5, <2>6
<1>6. CASE Fill
  <2>1. PICK n : n = [top EXCEPT !.slot = pci_device_count, !.called = TRUE]
    OBVIOUS
  <2>2. PICK dev \in At(top.bus, top.device, top.function) :
          /\ pci_devices' = [pci_devices EXCEPT ![pci_device_count] = dev]
          /\ frames' = Append(Below, n)
                       \o (IF dev.class = "bridge" THEN <<Call(dev.secondary)>> ELSE <<>>)
    BY <1>6, <2>1 DEF Fill
  <2>3. CASE dev.class = "bridge"
    <3>1. PICK m : m = Call(dev.secondary)
      OBVIOUS
    <3>2. frames' = Append(Below, n) \o <<m>>
      BY <2>2, <2>3, <3>1
    <3>3. Explored(D)'
      BY <1>2, <1>3, <1>6, <2>1, <2>2, <2>3, <3>1, <3>2, ExploredCall
    <3> QED BY <3>3
  <2>4. CASE dev.class # "bridge"
    <3>1. top \in Frame /\ frames # <<>> /\ top.device < DEVICES
      BY <1>6, TopType DEF Fill, Scanning
    <3>2. n \in Frame
      <4>1. top \in FrameType /\ pci_device_count \in -1..(MAX_PCI_DEVICES - 1)
        BY <1>1, <1>2, <3>1 DEF Frame
      <4> QED BY ZenonT(40), <2>1, <3>1, <4>1 DEF Frame, FrameType
    <3>3. Append(Below, n) \in Seq(Frame)
      BY <3>1, <3>2, GoesOn
    <3>4. frames' = Append(Below, n)
      BY <2>2, <2>4, <3>3
    <3>5. Explored(D)'
      BY <1>3, <1>6, <2>1, <2>2, <2>4, <3>4, ExploredFill
    <3> QED BY <3>5
  <2> QED BY <2>3, <2>4
<1>7. CASE Count
  BY <1>2, <1>3, <1>7, ExploredCount
<1>8. CASE UNCHANGED pciVars
  <2>1. UNCHANGED <<topology, pci_devices, pci_device_count, frames>>
    BY <1>8 DEF pciVars
  <2>2. /\ Calls' = Calls /\ Called' = Called /\ top' = top
        /\ Bridges' = Bridges /\ Endpoints' = Endpoints
        /\ \A f : Sound(f)' = Sound(f) /\ Once(f)' = Once(f) /\ Never(f)' = Never(f)
    BY <2>1 DEF Calls, Called, top, Bridges, Endpoints, Sound, Visible, Undisturbed, At,
        Once, Never
  <2>3. /\ Scanned(D)' = Scanned(D)
        /\ \A f : Ended(f, D)' = Ended(f, D) /\ Begun(f, D)' = Begun(f, D)
    BY <2>1, <2>2 DEF Scanned, Ended, Begun
  <2>4. StackInv(D)' = StackInv(D)
    BY <2>1, <2>2, <2>3 DEF StackInv
  <2>5. ReachInv(D)' = ReachInv(D)
    BY <2>1, <2>2, <2>3 DEF ReachInv
  <2>6. TableInv(D)' = TableInv(D)
    BY <2>1, <2>2, <2>3 DEF TableInv
  <2>7. Explored(D)'
    BY <1>3, <2>4, <2>5, <2>6 DEF Explored
  <2> QED BY <2>7
<1> QED BY <1>4, <1>5, <1>6, <1>7, <1>8 DEF Next, Done

\* The scan is over: every endpoint of every bus behind sound bridges is in
\* the table once, for every machine and however deep the calls went, if the
\* firmware numbered the buses and the table was not full (pci_scan_bus).
THEOREM EndpointsCorrect == Spec => []EndpointsFound
<1>1. Inv /\ ScanInv => EndpointsFound
  <2> SUFFICES ASSUME Inv, ScanInv, Complete,
                      NEW B, B = {f \in topology : Visible(f) /\ Undisturbed(f)}
                                    \intersect Bridges,
                      NEW f \in topology, Sound(f), f.class = "endpoint",
                      f.bus \in BusesBehind(B)
               PROVE  Cardinality({i \in 0..(pci_device_count - 1) : pci_devices[i] = f}) = 1
    BY DEF EndpointsFound, Sound
  <2>1. PICK D \in SUBSET (0..255) : StackInv(D) /\ ReachInv(D) /\ TableInv(D)
    BY DEF ScanInv, Complete, Explored
  <2>2. frames = <<>> /\ Calls = {}
    BY DEF Complete, Calls
  <2>3. 0 \in D
    BY <2>1, <2>2 DEF StackInv, Scanned
  <2>4. \A g \in B : g \in Bridges /\ Sound(g)
    BY DEF Sound
  <2>5. \A g \in B : g.bus \in D => g.secondary \in D
    BY <2>1, <2>4 DEF ReachInv, Ended
  <2>6. f.bus \in D
    <3>1. PICK buses : buses = {0} \union {c.secondary : c \in B}
      OBVIOUS
    <3>2. \A S \in SUBSET buses :
             0 \in S /\ (\A c \in B : c.bus \in S => c.secondary \in S) => f.bus \in S
      BY <3>1 DEF BusesBehind
    <3>3. PICK S : S = D \intersect buses
      OBVIOUS
    <3>4. S \in SUBSET buses /\ 0 \in S
      BY <2>3, <3>1, <3>3
    <3>5. \A c \in B : c.bus \in S => c.secondary \in S
      BY <2>5, <3>1, <3>3
    <3> QED BY <3>2, <3>3, <3>4, <3>5
  <2>7. Once(f)
    BY <2>1, <2>6 DEF TableInv, Ended, Endpoints
  <2>8. PICK i \in 0..(pci_device_count - 1) :
           \A j \in 0..(pci_device_count - 1) : pci_devices[j] = f <=> j = i
    BY <2>7 DEF Once
  <2>9. {j \in 0..(pci_device_count - 1) : pci_devices[j] = f} = {i}
    BY <2>8
  <2> QED BY <2>9, FS_Singleton
<1> QED BY <1>1, InitInv, InvStep, ScanInit, ScanStep, PTL DEF Spec

=============================================================================
