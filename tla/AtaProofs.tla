----------------------------- MODULE AtaProofs ------------------------------
(***************************************************************************)
(* What holds of the ATA driver for every channel, every number of polls   *)
(* and every request: the types, that the data port is used for the        *)
(* command that was issued and in its direction, and that detection        *)
(* registers each unit once and under its own place.                       *)
(***************************************************************************)
EXTENDS Ata, SequenceTheorems, TLAPS

Unit == 0..1
Ops == {"identify", "read", "write"}
DiskType == [unit : Unit, from : Unit, lba48 : BOOLEAN]

Registers == {"features", "seccount", "low", "mid", "high", "device", "command"}
Values == Int \union (Unit \X Int) \union [op : Ops, lba48 : BOOLEAN]
Output == [reg : Registers, val : Values]

\* Outputs that select unit u and end with a command op
Program(s, op, u) ==
    /\ s \in Seq(Output) /\ Len(s) > 0
    /\ \A i \in 1..Len(s) :
          /\ s[i].reg = "command" <=> i = Len(s)
          /\ s[i].reg = "command" => s[i].val.op = op
          /\ s[i].reg = "device" => s[i].val[1] = u

\* Outputs that may come before it
Prefix(s, u) ==
    /\ s \in Seq(Output)
    /\ \A i \in 1..Len(s) :
          s[i].reg # "command" /\ (s[i].reg = "device" => s[i].val[1] = u)

\* The unit that the request in progress addresses
Target == IF req.op = "identify" THEN drive ELSE Slave

\* Where the driver is follows from what it does.
Identifying == {"presence", "waitready", "errcheck"}
Transferring == {"sector", "waitdrq", "flush", "settle"}

Flow ==
    /\ pc \in {"next", "sector", "out", "presence", "waitready", "errcheck",
               "waitdrq", "data", "flush", "settle"}
    /\ drive \in 0..2 /\ sector \in Nat /\ polls \in 0..(POLLS - 1)
    /\ result \in {0, -1} /\ served \in 0..MaxRequests /\ overrun \in BOOLEAN
    /\ req \in [op : Ops, disk : Nat, lba : Nat, count : Nat]
    /\ disks \in Seq(DiskType)
    /\ plugged \in Channels
    /\ pc \in Identifying => req.op = "identify"
    /\ pc \in Transferring => req.op # "identify"
    /\ pc = "flush" \/ pc = "settle" => req.op = "write"
    /\ req.op = "identify" => drive < 2 \/ pc = "next"
    /\ drive < 2 => req.op = "identify"
    /\ req.op # "identify" => req.disk \in 1..Len(disks)
    /\ pc = "out" => Program(todo, req.op, Target)

\* The units, and the DEVICE register, which names one of them
Hardware ==
    /\ phase \in [Unit -> {"idle", "busy", "in", "out", "storing"}]
    /\ err \in [Unit -> BOOLEAN]
    /\ DOMAIN cmd = Unit
    /\ \A u \in Unit : phase[u] = "busy" => cmd[u].op \in Ops \union {"flush"}
    /\ "device" \in DOMAIN regs /\ selected \in Unit

TypeInv == Flow /\ Hardware

-----------------------------------------------------------------------------
(* The register writes.                                                    *)

LEMMA PlaceValues ==
    LET R == RADIX
    IN  /\ Place(0) = 1 /\ Place(1) = R /\ Place(2) = R * R /\ Place(3) = R * R * R
        /\ Place(4) = R * R * R * R /\ Place(5) = R * R * R * R * R
        /\ Place(6) = R * R * R * R * R * R
BY DEF Place

LEMMA PlaceType == ASSUME NEW i \in 0..6 PROVE Place(i) \in Nat \ {0}
<1>1. RADIX \in Nat \ {0}
  BY AtaAssumption
<1>2. ASSUME NEW a \in Nat \ {0}, NEW b \in Nat \ {0} PROVE a * b \in Nat \ {0}
  OBVIOUS
<1>3. i = 0 \/ i = 1 \/ i = 2 \/ i = 3 \/ i = 4 \/ i = 5 \/ i = 6
  OBVIOUS
<1> QED BY <1>1, <1>2, <1>3, PlaceValues

LEMMA DigitType ==
    ASSUME NEW lba \in Nat, NEW i \in 0..5
    PROVE  Digit(lba, i) \in Int
<1>1. RADIX \in Nat \ {0} /\ Place(i) \in Nat \ {0}
  BY AtaAssumption, PlaceType
<1>2. lba \div Place(i) \in Nat
  BY <1>1
<1> QED BY <1>1, <1>2 DEF Digit

LEMMA TailProgram ==
    ASSUME NEW s, NEW op, NEW u, Program(s, op, u), Tail(s) # <<>>
    PROVE  Program(Tail(s), op, u)
<1>1. s \in Seq(Output) /\ Len(s) \in Nat /\ s # <<>>
  BY LenProperties DEF Program
<1>2. /\ Tail(s) \in Seq(Output) /\ Len(Tail(s)) = Len(s) - 1
      /\ \A i \in 1..Len(Tail(s)) : Tail(s)[i] = s[i + 1]
  BY <1>1, HeadTailProperties
<1>3. Len(Tail(s)) > 0
  BY <1>2, EmptySeq
<1>4. ASSUME NEW i \in 1..Len(Tail(s))
      PROVE  /\ Tail(s)[i].reg = "command" <=> i = Len(Tail(s))
             /\ Tail(s)[i].reg = "command" => Tail(s)[i].val.op = op
             /\ Tail(s)[i].reg = "device" => Tail(s)[i].val[1] = u
  <2>1. i + 1 \in 1..Len(s) /\ Tail(s)[i] = s[i + 1]
    BY <1>1, <1>2
  <2>2. i = Len(Tail(s)) <=> i + 1 = Len(s)
    BY <1>1, <1>2
  <2> QED BY <2>1, <2>2 DEF Program
<1> QED BY <1>2, <1>3, <1>4 DEF Program

LEMMA HeadProgram ==
    ASSUME NEW s, NEW op, NEW u, Program(s, op, u)
    PROVE  /\ Head(s).reg = "command" <=> Tail(s) = <<>>
           /\ Head(s).reg = "command" => Head(s).val.op = op
           /\ Head(s).reg = "device" => Head(s).val[1] = u
<1>1. s \in Seq(Output) /\ Len(s) \in Nat /\ s # <<>> /\ 1 \in 1..Len(s)
  BY LenProperties DEF Program
<1>2. Head(s) = s[1]
  BY <1>1
<1>3. Tail(s) = <<>> <=> 1 = Len(s)
  <2>1. Tail(s) \in Seq(Output) /\ Len(Tail(s)) = Len(s) - 1
    BY <1>1, HeadTailProperties
  <2>2. Tail(s) = <<>> <=> Len(Tail(s)) = 0
    BY <2>1, EmptySeq
  <2> QED BY <1>1, <2>1, <2>2
<1> QED BY <1>1, <1>2, <1>3 DEF Program

LEMMA EmptyPrefix == ASSUME NEW u PROVE Prefix(<<>>, u)
BY EmptySeq DEF Prefix

LEMMA OnePrefix ==
    ASSUME NEW u, NEW reg \in Registers \ {"command"}, NEW val \in Values,
           reg = "device" => val[1] = u
    PROVE  Prefix(<<Out(reg, val)>>, u)
<1> DEFINE o == Out(reg, val)
<1>1. o \in Output /\ o.reg = reg /\ o.val = val
  BY DEF Out, Output
<1> HIDE DEF o
<1>2. <<o>> \in Seq(Output) /\ Len(<<o>>) = 1 /\ <<o>>[1] = o
  BY <1>1
<1> QED BY <1>1, <1>2 DEF Prefix, o

LEMMA ConcatPrefix ==
    ASSUME NEW s, NEW t, NEW u, Prefix(s, u), Prefix(t, u)
    PROVE  Prefix(s \o t, u)
<1>1. /\ s \o t \in Seq(Output) /\ Len(s \o t) = Len(s) + Len(t)
      /\ \A i \in 1..(Len(s) + Len(t)) :
            (s \o t)[i] = IF i <= Len(s) THEN s[i] ELSE t[i - Len(s)]
      /\ Len(s) \in Nat /\ Len(t) \in Nat
  BY ConcatProperties, LenProperties DEF Prefix
<1>2. ASSUME NEW i \in 1..Len(s \o t)
      PROVE  \/ \E j \in 1..Len(s) : (s \o t)[i] = s[j]
             \/ \E j \in 1..Len(t) : (s \o t)[i] = t[j]
  <2>1. CASE i <= Len(s)
    BY <1>1, <2>1
  <2>2. CASE i > Len(s)
    <3>1. i - Len(s) \in 1..Len(t) /\ (s \o t)[i] = t[i - Len(s)]
      BY <1>1, <2>2
    <3> QED BY <3>1
  <2> QED BY <1>1, <2>1, <2>2
<1> QED BY <1>1, <1>2 DEF Prefix

LEMMA EndProgram ==
    ASSUME NEW s, NEW u, Prefix(s, u), NEW op \in Ops, NEW lba48 \in BOOLEAN
    PROVE  Program(s \o <<Out("command", [op |-> op, lba48 |-> lba48])>>, op, u)
<1> DEFINE c == Out("command", [op |-> op, lba48 |-> lba48])
           t == <<c>>
<1>1. c \in Output /\ c.reg = "command" /\ c.val.op = op
  BY DEF Out, Output, Registers, Values
<1> HIDE DEF c
<1>2. t \in Seq(Output) /\ Len(t) = 1 /\ t[1] = c
  BY <1>1
<1> HIDE DEF t
<1>3. /\ s \o t \in Seq(Output) /\ Len(s \o t) = Len(s) + 1
      /\ \A i \in 1..(Len(s) + 1) :
            (s \o t)[i] = IF i <= Len(s) THEN s[i] ELSE t[i - Len(s)]
      /\ Len(s) \in Nat
  <2>1. s \in Seq(Output)
    BY DEF Prefix
  <2>2. Len(s) \in Nat
    BY <2>1, LenProperties
  <2>3. /\ s \o t \in Seq(Output) /\ Len(s \o t) = Len(s) + Len(t)
        /\ \A i \in 1..(Len(s) + Len(t)) :
              (s \o t)[i] = IF i <= Len(s) THEN s[i] ELSE t[i - Len(s)]
    BY <1>2, <2>1, ConcatProperties
  <2> QED BY <1>2, <2>2, <2>3
<1>4. ASSUME NEW i \in 1..Len(s \o t)
      PROVE  /\ (s \o t)[i].reg = "command" <=> i = Len(s \o t)
             /\ (s \o t)[i].reg = "command" => (s \o t)[i].val.op = op
             /\ (s \o t)[i].reg = "device" => (s \o t)[i].val[1] = u
  <2>1. CASE i <= Len(s)
    <3>1. i \in 1..Len(s) /\ (s \o t)[i] = s[i] /\ i # Len(s \o t)
      BY <1>3, <2>1
    <3> QED BY <3>1 DEF Prefix
  <2>2. CASE i > Len(s)
    <3>1. i = Len(s) + 1 /\ i - Len(s) = 1
      BY <1>3, <2>2
    <3>2. (s \o t)[i] = c /\ i = Len(s \o t)
      BY <1>2, <1>3, <2>2, <3>1
    <3> QED BY <1>1, <3>2
  <2> QED BY <1>3, <2>1, <2>2
<1>5. Len(s \o t) > 0
  BY <1>3
<1>6. Program(s \o t, op, u)
  BY <1>3, <1>4, <1>5 DEF Program
<1> QED BY <1>6 DEF c, t

\* Four and five outputs that neither select a unit nor are a command
Plain == {o \in Output : o.reg \notin {"command", "device"}}

LEMMA PlainPrefix ==
    ASSUME NEW u, NEW s \in Seq(Plain)
    PROVE  Prefix(s, u)
<1>1. Plain \subseteq Output
  BY DEF Plain
<1>2. s \in Seq(Output)
  BY <1>1, SeqMonotonic
<1>3. \A i \in 1..Len(s) : s[i] \in Plain
  BY ElementOfSeq
<1> QED BY <1>2, <1>3 DEF Prefix, Plain

LEMMA PlainOut ==
    ASSUME NEW reg \in Registers \ {"command", "device"}, NEW val \in Int
    PROVE  Out(reg, val) \in Plain
BY DEF Plain, Out, Output, Values

LEMMA SelectPrefix ==
    ASSUME NEW is_master \in {0, 1}, NEW lba \in Nat, NEW lba48 \in BOOLEAN
    PROVE  Prefix(SelectDrive(is_master, lba, lba48),
                  IF is_master = 1 THEN Master ELSE Slave)
<1> DEFINE u == IF is_master = 1 THEN Master ELSE Slave
           y == <<Out("features", 0), Out("seccount", 0),
                  Out("high", Digit(lba, 3)), Out("mid", Digit(lba, 4)),
                  Out("low", Digit(lba, 5))>>
           d == <<Out("device", Device(u, lba))>>
<1>1. Prefix(d, u)
  <2>1. Device(u, lba) \in Values /\ Device(u, lba)[1] = u
    <3>1. Digit(lba, 3) \in Int /\ NIBBLE \in Nat \ {0}
      BY DigitType, AtaAssumption
    <3>2. Digit(lba, 3) % NIBBLE \in Int
      BY <3>1
    <3> QED BY <3>2 DEF Device, Values, Unit, Master, Slave
  <2> QED BY <2>1, OnePrefix DEF Registers
<1>2. Prefix(y, u)
  <2>1. y \in Seq(Plain)
    <3>1. /\ Out("features", 0) \in Plain /\ Out("seccount", 0) \in Plain
          /\ Out("high", Digit(lba, 3)) \in Plain /\ Out("mid", Digit(lba, 4)) \in Plain
          /\ Out("low", Digit(lba, 5)) \in Plain
      BY DigitType, PlainOut DEF Registers
    <3> QED BY <3>1
  <2> QED BY <2>1, PlainPrefix
<1> HIDE DEF y, u
<1>3. SelectDrive(is_master, lba, lba48) = (IF lba48 THEN y ELSE <<>>) \o d
  BY DEF SelectDrive, u, y
<1> HIDE DEF d
<1> QED BY <1>1, <1>2, <1>3, EmptyPrefix, ConcatPrefix DEF u

LEMMA IdentifyProgram ==
    ASSUME NEW u \in Unit
    PROVE  Program(IdentifyWrites(u), "identify", u)
<1>1. Prefix(SelectDrive(IF u = 0 THEN 1 ELSE 0, 0, FALSE), u)
  <2>1. (IF (IF u = 0 THEN 1 ELSE 0) = 1 THEN Master ELSE Slave) = u
    BY DEF Unit, Master, Slave
  <2>2. (IF u = 0 THEN 1 ELSE 0) \in {0, 1} /\ 0 \in Nat
    OBVIOUS
  <2> QED BY <2>1, <2>2, SelectPrefix
<1> QED BY <1>1, EndProgram DEF IdentifyWrites, Ops

LEMMA SectorProgram ==
    ASSUME NEW op \in {"read", "write"}, NEW lba \in Nat, NEW lba48 \in BOOLEAN
    PROVE  Program(SectorWrites(op, lba, lba48), op, Slave)
<1> DEFINE a == SelectDrive(0, lba, lba48)
           b == IF lba48 THEN <<Out("features", 0)>> ELSE <<>>
           x == <<Out("seccount", 1), Out("low", Digit(lba, 0)),
                  Out("mid", Digit(lba, 1)), Out("high", Digit(lba, 2))>>
           c == Out("command", [op |-> op, lba48 |-> lba48])
<1>1. Prefix(a, Slave)
  BY SelectPrefix
<1>2. Prefix(b, Slave)
  BY OnePrefix, EmptyPrefix DEF Registers, Values
<1>3. Prefix(x, Slave)
  <2>1. /\ Out("seccount", 1) \in Plain /\ Out("low", Digit(lba, 0)) \in Plain
        /\ Out("mid", Digit(lba, 1)) \in Plain /\ Out("high", Digit(lba, 2)) \in Plain
    BY DigitType, PlainOut DEF Registers
  <2>2. x \in Seq(Plain)
    BY <2>1
  <2> QED BY <2>2, PlainPrefix
<1>4. SectorWrites(op, lba, lba48) = ((a \o b) \o x) \o <<c>>
  BY DEF SectorWrites
<1> HIDE DEF a, b, x
<1>5. Prefix((a \o b) \o x, Slave)
  BY <1>1, <1>2, <1>3, ConcatPrefix
<1> QED BY <1>4, <1>5, EndProgram DEF Ops

-----------------------------------------------------------------------------
(* Types.                                                                  *)

LEMMA TypeFromInv == TypeInv => TypeOK
<1> SUFFICES ASSUME TypeInv PROVE TypeOK
  OBVIOUS
<1>1. \A i \in DOMAIN disks : disks[i].unit \in 0..1 /\ disks[i].from \in 0..1
  <2>1. \A i \in DOMAIN disks : disks[i] \in DiskType
    BY DEF TypeInv, Flow
  <2> QED BY <2>1 DEF DiskType, Unit
<1> QED BY <1>1 DEF TypeInv, Flow, Hardware, TypeOK, Unit

LEMMA InitType == Init => TypeInv
<1> SUFFICES ASSUME Init PROVE TypeInv
  OBVIOUS
<1>1. 0 \in 0..(POLLS - 1) /\ 0 \in 0..MaxRequests
  BY AtaAssumption
<1>2. Hardware
  BY DEF Init, Hardware, Unit, selected, At
<1>3. Flow
  <2>1. req \in [op : Ops, disk : Nat, lba : Nat, count : Nat] /\ req.op = "identify"
    BY DEF Init, Ops
  <2>2. disks \in Seq(DiskType)
    BY DEF Init
  <2>3. /\ pc = "next" /\ drive = 0 /\ sector = 0 /\ polls = 0 /\ result = -1
        /\ served = 0 /\ plugged \in Channels
    BY DEF Init
  <2>4. overrun \in BOOLEAN
    BY Zenon DEF Init
  <2> QED BY <1>1, <2>1, <2>2, <2>3, <2>4 DEF Flow, Identifying, Transferring
<1> QED BY <1>2, <1>3 DEF TypeInv

\* What a write to a register does to the selected unit
LEMMA SelectedAfterWrite ==
    ASSUME "device" \in DOMAIN regs, selected \in Unit,
           NEW reg, NEW val, RegisterWrite(reg, val),
           reg = "device" => val[1] \in Unit
    PROVE  /\ "device" \in DOMAIN regs' /\ selected' \in Unit
           /\ phase[selected] = "idle" =>
                selected' = IF reg = "device" THEN val[1] ELSE selected
<1>1. CASE Accept(reg, val)
  <2>1. /\ DOMAIN regs' = DOMAIN regs
        /\ regs'["device"] = IF reg = "device" THEN [now |-> val, before |-> regs[reg].now]
                                               ELSE regs["device"]
    BY <1>1 DEF Accept
  <2>2. CASE reg = "device"
    BY <2>1, <2>2 DEF selected, At
  <2>3. CASE reg # "device"
    BY <2>1, <2>3 DEF selected, At
  <2> QED BY <2>2, <2>3
<1>2. CASE phase[selected] # "idle" /\ UNCHANGED regs
  BY <1>2 DEF selected, At
<1> QED BY <1>1, <1>2 DEF RegisterWrite

\* What a command does to the units
LEMMA CommandHardware ==
    ASSUME Hardware, NEW c, c.op \in Ops \union {"flush"}, CommandWrite(c)
    PROVE  Hardware'
<1>1. UNCHANGED regs /\ UNCHANGED selected
  BY DEF CommandWrite, selected, At
<1>2. CASE Present(selected) /\ phase[selected] = "idle"
  <2>1. /\ phase' = [phase EXCEPT ![selected] = "busy"]
        /\ cmd' = [cmd EXCEPT ![selected] = [op |-> c.op, lba |-> Addressed(c.lba48)]]
        /\ err' = [err EXCEPT ![selected] = FALSE]
    BY <1>2 DEF CommandWrite
  <2>2. DOMAIN cmd' = Unit /\ cmd'[selected].op = c.op
        /\ \A u \in Unit : u # selected => cmd'[u] = cmd[u]
    BY <2>1 DEF Hardware
  <2>3. phase' \in [Unit -> {"idle", "busy", "in", "out", "storing"}]
        /\ \A u \in Unit : u # selected => phase'[u] = phase[u]
    BY <2>1 DEF Hardware
  <2>4. err' \in [Unit -> BOOLEAN]
    BY <2>1 DEF Hardware
  <2>5. ASSUME NEW u \in Unit, phase'[u] = "busy"
        PROVE  cmd'[u].op \in Ops \union {"flush"}
    <3>1. CASE u = selected
      BY <2>2, <3>1
    <3>2. CASE u # selected
      BY <2>2, <2>3, <2>5, <3>2 DEF Hardware
    <3> QED BY <3>1, <3>2
  <2> QED BY <1>1, <2>2, <2>3, <2>4, <2>5 DEF Hardware
<1>3. CASE ~ (Present(selected) /\ phase[selected] = "idle")
  <2>1. UNCHANGED <<phase, cmd, err>>
    BY <1>3 DEF CommandWrite
  <2> QED BY <1>1, <2>1 DEF Hardware
<1> QED BY <1>2, <1>3

\* What a step of a drive does to them
LEMMA DriveHardware ==
    ASSUME Hardware, NEW u \in Unit, Proceed(u) \/ Store(u) \/ Abort(u), UNCHANGED regs
    PROVE  Hardware'
<1>1. UNCHANGED cmd /\ UNCHANGED selected
  BY DEF Proceed, Store, Abort, selected, At
<1>2. /\ phase' \in [Unit -> {"idle", "busy", "in", "out", "storing"}]
      /\ err' \in [Unit -> BOOLEAN]
      /\ \A v \in Unit : phase'[v] = "busy" => phase[v] = "busy"
  <2>1. CASE Proceed(u)
    <3>1. cmd[u].op \in {"identify", "read", "write", "flush"}
      BY <2>1 DEF Hardware, Proceed, Ops
    <3>2. \E p \in {"in", "out", "idle"} : phase' = [phase EXCEPT ![u] = p]
      BY <2>1, <3>1 DEF Proceed
    <3> QED BY <2>1, <3>2 DEF Hardware, Proceed
  <2>2. CASE Store(u)
    BY <2>2 DEF Hardware, Store
  <2>3. CASE Abort(u)
    BY <2>3 DEF Hardware, Abort
  <2> QED BY <2>1, <2>2, <2>3
<1> QED BY <1>1, <1>2 DEF Hardware

\* Nothing else that the driver does disturbs them.
LEMMA DriverHardware == TypeInv /\ DriverStep => Hardware'
<1> SUFFICES ASSUME TypeInv, DriverStep PROVE Hardware'
  OBVIOUS
<1> DEFINE Same == UNCHANGED <<phase, cmd, err, regs>>
<1>1. Same => Hardware'
  BY DEF TypeInv, Hardware, selected, At
<1>2. ASSUME NEW p \in {"in", "out"}, NEW q \in {"idle", "storing"},
             phase' = [phase EXCEPT ![selected] = IF @ = p THEN q ELSE @],
             UNCHANGED <<cmd, err, regs>>
      PROVE  Hardware'
  BY <1>2 DEF TypeInv, Hardware, selected, At
<1>3. CASE OutB
  <2>1. Program(todo, req.op, Target) /\ pc = "out" /\ req.op \in Ops /\ Target \in Unit
    BY <1>3 DEF OutB, TypeInv, Flow, Target, Unit, Slave
  <2>2. CASE Head(todo).reg = "command"
    <3>1. CommandWrite(Head(todo).val) /\ Head(todo).val.op \in Ops \union {"flush"}
      BY <1>3, <2>1, <2>2, HeadProgram DEF OutB
    <3> QED BY <3>1, CommandHardware DEF TypeInv
  <2>3. CASE Head(todo).reg # "command"
    <3>1. RegisterWrite(Head(todo).reg, Head(todo).val)
          /\ (Head(todo).reg = "device" => Head(todo).val[1] \in Unit)
      BY <1>3, <2>1, <2>3, HeadProgram DEF OutB
    <3>2. "device" \in DOMAIN regs' /\ selected' \in Unit
      BY <3>1, SelectedAfterWrite DEF TypeInv, Hardware
    <3> QED BY <3>1, <3>2 DEF RegisterWrite, units, TypeInv, Hardware
  <2> QED BY <2>2, <2>3
<1>4. CASE Register \/ ReadSector
  BY <1>2, <1>4 DEF Register, ReadSector, Drained
<1>5. CASE WriteSector
  BY <1>2, <1>5 DEF WriteSector
<1>6. CASE Flush
  BY <1>6, CommandHardware DEF Flush, TypeInv
<1>7. CASE Probe \/ BeginSector \/ Presence \/ WaitReady \/ Settle \/ WaitDrq \/ ErrCheck
  BY <1>1, <1>7 DEF Probe, BeginSector, Presence, WaitReady, Settle, WaitDrq, ErrCheck, units
<1> QED BY <1>3, <1>4, <1>5, <1>6, <1>7 DEF DriverStep

LEMMA GiveUpType == GiveUp => overrun' \in BOOLEAN
BY Zenon DEF GiveUp

LEMMA DriverFlow == TypeInv /\ DriverStep => Flow'
<1> SUFFICES ASSUME TypeInv, DriverStep PROVE Flow'
  OBVIOUS
<1> USE DEF Flow, Identifying, Transferring, Goto, Return, driver, transfer
<1>1. Flow /\ plugged' = plugged /\ POLLS \in Nat \ {0} /\ MaxRequests \in Nat
  BY AtaAssumption DEF DriverStep, TypeInv
<1>2. CASE Probe
  <2>1. drive \in Unit /\ req.op = "identify" /\ todo' = IdentifyWrites(drive)
    BY <1>1, <1>2 DEF Probe, Unit
  <2>2. Program(todo', "identify", drive)
    BY <2>1, IdentifyProgram
  <2>3. Program(todo, req.op, Target)'
    BY <1>2, <2>1, <2>2 DEF Probe, Target
  <2> QED BY <1>1, <1>2, <2>3 DEF Probe
<1>3. CASE BeginSector
  <2>1. CASE sector < req.count
    <3>1. disks[req.disk] \in DiskType /\ req.op \in {"read", "write"}
          /\ req.lba + sector \in Nat
      BY <1>1, <1>3, ElementOfSeq DEF BeginSector, Ops
    <3>2. Program(todo', req.op, Slave)
      BY <1>3, <2>1, <3>1, SectorProgram DEF BeginSector, DiskType
    <3>3. Program(todo, req.op, Target)'
      BY <1>3, <2>1, <3>1, <3>2 DEF BeginSector, Target
    <3> QED BY <1>1, <1>3, <2>1, <3>3 DEF BeginSector
  <2>2. CASE ~ (sector < req.count)
    BY <1>1, <1>3, <2>2 DEF BeginSector
  <2> QED BY <2>1, <2>2
<1>4. CASE OutB
  <2>1. Program(todo, req.op, Target)
    BY <1>1, <1>4 DEF OutB
  <2>2. Tail(todo) # <<>> => Program(Tail(todo), req.op, Target)
    BY <2>1, TailProgram
  <2>3. Tail(todo) # <<>> => Program(todo, req.op, Target)'
    BY <1>4, <2>2 DEF OutB, Target
  <2> QED BY <1>1, <1>4, <2>3 DEF OutB
<1>5. CASE Presence
  BY SMTT(30), <1>1, <1>5 DEF Presence
<1>6. CASE WaitReady
  <2>0. UNCHANGED overrun \/ GiveUp
    BY <1>6 DEF WaitReady, PollAgain
  <2>1. overrun' \in BOOLEAN /\ polls' \in 0..(POLLS - 1)
    <3>1. overrun' \in BOOLEAN
      BY <1>1, <2>0, GiveUpType
    <3>2. polls' \in 0..(POLLS - 1)
      BY <1>1, <1>6 DEF WaitReady, PollAgain
    <3> QED BY <3>1, <3>2
  <2>2. /\ UNCHANGED <<disks, req, served, sector>> /\ pc = "waitready"
        /\ \/ pc' \in {"errcheck", "waitready"} /\ UNCHANGED <<drive, result>>
           \/ pc' = "next" /\ drive' = drive + 1 /\ UNCHANGED result
    BY <1>1, <1>6 DEF WaitReady, PollAgain
  <2> HIDE DEF Goto, Return
  <2> QED BY <1>1, <2>1, <2>2
<1>7. CASE Settle
  <2>0. UNCHANGED overrun \/ GiveUp
    BY <1>7 DEF Settle, PollAgain
  <2>1. overrun' \in BOOLEAN /\ polls' \in 0..(POLLS - 1)
    <3>1. overrun' \in BOOLEAN
      BY <1>1, <2>0, GiveUpType
    <3>2. polls' \in 0..(POLLS - 1)
      BY <1>1, <1>7 DEF Settle, PollAgain
    <3> QED BY <3>1, <3>2
  <2>2. /\ UNCHANGED <<disks, req, served, drive, result>> /\ pc = "settle"
        /\ \/ pc' = "settle" /\ sector' = sector
           \/ pc' = "sector" /\ sector' = sector + 1
    BY <1>1, <1>7 DEF Settle, PollAgain
  <2> HIDE DEF Goto, Return
  <2> QED BY <1>1, <2>1, <2>2
<1>8. CASE WaitDrq
  <2>0. UNCHANGED overrun \/ GiveUp
    BY <1>8 DEF WaitDrq, PollAgain
  <2>1. overrun' \in BOOLEAN /\ polls' \in 0..(POLLS - 1)
    <3>1. overrun' \in BOOLEAN
      BY <1>1, <2>0, GiveUpType
    <3>2. polls' \in 0..(POLLS - 1)
      BY <1>1, <1>8 DEF WaitDrq, PollAgain
    <3> QED BY <3>1, <3>2
  <2>2. /\ UNCHANGED <<disks, req, served, sector, drive>> /\ pc = "waitdrq"
        /\ \/ pc' \in {"data", "waitdrq"} /\ UNCHANGED result
           \/ pc' = "next" /\ result' = -1
    BY <1>1, <1>8 DEF WaitDrq, PollAgain
  <2> HIDE DEF Goto, Return
  <2> QED BY <1>1, <2>1, <2>2
<1>9. CASE ErrCheck
  BY <1>1, <1>9 DEF ErrCheck
<1>10. CASE Register
  <2>1. drive \in Unit
    BY <1>1, <1>10 DEF Register, Unit
  <2>2. ASSUME DataIn.lba = -1
        PROVE  [unit |-> drive, from |-> DataIn.unit,
                lba48 |-> plugged[DataIn.unit].lba48] \in DiskType
    <3>1. DataIn.unit \in Unit
      BY <2>2 DEF DataIn, TypeInv, Hardware
    <3>2. plugged[DataIn.unit].lba48 \in BOOLEAN
      BY <1>1, <3>1, AtaAssumption DEF Unit
    <3> QED BY <2>1, <3>1, <3>2 DEF DiskType
  <2>3. disks' \in Seq(DiskType)
    BY <1>1, <1>10, <2>2, AppendProperties DEF Register
  <2>4. /\ pc' = "next" /\ drive' = drive + 1 /\ req.op = "identify" /\ drive < 2
        /\ UNCHANGED <<req, served, sector, polls, result, overrun>>
    BY <1>1, <1>10 DEF Register
  <2> QED BY <1>1, <2>3, <2>4
<1>11. CASE ReadSector
  BY <1>1, <1>11 DEF ReadSector
<1>12. CASE WriteSector
  BY <1>1, <1>12 DEF WriteSector
<1>13. CASE Flush
  BY <1>1, <1>13 DEF Flush
<1> QED BY <1>2, <1>3, <1>4, <1>5, <1>6, <1>7, <1>8, <1>9, <1>10, <1>11, <1>12,
           <1>13 DEF DriverStep

LEMMA TypeStep == TypeInv /\ [Next]_ataVars => TypeInv'
<1> SUFFICES ASSUME TypeInv, [Next]_ataVars PROVE TypeInv'
  OBVIOUS
<1>1. CASE DriverStep
  BY <1>1, DriverHardware, DriverFlow DEF TypeInv
<1>2. CASE Caller
  <2>1. PICK op \in {"read", "write"}, d \in DOMAIN disks, l \in Lbas, n \in Counts :
            Request(op, d, l, n) /\ UNCHANGED plugged
    BY <1>2 DEF Caller
  <2>2. Hardware'
    BY <2>1 DEF Request, units, TypeInv, Hardware, selected, At
  <2>3. req' \in [op : Ops, disk : Nat, lba : Nat, count : Nat]
        /\ req'.op = op /\ req'.disk \in 1..Len(disks)
    BY <2>1, AtaAssumption DEF Request, TypeInv, Flow, Ops
  <2>4. /\ UNCHANGED <<drive, disks, polls, result, overrun, plugged>>
        /\ pc' = "sector" /\ drive = 2 /\ sector' = 0 /\ served' = served + 1
        /\ served < MaxRequests
    BY <2>1 DEF Request, Goto
  <2>5. Flow'
    BY <2>3, <2>4, AtaAssumption DEF TypeInv, Flow, Identifying, Transferring
  <2> QED BY <2>2, <2>5 DEF TypeInv
<1>3. CASE DriveStep
  <2>1. PICK u \in Unit : Proceed(u) \/ Store(u) \/ Abort(u)
    BY <1>3 DEF DriveStep, Unit
  <2>2. UNCHANGED <<pc, driver, transfer, regs, plugged, overrun>>
    BY <1>3 DEF DriveStep
  <2>3. Hardware'
    BY <2>1, <2>2, DriveHardware DEF TypeInv
  <2>4. Flow'
    BY <2>2 DEF TypeInv, Flow, driver, transfer, Target
  <2> QED BY <2>3, <2>4 DEF TypeInv
<1>4. CASE UNCHANGED ataVars
  BY <1>4 DEF ataVars, driver, transfer, units, TypeInv, Flow, Hardware, Target,
              selected, At
<1> QED BY <1>1, <1>2, <1>3, <1>4 DEF Next, Done

LEMMA TypeInvariant == Spec => []TypeInv
<1> QED BY InitType, TypeStep, PTL DEF Spec

\* The types of the driver's and of the units' state, for every channel.
THEOREM AtaTypeCorrect == Spec => []TypeOK
<1> QED BY TypeInvariant, TypeFromInv, PTL

-----------------------------------------------------------------------------
(* What the units do while the driver is at each place.                    *)

\* The selected unit works on the command issued and is in one of phases, or
\* it has refused it.
Issued(phases) ==
    \/ phase[selected] = "idle" /\ (err[selected] \/ ~Present(selected))
    \/ /\ phase[selected] \in phases
       /\ cmd[selected].op = req.op
       /\ Present(selected)

Direction == IF req.op = "write" THEN "out" ELSE "in"

\* Until a wait gives up on a unit, no unit but the selected one is at work, and
\* that one is where the driver takes it to be.
PhaseInv ==
    ~overrun =>
        /\ \A u \in Unit : u # selected => phase[u] = "idle"
        /\ \A u \in Unit : err[u] => phase[u] = "idle"
        /\ pc \in {"next", "sector", "out"} => phase[selected] = "idle"
        /\ pc \in {"presence", "waitready"} => Issued({"busy", "in"})
        /\ pc \in {"waitready", "errcheck"} => Present(selected)
        /\ pc = "errcheck" => Issued({"in"})
        /\ pc = "waitdrq" => Issued({"busy", Direction})
        /\ pc = "data" => phase[selected] = Direction /\ cmd[selected].op = req.op
        /\ pc = "flush" => phase[selected] \in {"idle", "storing"}
        /\ pc = "settle" => \/ phase[selected] \in {"idle", "storing"}
                            \/ phase[selected] = "busy" /\ cmd[selected].op = "flush"

LEMMA InitPhase == Init => PhaseInv
BY DEF Init, PhaseInv, Unit, selected, At

LEMMA CommandPhase ==
    ASSUME TypeInv, NEW c, CommandWrite(c), phase[selected] = "idle",
           \A u \in Unit : u # selected => phase[u] = "idle",
           \A u \in Unit : err[u] => phase[u] = "idle"
    PROVE  /\ UNCHANGED selected
           /\ \A u \in Unit : u # selected => phase'[u] = "idle"
           /\ \A u \in Unit : err'[u] => phase'[u] = "idle"
           /\ \/ phase'[selected] = "idle" /\ ~Present(selected)
              \/ /\ phase'[selected] = "busy" /\ cmd'[selected].op = c.op
                 /\ Present(selected)
<1>1. UNCHANGED selected /\ selected \in Unit
  BY DEF CommandWrite, TypeInv, Hardware, selected, At
<1>2. CASE Present(selected)
  <2>1. /\ phase' = [phase EXCEPT ![selected] = "busy"]
        /\ cmd' = [cmd EXCEPT ![selected] = [op |-> c.op, lba |-> Addressed(c.lba48)]]
        /\ err' = [err EXCEPT ![selected] = FALSE]
    BY <1>2 DEF CommandWrite
  <2>2. phase'[selected] = "busy" /\ cmd'[selected].op = c.op
    BY <1>1, <2>1 DEF TypeInv, Hardware
  <2>3. \A u \in Unit : u # selected => phase'[u] = phase[u] /\ (err'[u] <=> err[u])
    BY <2>1 DEF TypeInv, Hardware
  <2>4. ~err'[selected]
    BY <1>1, <2>1 DEF TypeInv, Hardware
  <2> QED BY <1>1, <1>2, <2>2, <2>3, <2>4
<1>3. CASE ~Present(selected)
  BY <1>1, <1>3 DEF CommandWrite
<1> QED BY <1>2, <1>3

\* A step of the drive keeps the selected unit where the driver takes it to be.
LEMMA DrivePhase == TypeInv /\ PhaseInv /\ DriveStep => PhaseInv'
<1> SUFFICES ASSUME TypeInv, PhaseInv, DriveStep, ~overrun PROVE PhaseInv'
  BY DEF PhaseInv, DriveStep
<1>1. PICK u \in Unit : Proceed(u) \/ Store(u) \/ Abort(u)
  BY DEF DriveStep, Unit
<1>2. UNCHANGED <<pc, req, regs, plugged, overrun, cmd>>
  BY <1>1 DEF DriveStep, driver, transfer, Proceed, Store, Abort
<1>3. UNCHANGED <<selected, Direction>> /\ (Present(selected))' = Present(selected)
  BY <1>2 DEF selected, At, Direction, Present
<1>4. u = selected /\ u \in Unit
  BY <1>1 DEF PhaseInv, Proceed, Store, Abort
<1>5. \A v \in Unit : v # u => phase'[v] = phase[v] /\ err'[v] = err[v]
  BY <1>1 DEF Proceed, Store, Abort, TypeInv, Hardware
<1>6. CASE Proceed(u)
  <2>1. phase[u] = "busy" /\ UNCHANGED err
    BY <1>6 DEF Proceed
  <2>2. cmd[u].op \in {"identify", "read", "write", "flush"}
    BY <1>4, <2>1 DEF TypeInv, Hardware, Ops
  <2>3. phase'[u] = CASE cmd[u].op \in {"read", "identify"} -> "in"
                      [] cmd[u].op = "write" -> "out"
                      [] cmd[u].op = "flush" -> "idle"
    BY <1>4, <1>6 DEF Proceed, TypeInv, Hardware
  <2>4. /\ cmd[u].op \in {"read", "identify"} => phase'[u] = "in"
        /\ cmd[u].op = "write" => phase'[u] = "out"
        /\ cmd[u].op = "flush" => phase'[u] = "idle"
    BY <2>3
  <2>5. ~err[u]
    BY <1>4, <2>1 DEF PhaseInv
  <2>6. pc \in {"presence", "waitready"} => req.op = "identify"
    BY DEF TypeInv, Flow, Identifying
  <2> QED BY <1>2, <1>3, <1>4, <1>5, <2>1, <2>2, <2>4, <2>5, <2>6
          DEF PhaseInv, Issued, Direction, Ops, TypeInv, Flow
<1>7. CASE Store(u)
  <2>1. phase[u] = "storing" /\ phase'[u] = "idle" /\ UNCHANGED err
    BY <1>4, <1>7 DEF Store, TypeInv, Hardware
  <2>2. pc \in {"flush", "settle"}
    BY <1>4, <2>1 DEF PhaseInv, Issued, Direction, TypeInv, Flow
  <2> QED BY <1>2, <1>3, <1>4, <1>5, <2>1, <2>2 DEF PhaseInv
<1>8. CASE Abort(u)
  <2>1. phase[u] \in {"busy", "storing"} /\ phase'[u] = "idle" /\ err'[u]
    BY <1>4, <1>8 DEF Abort, TypeInv, Hardware
  <2>2. pc \notin {"next", "sector", "out", "errcheck", "data"}
    BY <1>4, <2>1 DEF PhaseInv, Issued, Direction
  <2> QED BY <1>2, <1>3, <1>4, <1>5, <2>1, <2>2 DEF PhaseInv, Issued
<1> QED BY <1>1, <1>6, <1>7, <1>8

LEMMA OverrunStays == DriverStep /\ overrun => overrun'
<1> SUFFICES ASSUME DriverStep, overrun PROVE overrun'
  OBVIOUS
<1>1. CASE WaitReady
  <2>1. UNCHANGED overrun \/ GiveUp
    BY <1>1 DEF WaitReady, PollAgain
  <2> QED BY <2>1, Zenon DEF GiveUp
<1>2. CASE Settle
  <2>1. UNCHANGED overrun \/ GiveUp
    BY <1>2 DEF Settle, PollAgain
  <2> QED BY <2>1, Zenon DEF GiveUp
<1>3. CASE WaitDrq
  <2>1. UNCHANGED overrun \/ GiveUp
    BY <1>3 DEF WaitDrq, PollAgain
  <2> QED BY <2>1, Zenon DEF GiveUp
<1>4. CASE \/ Probe \/ BeginSector \/ OutB \/ Presence \/ ErrCheck \/ Register
           \/ ReadSector \/ WriteSector \/ Flush
  <2>1. UNCHANGED overrun
    BY <1>4 DEF Probe, BeginSector, OutB, Presence, ErrCheck, Register, ReadSector,
                WriteSector, Flush
  <2> QED BY <2>1
<1> QED BY <1>1, <1>2, <1>3, <1>4 DEF DriverStep

LEMMA DriverPhase == TypeInv /\ PhaseInv /\ DriverStep => PhaseInv'
<1> SUFFICES ASSUME TypeInv, PhaseInv, DriverStep, ~overrun, ~overrun' PROVE PhaseInv'
  <2> QED BY OverrunStays DEF PhaseInv
<1> DEFINE Still == UNCHANGED <<phase, cmd, err, regs, plugged, req>>
<1>1. plugged' = plugged
  BY DEF DriverStep
<1>2. ASSUME Still
      PROVE  UNCHANGED <<selected, Direction>> /\ (Present(selected))' = Present(selected)
             /\ \A ps : Issued(ps)' = Issued(ps)
  BY <1>2 DEF selected, At, Direction, Present, Issued
<1>3. selected \in Unit /\ req.op \in Ops
  BY DEF TypeInv, Hardware, Flow
<1>4. CASE Probe \/ BeginSector
  <2>1. Still /\ pc \in {"next", "sector"} /\ pc' \in {"out", "next"}
    BY <1>1, <1>4 DEF Probe, BeginSector, Goto, Return, units, driver
  <2> QED BY <1>2, <2>1 DEF PhaseInv
<1>5. CASE OutB
  <2>1. Program(todo, req.op, Target) /\ pc = "out" /\ phase[selected] = "idle"
    BY <1>5 DEF OutB, TypeInv, Flow, PhaseInv
  <2>2. req' = req
    BY <1>5 DEF OutB, driver
  <2>3. CASE Head(todo).reg = "command"
    <3>1. CommandWrite(Head(todo).val) /\ Head(todo).val.op = req.op
          /\ pc' \in {"presence", "waitdrq"}
      BY <1>5, <2>1, <2>3, HeadProgram DEF OutB
    <3>2. /\ UNCHANGED selected
          /\ \A u \in Unit : u # selected => phase'[u] = "idle"
          /\ \A u \in Unit : err'[u] => phase'[u] = "idle"
          /\ \/ phase'[selected] = "idle" /\ ~Present(selected)
             \/ /\ phase'[selected] = "busy" /\ cmd'[selected].op = req.op
                /\ Present(selected)
      BY <2>1, <3>1, CommandPhase DEF PhaseInv
    <3> QED BY <1>1, <2>2, <3>1, <3>2 DEF PhaseInv, Issued, Present
  <2>4. CASE Head(todo).reg # "command"
    <3>1. /\ RegisterWrite(Head(todo).reg, Head(todo).val) /\ pc' = "out"
      BY <1>5, <2>1, <2>4, HeadProgram DEF OutB
    <3>2. Target \in Unit
      BY <2>1 DEF Target, TypeInv, Flow, Unit, Slave
    <3>3. selected' \in Unit
      BY <2>1, <2>4, <3>1, <3>2, HeadProgram, SelectedAfterWrite DEF TypeInv, Hardware
    <3>4. \A u \in Unit : phase'[u] = "idle"
      BY <2>1, <3>1 DEF RegisterWrite, units, PhaseInv
    <3> QED BY <3>1, <3>3, <3>4 DEF PhaseInv
  <2> QED BY <2>3, <2>4
<1>6. CASE Presence
  <2>1. Still /\ pc = "presence"
        /\ \/ pc' = "waitready" /\ Present(selected)
           \/ pc' = "next" /\ ~Present(selected)
    BY <1>1, <1>6 DEF Presence, Return, units, driver
  <2> QED BY <1>2, <2>1 DEF PhaseInv, Issued
<1>7. CASE WaitReady
  <2>1. Still /\ pc = "waitready"
        /\ \/ pc' = "errcheck" /\ DRDY
           \/ pc' = "waitready"
           \/ pc' = "next" /\ phase[selected] = "idle"
    BY <1>1, <1>3, <1>7 DEF WaitReady, Return, units, driver, GiveUp, PollAgain, Unit
  <2> QED BY <1>2, <2>1 DEF PhaseInv, Issued, DRDY, BSY
<1>8. CASE Settle
  <2>1. Still /\ pc = "settle"
        /\ \/ pc' = "sector" /\ (DRDY \/ phase[selected] = "idle")
           \/ pc' = "settle"
    BY <1>1, <1>3, <1>8 DEF Settle, units, driver, GiveUp, PollAgain, Unit
  <2> QED BY <1>2, <2>1 DEF PhaseInv, DRDY, BSY
<1>9. CASE WaitDrq
  <2>1. Still /\ pc = "waitdrq"
        /\ \/ pc' = "data" /\ DRQ /\ ~ERR
           \/ pc' = "waitdrq"
           \/ pc' = "next" /\ (ERR \/ phase[selected] = "idle")
    BY <1>1, <1>3, <1>9 DEF WaitDrq, Return, units, driver, GiveUp, PollAgain, Unit
  <2> QED BY <1>2, <1>3, <2>1 DEF PhaseInv, Issued, DRQ, ERR
<1>10. CASE ErrCheck
  <2>1. Still /\ pc = "errcheck" /\ req.op = "identify"
        /\ \/ pc' = "next" /\ ERR
           \/ pc' = "data" /\ ~ERR
    BY <1>1, <1>10 DEF ErrCheck, Return, units, driver, TypeInv, Flow, Identifying
  <2> QED BY <1>2, <1>3, <2>1 DEF PhaseInv, Issued, ERR, Direction
<1>11. CASE Register \/ ReadSector
  <2>1. /\ phase' = [phase EXCEPT ![selected] = IF @ = "in" THEN "idle" ELSE @]
        /\ UNCHANGED <<cmd, err, regs>> /\ pc = "data" /\ req.op \in {"identify", "read"}
        /\ pc' \in {"next", "sector"}
    BY <1>11 DEF Register, ReadSector, Drained, Goto, Return
  <2>2. phase[selected] = "in"
    BY <2>1 DEF PhaseInv, Direction
  <2>3. \A u \in Unit : phase'[u] = "idle"
    BY <1>3, <2>1, <2>2 DEF PhaseInv, TypeInv, Hardware
  <2>4. UNCHANGED selected
    BY <2>1 DEF selected, At
  <2> QED BY <1>3, <2>1, <2>3, <2>4 DEF PhaseInv
<1>12. CASE WriteSector
  <2>1. /\ phase' = [phase EXCEPT ![selected] = IF @ = "out" THEN "storing" ELSE @]
        /\ UNCHANGED <<cmd, err, regs>> /\ pc = "data" /\ req.op = "write"
        /\ pc' = "flush"
    BY <1>12 DEF WriteSector, Goto
  <2>2. phase[selected] = "out"
    BY <2>1 DEF PhaseInv, Direction
  <2>3. /\ \A u \in Unit : u # selected => phase'[u] = "idle"
        /\ phase'[selected] = "storing"
    BY <1>3, <2>1, <2>2 DEF PhaseInv, TypeInv, Hardware
  <2>4. UNCHANGED selected /\ ~err[selected]
    BY <1>3, <2>1, <2>2 DEF selected, At, PhaseInv
  <2> QED BY <1>3, <2>1, <2>3, <2>4 DEF PhaseInv
<1>13. CASE Flush
  <2>1. CommandWrite([op |-> "flush", lba48 |-> FALSE]) /\ pc = "flush" /\ pc' = "settle"
    BY <1>13 DEF Flush, Goto
  <2>2. CASE phase[selected] = "idle"
    BY <1>3, <2>1, <2>2, CommandPhase DEF PhaseInv
  <2>3. CASE phase[selected] # "idle"
    <3>1. UNCHANGED <<phase, cmd, err, regs>>
      BY <2>1, <2>3 DEF CommandWrite
    <3>2. UNCHANGED selected
      BY <3>1 DEF selected, At
    <3> QED BY <2>1, <3>1, <3>2 DEF PhaseInv
  <2> QED BY <2>2, <2>3
<1> QED BY <1>4, <1>5, <1>6, <1>7, <1>8, <1>9, <1>10, <1>11, <1>12, <1>13
        DEF DriverStep

LEMMA PhaseStep == TypeInv /\ PhaseInv /\ [Next]_ataVars => PhaseInv'
<1> SUFFICES ASSUME TypeInv, PhaseInv, [Next]_ataVars PROVE PhaseInv'
  OBVIOUS
<1>1. CASE Caller
  <2>1. /\ UNCHANGED <<regs, phase, cmd, err, plugged, overrun>>
        /\ pc = "next" /\ pc' = "sector"
    BY <1>1 DEF Caller, Request, Goto, units
  <2> QED BY <2>1 DEF PhaseInv, selected, At
<1>2. CASE UNCHANGED ataVars
  BY <1>2 DEF ataVars, driver, transfer, units, PhaseInv, Issued, Direction, Present,
              selected, At
<1> QED BY <1>1, <1>2, DriverPhase, DrivePhase DEF Next, Done

LEMMA PhaseInvariant == Spec => [](TypeInv /\ PhaseInv)
<1>1. TypeInv /\ PhaseInv /\ [Next]_ataVars => (TypeInv /\ PhaseInv)'
  BY TypeStep, PhaseStep
<1> QED BY <1>1, InitType, InitPhase, PTL DEF Spec

\* The data port is used for the command that was issued and in its direction,
\* for any units and however late they are, until a wait has given up on one.
THEOREM TransfersCorrect == Spec => []NoBlindTransfer
<1>1. TypeInv /\ PhaseInv => NoBlindTransfer
  BY DEF PhaseInv, NoBlindTransfer, Direction
<1> QED BY <1>1, PhaseInvariant, PTL

-----------------------------------------------------------------------------
(* Detection.                                                              *)

\* The unit that is probed is the selected one from the first output on, and
\* the disks registered are units that were probed before, once each.
DetectInv ==
    ~overrun =>
        /\ req.op = "identify" =>
              /\ pc = "out" => Head(todo).reg = "device" \/ selected = drive
              /\ pc \in Identifying \union {"data"} => selected = drive
        /\ \A i, j \in DOMAIN disks :
              /\ disks[i].from = disks[i].unit /\ disks[i].unit < drive
              /\ disks[i].unit = disks[j].unit => i = j

LEMMA InitDetect == Init => DetectInv
BY DEF Init, DetectInv, Identifying

LEMMA DetectStep == TypeInv /\ PhaseInv /\ DetectInv /\ [Next]_ataVars => DetectInv'
<1> SUFFICES ASSUME TypeInv, PhaseInv, DetectInv, [Next]_ataVars PROVE DetectInv'
  OBVIOUS
<1>0. overrun => overrun'
  <2>1. Caller \/ DriveStep \/ UNCHANGED ataVars => UNCHANGED overrun
    BY DEF Caller, Request, DriveStep, ataVars
  <2>2. DriverStep \/ Caller \/ DriveStep \/ UNCHANGED ataVars
    BY DEF Next, Done
  <2> QED BY <2>1, <2>2, OverrunStays
<1> SUFFICES ASSUME ~overrun, ~overrun' PROVE DetectInv'
  BY <1>0 DEF DetectInv
<1> DEFINE Known == \A i, j \in DOMAIN disks :
                        /\ disks[i].from = disks[i].unit /\ disks[i].unit < drive
                        /\ disks[i].unit = disks[j].unit => i = j
           Aimed == req.op = "identify" =>
                        /\ pc = "out" => Head(todo).reg = "device" \/ selected = drive
                        /\ pc \in Identifying \union {"data"} => selected = drive
<1>1. Known /\ Aimed
  BY DEF DetectInv
<1>2. Known' /\ Aimed' => DetectInv'
  BY DEF DetectInv
<1>3. drive \in 0..2 /\ disks \in Seq(DiskType)
      /\ \A i \in DOMAIN disks : disks[i].unit \in Unit
  <2>1. \A i \in DOMAIN disks : disks[i] \in DiskType
    BY DEF TypeInv, Flow
  <2> QED BY <2>1 DEF TypeInv, Flow, DiskType
<1>4. UNCHANGED disks /\ (drive' = drive \/ drive' = drive + 1) => Known'
  BY <1>1, <1>3 DEF Unit
<1>5. CASE Probe
  <2>1. /\ UNCHANGED <<disks, drive, req>> /\ todo' = IdentifyWrites(drive)
        /\ pc' = "out"
    BY <1>5 DEF Probe, driver, Goto
  <2>2. Head(todo').reg = "device"
    <3>1. Head(IdentifyWrites(drive)) = Out("device", Device(drive, 0))
      BY <1>3, <1>5 DEF IdentifyWrites, SelectDrive, Probe, Master, Slave
    <3> QED BY <2>1, <3>1 DEF Out
  <2> QED BY <1>2, <1>4, <2>1, <2>2 DEF Identifying
<1>6. CASE OutB
  <2>1. UNCHANGED <<disks, drive, req>> /\ todo' = Tail(todo) /\ pc = "out"
    BY <1>6 DEF OutB, driver
  <2>2. CASE req.op = "identify"
    <3>1. Program(todo, req.op, drive) /\ phase[selected] = "idle"
      BY <2>1, <2>2 DEF TypeInv, Flow, Target, PhaseInv
    <3>2. CASE Head(todo).reg = "device"
      <4>1. RegisterWrite("device", Head(todo).val) /\ Head(todo).val[1] = drive
        BY <1>6, <3>1, <3>2, HeadProgram DEF OutB
      <4>2. drive \in Unit
        BY <1>3, <2>1, <2>2 DEF TypeInv, Flow, Unit
      <4>3. selected' = drive
        BY <3>1, <4>1, <4>2, SelectedAfterWrite DEF TypeInv, Hardware
      <4> QED BY <1>2, <1>4, <2>1, <4>3
    <3>3. CASE Head(todo).reg # "device"
      <4>1. selected = drive
        BY <1>1, <2>1, <2>2, <3>3
      <4>2. selected' = selected
        <5>1. CASE Head(todo).reg = "command"
          BY <1>6, <5>1 DEF OutB, CommandWrite, selected, At
        <5>2. CASE Head(todo).reg # "command"
          <6>1. RegisterWrite(Head(todo).reg, Head(todo).val)
            BY <1>6, <5>2 DEF OutB
          <6> QED BY <3>1, <3>3, <6>1, SelectedAfterWrite DEF TypeInv, Hardware
        <5> QED BY <5>1, <5>2
      <4> QED BY <1>2, <1>4, <2>1, <4>1, <4>2
    <3> QED BY <3>2, <3>3
  <2>3. CASE req.op # "identify"
    BY <1>2, <1>4, <2>1, <2>3
  <2> QED BY <2>2, <2>3
<1>7. CASE Register
  <2>1. /\ pc = "data" /\ req.op = "identify" /\ drive' = drive + 1 /\ pc' = "next"
        /\ drive < 2 /\ selected = drive
    BY <1>1, <1>7 DEF Register, Return, TypeInv, Flow
  <2>2. CASE UNCHANGED disks
    BY <1>2, <1>4, <2>1, <2>2 DEF Identifying
  <2>3. CASE ~ UNCHANGED disks
    <3> DEFINE d == [unit |-> drive, from |-> DataIn.unit,
                     lba48 |-> plugged[DataIn.unit].lba48]
    <3>1. disks' = Append(disks, d)
      BY <1>7, <2>3 DEF Register
    <3>2. DataIn.unit = drive
      BY <2>1 DEF DataIn, PhaseInv, Direction
    <3>3. d.unit = drive /\ d.from = drive
      BY <3>2
    <3> HIDE DEF d
    <3>4. /\ DOMAIN disks' = 1..(Len(disks) + 1) /\ disks'[Len(disks) + 1] = d
          /\ DOMAIN disks = 1..Len(disks) /\ Len(disks) \in Nat
          /\ \A i \in DOMAIN disks : disks'[i] = disks[i]
      BY <1>3, <3>1
    <3>5. \A i \in DOMAIN disks' : i \in DOMAIN disks \/ i = Len(disks) + 1
      BY <3>4
    <3>6. Known'
      BY <1>1, <1>3, <2>1, <3>3, <3>4, <3>5 DEF Unit
    <3> QED BY <1>2, <2>1, <3>6 DEF Identifying
  <2> QED BY <2>2, <2>3
<1>8. CASE Presence \/ WaitReady \/ ErrCheck
  <2>1. UNCHANGED <<disks, req, regs>> /\ (drive' = drive \/ drive' = drive + 1)
        /\ pc \in Identifying /\ req.op = "identify"
        /\ (pc' = "next" \/ (pc' \in Identifying \union {"data"} /\ drive' = drive))
    BY <1>8 DEF Presence, WaitReady, ErrCheck, Return, driver, PollAgain, GiveUp,
                Identifying, TypeInv, Flow
  <2>2. UNCHANGED selected
    BY <2>1 DEF selected, At
  <2> QED BY <1>1, <1>2, <1>4, <2>1, <2>2 DEF Identifying
<1>9. CASE BeginSector \/ Settle \/ WaitDrq \/ ReadSector \/ WriteSector \/ Flush
  <2>1. UNCHANGED <<disks, req, drive>> /\ req.op # "identify"
    BY <1>9 DEF BeginSector, Settle, WaitDrq, ReadSector, WriteSector, Flush, Return,
                driver, PollAgain, GiveUp, Transferring, Goto, TypeInv, Flow
  <2> QED BY <1>2, <1>4, <2>1
<1>10. CASE Caller
  <2>1. UNCHANGED <<disks, drive>> /\ pc' = "sector"
    BY <1>10 DEF Caller, Request, Goto
  <2> QED BY <1>2, <1>4, <2>1 DEF Identifying
<1>11. CASE DriveStep \/ UNCHANGED ataVars
  <2>1. UNCHANGED <<pc, disks, req, drive, todo, regs>>
    BY <1>11 DEF DriveStep, driver, transfer, ataVars
  <2>2. UNCHANGED selected
    BY <2>1 DEF selected, At
  <2> QED BY <1>1, <1>2, <1>4, <2>1, <2>2
<1> QED BY <1>5, <1>6, <1>7, <1>8, <1>9, <1>10, <1>11 DEF Next, DriverStep, Done

\* Whatever is plugged, detection registers a disk at most once and under its
\* own place on the channel, until a wait has given up on a unit at work.
THEOREM DetectionCorrect == Spec => []DetectionIsRight
<1>1. (TypeInv /\ PhaseInv) /\ DetectInv /\ [Next]_ataVars => DetectInv'
  BY DetectStep
<1>2. DetectInv => DetectionIsRight
  BY DEF DetectInv, DetectionIsRight
<1> QED BY <1>1, <1>2, PhaseInvariant, InitDetect, PTL DEF Spec

=============================================================================
