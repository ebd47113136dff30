------------------------- MODULE KeyboardInitProofs -------------------------
(***************************************************************************)
(* What holds of keyboard_init for every configuration byte the firmware   *)
(* leaves, every health of the three devices and every key typed during    *)
(* the dialogue: the types, that the configuration byte written back is    *)
(* the controller's own, that a reported failure and a reported success    *)
(* are real, and that the keyboard is left ready.                          *)
(*                                                                         *)
(* The driver writes a byte only into an empty input buffer.  So its place *)
(* in the script says which byte the buffer can hold, and whether it still *)
(* holds it says what the controller and the keyboard have seen.  What the *)
(* driver reads is as certain only while no key is typed.                  *)
(***************************************************************************)
EXTENDS KeyboardInit, SequenceTheorems, TLAPS

-----------------------------------------------------------------------------
(* The configuration byte                                                  *)

\* As the driver finds it, with the keyboard stopped; as it writes it first;
\* and as it leaves it
Stopped == With(firmware, 4)
Cleared == Masked(Stopped)
Enabled == With(Cleared, 0)

\* The bits by division: a power of two is a number here.
LEMMA Powers ==
    /\ 2^0 = 1 /\ 2^1 = 2 /\ 2^2 = 4 /\ 2^3 = 8
    /\ 2^4 = 16 /\ 2^5 = 32 /\ 2^6 = 64 /\ 2^7 = 128
OBVIOUS

LEMMA HasIs ==
    ASSUME NEW b
    PROVE  /\ Has(b, 0) <=> (b \div 1) % 2 = 1
           /\ Has(b, 1) <=> (b \div 2) % 2 = 1
           /\ Has(b, 2) <=> (b \div 4) % 2 = 1
           /\ Has(b, 3) <=> (b \div 8) % 2 = 1
           /\ Has(b, 4) <=> (b \div 16) % 2 = 1
           /\ Has(b, 5) <=> (b \div 32) % 2 = 1
           /\ Has(b, 6) <=> (b \div 64) % 2 = 1
           /\ Has(b, 7) <=> (b \div 128) % 2 = 1
BY Powers DEF Has

\* One bit changes, and no other.
LEMMA SetBit4 ==
    ASSUME NEW b \in Byte
    PROVE  /\ With(b, 4) \in Byte /\ Has(With(b, 4), 4)
           /\ \A bit \in (0..7) \ {4} : Has(With(b, 4), bit) <=> Has(b, bit)
<1> DEFINE w == With(b, 4)
<1>1. w = IF (b \div 16) % 2 = 1 THEN b ELSE b + 16
  BY HasIs, Powers DEF With
<1> HIDE DEF w
<1>2. w \in Byte /\ (w \div 16) % 2 = 1
  BY <1>1 DEF Byte
<1>3. (w \div 1) % 2 = (b \div 1) % 2
  BY <1>1 DEF Byte
<1>4. (w \div 2) % 2 = (b \div 2) % 2
  BY <1>1 DEF Byte
<1>5. (w \div 4) % 2 = (b \div 4) % 2
  BY <1>1 DEF Byte
<1>6. (w \div 8) % 2 = (b \div 8) % 2
  BY <1>1 DEF Byte
<1>7. (w \div 32) % 2 = (b \div 32) % 2
  BY <1>1 DEF Byte
<1>8. (w \div 64) % 2 = (b \div 64) % 2
  BY <1>1 DEF Byte
<1>9. (w \div 128) % 2 = (b \div 128) % 2
  BY <1>1 DEF Byte
<1>10. Has(w, 4) /\ \A bit \in (0..7) \ {4} : Has(w, bit) <=> Has(b, bit)
  <2>1. \A bit \in 0..7 : bit = 0 \/ bit = 1 \/ bit = 2 \/ bit = 3 \/ bit = 4
                          \/ bit = 5 \/ bit = 6 \/ bit = 7
    OBVIOUS
  <2> QED BY <1>2, <1>3, <1>4, <1>5, <1>6, <1>7, <1>8, <1>9, <2>1, HasIs
<1> QED BY <1>2, <1>10 DEF w

LEMMA SetBit0 ==
    ASSUME NEW b \in Byte
    PROVE  /\ With(b, 0) \in Byte /\ Has(With(b, 0), 0)
           /\ \A bit \in (0..7) \ {0} : Has(With(b, 0), bit) <=> Has(b, bit)
<1> DEFINE w == With(b, 0)
<1>1. w = IF (b \div 1) % 2 = 1 THEN b ELSE b + 1
  BY HasIs, Powers DEF With
<1> HIDE DEF w
<1>2. w \in Byte /\ (w \div 1) % 2 = 1
  BY <1>1 DEF Byte
<1>3. (w \div 2) % 2 = (b \div 2) % 2
  BY <1>1 DEF Byte
<1>4. (w \div 4) % 2 = (b \div 4) % 2
  BY <1>1 DEF Byte
<1>5. (w \div 8) % 2 = (b \div 8) % 2
  BY <1>1 DEF Byte
<1>6. (w \div 16) % 2 = (b \div 16) % 2
  BY <1>1 DEF Byte
<1>7. (w \div 32) % 2 = (b \div 32) % 2
  BY <1>1 DEF Byte
<1>8. (w \div 64) % 2 = (b \div 64) % 2
  BY <1>1 DEF Byte
<1>9. (w \div 128) % 2 = (b \div 128) % 2
  BY <1>1 DEF Byte
<1>10. Has(w, 0) /\ \A bit \in (0..7) \ {0} : Has(w, bit) <=> Has(b, bit)
  <2>1. \A bit \in 0..7 : bit = 0 \/ bit = 1 \/ bit = 2 \/ bit = 3 \/ bit = 4
                          \/ bit = 5 \/ bit = 6 \/ bit = 7
    OBVIOUS
  <2> QED BY <1>2, <1>3, <1>4, <1>5, <1>6, <1>7, <1>8, <1>9, <2>1, HasIs
<1> QED BY <1>2, <1>10 DEF w

LEMMA ClearBit4 ==
    ASSUME NEW b \in Byte
    PROVE  /\ Without(b, 4) \in Byte /\ ~Has(Without(b, 4), 4)
           /\ \A bit \in (0..7) \ {4} : Has(Without(b, 4), bit) <=> Has(b, bit)
<1> DEFINE w == Without(b, 4)
<1>1. w = IF (b \div 16) % 2 = 1 THEN b - 16 ELSE b
  BY HasIs, Powers DEF Without
<1> HIDE DEF w
<1>2. w \in Byte /\ (w \div 16) % 2 = 0
  BY <1>1 DEF Byte
<1>3. (w \div 1) % 2 = (b \div 1) % 2
  BY <1>1 DEF Byte
<1>4. (w \div 2) % 2 = (b \div 2) % 2
  BY <1>1 DEF Byte
<1>5. (w \div 4) % 2 = (b \div 4) % 2
  BY <1>1 DEF Byte
<1>6. (w \div 8) % 2 = (b \div 8) % 2
  BY <1>1 DEF Byte
<1>7. (w \div 32) % 2 = (b \div 32) % 2
  BY <1>1 DEF Byte
<1>8. (w \div 64) % 2 = (b \div 64) % 2
  BY <1>1 DEF Byte
<1>9. (w \div 128) % 2 = (b \div 128) % 2
  BY <1>1 DEF Byte
<1>10. ~Has(w, 4) /\ \A bit \in (0..7) \ {4} : Has(w, bit) <=> Has(b, bit)
  <2>1. \A bit \in 0..7 : bit = 0 \/ bit = 1 \/ bit = 2 \/ bit = 3 \/ bit = 4
                          \/ bit = 5 \/ bit = 6 \/ bit = 7
    OBVIOUS
  <2> QED BY <1>2, <1>3, <1>4, <1>5, <1>6, <1>7, <1>8, <1>9, <2>1, HasIs
<1> QED BY <1>2, <1>10 DEF w

LEMMA ClearBit5 ==
    ASSUME NEW b \in Byte
    PROVE  /\ Without(b, 5) \in Byte /\ ~Has(Without(b, 5), 5)
           /\ \A bit \in (0..7) \ {5} : Has(Without(b, 5), bit) <=> Has(b, bit)
<1> DEFINE w == Without(b, 5)
<1>1. w = IF (b \div 32) % 2 = 1 THEN b - 32 ELSE b
  BY HasIs, Powers DEF Without
<1> HIDE DEF w
<1>2. w \in Byte /\ (w \div 32) % 2 = 0
  BY <1>1 DEF Byte
<1>3. (w \div 1) % 2 = (b \div 1) % 2
  BY <1>1 DEF Byte
<1>4. (w \div 2) % 2 = (b \div 2) % 2
  BY <1>1 DEF Byte
<1>5. (w \div 4) % 2 = (b \div 4) % 2
  BY <1>1 DEF Byte
<1>6. (w \div 8) % 2 = (b \div 8) % 2
  BY <1>1 DEF Byte
<1>7. (w \div 16) % 2 = (b \div 16) % 2
  BY <1>1 DEF Byte
<1>8. (w \div 64) % 2 = (b \div 64) % 2
  BY <1>1 DEF Byte
<1>9. (w \div 128) % 2 = (b \div 128) % 2
  BY <1>1 DEF Byte
<1>10. ~Has(w, 5) /\ \A bit \in (0..7) \ {5} : Has(w, bit) <=> Has(b, bit)
  <2>1. \A bit \in 0..7 : bit = 0 \/ bit = 1 \/ bit = 2 \/ bit = 3 \/ bit = 4
                          \/ bit = 5 \/ bit = 6 \/ bit = 7
    OBVIOUS
  <2> QED BY <1>2, <1>3, <1>4, <1>5, <1>6, <1>7, <1>8, <1>9, <2>1, HasIs
<1> QED BY <1>2, <1>10 DEF w

\* The three configuration bytes
LEMMA ConfigBytes ==
    ASSUME firmware \in Byte
    PROVE  /\ Stopped \in Byte /\ Cleared \in Byte /\ Enabled \in Byte
           /\ Has(Stopped, 4) /\ ~Has(Cleared, 4)
           /\ Has(Enabled, 0) /\ ~Has(Enabled, 4)
           /\ Without(Cleared, 4) = Cleared
           /\ \A bit \in (0..7) \ {0, 4, 5} :
                 /\ Has(Cleared, bit) <=> Has(firmware, bit)
                 /\ Has(Enabled, bit) <=> Has(firmware, bit)
<1>1. /\ Stopped \in Byte /\ Has(Stopped, 4)
      /\ \A bit \in (0..7) \ {4} : Has(Stopped, bit) <=> Has(firmware, bit)
  BY SetBit4 DEF Stopped
<1> DEFINE half == Without(Stopped, 4)
<1>2. /\ half \in Byte /\ ~Has(half, 4)
      /\ \A bit \in (0..7) \ {4} : Has(half, bit) <=> Has(Stopped, bit)
  BY <1>1, ClearBit4
<1>3. Cleared = Without(half, 5)
  BY DEF Cleared, Masked
<1> HIDE DEF half
<1>4. /\ Cleared \in Byte /\ ~Has(Cleared, 4)
      /\ \A bit \in (0..7) \ {5} : Has(Cleared, bit) <=> Has(half, bit)
  BY <1>2, <1>3, ClearBit5
<1>5. /\ Enabled \in Byte /\ Has(Enabled, 0)
      /\ \A bit \in (0..7) \ {0} : Has(Enabled, bit) <=> Has(Cleared, bit)
  BY <1>4, SetBit0 DEF Enabled
<1>6. Without(Cleared, 4) = Cleared
  BY <1>4 DEF Without
<1>7. \A bit \in (0..7) \ {0, 4, 5} :
         bit \in (0..7) \ {0} /\ bit \in (0..7) \ {4} /\ bit \in (0..7) \ {5}
  OBVIOUS
<1>8. 4 \in (0..7) \ {0}
  OBVIOUS
<1> QED BY <1>1, <1>2, <1>4, <1>5, <1>6, <1>7, <1>8

LEMMA ScriptIs ==
    /\ Len(Script) = 22
    /\ Script[1] = Cmd(173) /\ Script[2] = Cmd(167) /\ Script[3] = Flush
    /\ Script[4] = Cmd(32) /\ Script[5] = ReadConfig
    /\ Script[6] = Cmd(96) /\ Script[7] = WriteConfig
    /\ Script[8] = Cmd(170) /\ Script[9] = Expect(85, "controller")
    /\ Script[10] = Cmd(171) /\ Script[11] = Expect(0, "port")
    /\ Script[12] = Cmd(174)
    /\ Script[13] = Data(255) /\ Script[14] = Read
    /\ Script[15] = Expect(170, "keyboard")
    /\ Script[16] = Data(240) /\ Script[17] = Read
    /\ Script[18] = Data(1) /\ Script[19] = Read
    /\ Script[20] = EnableIrq
    /\ Script[21] = Cmd(96) /\ Script[22] = WriteConfig
BY DEF Script

-----------------------------------------------------------------------------
(* The driver, place by place                                              *)

Command(val) == [port |-> "cmd", val |-> val]
Datum(val) == [port |-> "data", val |-> val]

Elsewhere == <<ctlConfig, awaits, answer, kbd, param, set, health, firmware, typed>>

\* Where the driver can be
PlaceInv ==
    /\ pc \in 1..23
    /\ outcome \in {"running", "ok", "controller", "port", "keyboard"}
    /\ Running => pc # 23
    /\ outcome = "ok" => pc = 23
    /\ outcome = "controller" => pc = 9
    /\ outcome = "port" => pc = 11
    /\ outcome = "keyboard" => pc = 15

LEMMA Places == ASSUME NEW n \in 1..23
                PROVE  \/ n = 1 \/ n = 2 \/ n = 3 \/ n = 4 \/ n = 5 \/ n = 6 \/ n = 7 \/ n = 8
                       \/ n = 9 \/ n = 10 \/ n = 11 \/ n = 12 \/ n = 13 \/ n = 14 \/ n = 15
                       \/ n = 16 \/ n = 17 \/ n = 18 \/ n = 19 \/ n = 20 \/ n = 21 \/ n = 22
                       \/ n = 23
OBVIOUS

\* The instruction at each place
LEMMA InstructionIs ==
    /\ \A v : Cmd(v).op = "cmd" /\ Cmd(v).val = v
    /\ \A v : Data(v).op = "data" /\ Data(v).val = v
    /\ \A v, t : Expect(v, t).op = "expect" /\ Expect(v, t).val = v /\ Expect(v, t).test = t
    /\ Flush.op = "flush" /\ ReadConfig.op = "readconfig" /\ Read.op = "read"
    /\ WriteConfig.op = "config" /\ EnableIrq.op = "enableirq"
BY DEF Cmd, Data, WriteConfig, Flush, ReadConfig, Read, Expect, EnableIrq

LEMMA LenScript == Len(Script) = 22
BY ScriptIs

LEMMA NowIs ==
    /\ pc = 1 => Now.op = "cmd" /\ Now.val = 173
    /\ pc = 2 => Now.op = "cmd" /\ Now.val = 167
    /\ pc = 3 => Now.op = "flush"
    /\ pc = 4 => Now.op = "cmd" /\ Now.val = 32
    /\ pc = 5 => Now.op = "readconfig"
    /\ pc = 6 => Now.op = "cmd" /\ Now.val = 96
    /\ pc = 7 => Now.op = "config"
    /\ pc = 8 => Now.op = "cmd" /\ Now.val = 170
    /\ pc = 9 => Now.op = "expect" /\ Now.val = 85 /\ Now.test = "controller"
    /\ pc = 10 => Now.op = "cmd" /\ Now.val = 171
    /\ pc = 11 => Now.op = "expect" /\ Now.val = 0 /\ Now.test = "port"
    /\ pc = 12 => Now.op = "cmd" /\ Now.val = 174
    /\ pc = 13 => Now.op = "data" /\ Now.val = 255
    /\ pc = 14 => Now.op = "read"
    /\ pc = 15 => Now.op = "expect" /\ Now.val = 170 /\ Now.test = "keyboard"
    /\ pc = 16 => Now.op = "data" /\ Now.val = 240
    /\ pc = 17 => Now.op = "read"
    /\ pc = 18 => Now.op = "data" /\ Now.val = 1
    /\ pc = 19 => Now.op = "read"
    /\ pc = 20 => Now.op = "enableirq"
    /\ pc = 21 => Now.op = "cmd" /\ Now.val = 96
    /\ pc = 22 => Now.op = "config"
<1>1. pc = 1 => Now.op = "cmd" /\ Now.val = 173
  BY ScriptIs, InstructionIs DEF Now
<1>2. pc = 2 => Now.op = "cmd" /\ Now.val = 167
  BY ScriptIs, InstructionIs DEF Now
<1>3. pc = 3 => Now.op = "flush"
  BY ScriptIs, InstructionIs DEF Now
<1>4. pc = 4 => Now.op = "cmd" /\ Now.val = 32
  BY ScriptIs, InstructionIs DEF Now
<1>5. pc = 5 => Now.op = "readconfig"
  BY ScriptIs, InstructionIs DEF Now
<1>6. pc = 6 => Now.op = "cmd" /\ Now.val = 96
  BY ScriptIs, InstructionIs DEF Now
<1>7. pc = 7 => Now.op = "config"
  BY ScriptIs, InstructionIs DEF Now
<1>8. pc = 8 => Now.op = "cmd" /\ Now.val = 170
  BY ScriptIs, InstructionIs DEF Now
<1>9. pc = 9 => Now.op = "expect" /\ Now.val = 85 /\ Now.test = "controller"
  BY ScriptIs, InstructionIs DEF Now
<1>10. pc = 10 => Now.op = "cmd" /\ Now.val = 171
  BY ScriptIs, InstructionIs DEF Now
<1>11. pc = 11 => Now.op = "expect" /\ Now.val = 0 /\ Now.test = "port"
  BY ScriptIs, InstructionIs DEF Now
<1>12. pc = 12 => Now.op = "cmd" /\ Now.val = 174
  BY ScriptIs, InstructionIs DEF Now
<1>13. pc = 13 => Now.op = "data" /\ Now.val = 255
  BY ScriptIs, InstructionIs DEF Now
<1>14. pc = 14 => Now.op = "read"
  BY ScriptIs, InstructionIs DEF Now
<1>15. pc = 15 => Now.op = "expect" /\ Now.val = 170 /\ Now.test = "keyboard"
  BY ScriptIs, InstructionIs DEF Now
<1>16. pc = 16 => Now.op = "data" /\ Now.val = 240
  BY ScriptIs, InstructionIs DEF Now
<1>17. pc = 17 => Now.op = "read"
  BY ScriptIs, InstructionIs DEF Now
<1>18. pc = 18 => Now.op = "data" /\ Now.val = 1
  BY ScriptIs, InstructionIs DEF Now
<1>19. pc = 19 => Now.op = "read"
  BY ScriptIs, InstructionIs DEF Now
<1>20. pc = 20 => Now.op = "enableirq"
  BY ScriptIs, InstructionIs DEF Now
<1>21. pc = 21 => Now.op = "cmd" /\ Now.val = 96
  BY ScriptIs, InstructionIs DEF Now
<1>22. pc = 22 => Now.op = "config"
  BY ScriptIs, InstructionIs DEF Now
<1> QED BY <1>1, <1>2, <1>3, <1>4, <1>5, <1>6, <1>7, <1>8, <1>9, <1>10, <1>11,
         <1>12, <1>13, <1>14, <1>15, <1>16, <1>17, <1>18, <1>19, <1>20, <1>21, <1>22

LEMMA SendIs ==
    ASSUME PlaceInv, SendByte
    PROVE  /\ Running /\ input = <<>> /\ pc' = pc + 1
           /\ outcome' = IF pc = 22 THEN "ok" ELSE "running"
           /\ UNCHANGED <<config, output, Elsewhere>>
           /\ \/ pc = 1 /\ input' = <<Command(173)>>
              \/ pc = 2 /\ input' = <<Command(167)>>
              \/ pc = 4 /\ input' = <<Command(32)>>
              \/ pc = 6 /\ input' = <<Command(96)>>
              \/ pc = 7 /\ input' = <<Datum(config)>>
              \/ pc = 8 /\ input' = <<Command(170)>>
              \/ pc = 10 /\ input' = <<Command(171)>>
              \/ pc = 12 /\ input' = <<Command(174)>>
              \/ pc = 13 /\ input' = <<Datum(255)>>
              \/ pc = 16 /\ input' = <<Datum(240)>>
              \/ pc = 18 /\ input' = <<Datum(1)>>
              \/ pc = 21 /\ input' = <<Command(96)>>
              \/ pc = 22 /\ input' = <<Datum(config)>>
<1>1. /\ Running /\ input = <<>> /\ Now.op \in {"cmd", "data", "config"}
      /\ input' = <<[port |-> IF Now.op = "cmd" THEN "cmd" ELSE "data",
                     val |-> IF Now.op = "config" THEN config ELSE Now.val]>>
      /\ pc' = pc + 1 /\ outcome' = IF pc = Len(Script) THEN "ok" ELSE outcome
      /\ UNCHANGED <<config, output, Elsewhere>>
  BY DEF SendByte, Advance, Elsewhere, controller, keyboard, fixed
<1>2. pc \in 1..23 /\ pc # 23
  BY <1>1 DEF PlaceInv
<1>3. /\ Now.op = "cmd" => input' = <<Command(Now.val)>>
      /\ Now.op = "data" => input' = <<Datum(Now.val)>>
      /\ Now.op = "config" => input' = <<Datum(config)>>
  BY <1>1 DEF Command, Datum
<1>4. \/ pc = 1 /\ input' = <<Command(173)>>
      \/ pc = 2 /\ input' = <<Command(167)>>
      \/ pc = 4 /\ input' = <<Command(32)>>
      \/ pc = 6 /\ input' = <<Command(96)>>
      \/ pc = 7 /\ input' = <<Datum(config)>>
      \/ pc = 8 /\ input' = <<Command(170)>>
      \/ pc = 10 /\ input' = <<Command(171)>>
      \/ pc = 12 /\ input' = <<Command(174)>>
      \/ pc = 13 /\ input' = <<Datum(255)>>
      \/ pc = 16 /\ input' = <<Datum(240)>>
      \/ pc = 18 /\ input' = <<Datum(1)>>
      \/ pc = 21 /\ input' = <<Command(96)>>
      \/ pc = 22 /\ input' = <<Datum(config)>>
  BY <1>1, <1>2, <1>3, Places, NowIs
<1>5. outcome' = IF pc = 22 THEN "ok" ELSE "running"
  BY <1>1, LenScript DEF Running
<1> QED BY <1>1, <1>4, <1>5

LEMMA DrainIs ==
    ASSUME PlaceInv, Drain
    PROVE  /\ Running /\ pc = 3 /\ output' = <<>>
           /\ pc' = IF output = <<>> THEN 4 ELSE 3
           /\ UNCHANGED <<config, outcome, input, Elsewhere>>
<1>1. pc = 3
  BY Places, NowIs DEF PlaceInv, Drain
<1> QED
  BY <1>1, LenScript DEF Drain, Advance, Elsewhere, controller, keyboard, fixed

LEMMA ReadIs ==
    ASSUME PlaceInv, ReadByte
    PROVE  /\ Running /\ output # <<>> /\ output' = <<>>
           /\ UNCHANGED <<input, Elsewhere>>
           /\ \/ /\ pc = 5 /\ pc' = 6 /\ outcome' = outcome
                 /\ config' = Masked(output[1])
              \/ /\ pc \in {9, 11, 14, 15, 17, 19} /\ pc' = pc + 1 /\ outcome' = outcome
                 /\ config' = config
                 /\ pc = 9 => output[1] = 85
                 /\ pc = 11 => output[1] = 0
                 /\ pc = 15 => output[1] = 170
              \/ /\ pc' = pc /\ config' = config
                 /\ \/ pc = 9 /\ outcome' = "controller" /\ output[1] # 85
                    \/ pc = 11 /\ outcome' = "port" /\ output[1] # 0
                    \/ pc = 15 /\ outcome' = "keyboard" /\ output[1] # 170
<1>1. /\ Running /\ output # <<>> /\ output' = <<>>
      /\ Now.op \in {"read", "readconfig", "expect"}
      /\ config' = IF Now.op = "readconfig" THEN Masked(output[1]) ELSE config
      /\ IF Now.op = "expect" /\ output[1] # Now.val
         THEN outcome' = Now.test /\ UNCHANGED pc
         ELSE pc' = pc + 1 /\ outcome' = IF pc = Len(Script) THEN "ok" ELSE outcome
      /\ UNCHANGED <<input, Elsewhere>>
  BY DEF ReadByte, Advance, Elsewhere, controller, keyboard, fixed
<1>2. pc \in {5, 9, 11, 14, 15, 17, 19}
  BY <1>1, Places, NowIs DEF PlaceInv
<1>3. CASE pc = 5
  BY <1>1, <1>3, LenScript, NowIs
<1>4. CASE pc = 14 \/ pc = 17 \/ pc = 19
  BY <1>1, <1>4, LenScript, NowIs
<1>5. CASE pc = 9
  BY <1>1, <1>5, LenScript, NowIs
<1>6. CASE pc = 11
  BY <1>1, <1>6, LenScript, NowIs
<1>7. CASE pc = 15
  BY <1>1, <1>7, LenScript, NowIs
<1> QED BY <1>2, <1>3, <1>4, <1>5, <1>6, <1>7

LEMMA SetIrqIs ==
    ASSUME PlaceInv, SetIrq
    PROVE  /\ Running /\ pc = 20 /\ pc' = 21 /\ config' = With(config, 0)
           /\ UNCHANGED <<outcome, input, output, Elsewhere>>
<1>1. pc = 20
  BY Places, NowIs DEF PlaceInv, SetIrq
<1> QED
  BY <1>1, LenScript DEF SetIrq, Advance, Irq, Elsewhere, controller, keyboard, fixed

LEMMA DriverWaits ==
    ASSUME DeviceStep \/ Type \/ UNCHANGED initVars
    PROVE  UNCHANGED <<pc, config, outcome, health, firmware>>
<1>1. CASE ToKeyboard
  BY <1>1 DEF ToKeyboard, driver, fixed
<1>2. CASE TakeCommand
  BY <1>2 DEF TakeCommand, driver, fixed
<1>3. CASE TakeConfig \/ Say \/ Forward \/ Type
  BY <1>3 DEF TakeConfig, Say, Forward, Type, driver, fixed
<1>4. CASE UNCHANGED initVars
  BY <1>4 DEF initVars, driver, fixed
<1> QED BY <1>1, <1>2, <1>3, <1>4 DEF DeviceStep

LEMMA PlaceStep ==
    ASSUME PlaceInv, [Next]_initVars
    PROVE  PlaceInv'
<1>1. CASE SendByte
  <2>1. /\ pc \in 1..23 /\ pc # 23 /\ pc' = pc + 1
        /\ outcome' = IF pc = 22 THEN "ok" ELSE "running"
    BY <1>1, SendIs DEF PlaceInv
  <2>2. pc = 22 => PlaceInv'
    BY <2>1 DEF PlaceInv, Running
  <2>3. pc # 22 => PlaceInv'
    BY <2>1 DEF PlaceInv, Running
  <2> QED BY <2>2, <2>3
<1>2. CASE Drain
  BY <1>2, DrainIs DEF PlaceInv, Running
<1>3. CASE ReadByte
  <2>1. /\ outcome = "running"
        /\ \/ pc \in {5, 9, 11, 14, 15, 17, 19} /\ pc' = pc + 1 /\ outcome' = outcome
           \/ pc = 9 /\ pc' = pc /\ outcome' = "controller"
           \/ pc = 11 /\ pc' = pc /\ outcome' = "port"
           \/ pc = 15 /\ pc' = pc /\ outcome' = "keyboard"
    BY <1>3, ReadIs DEF Running
  <2>2. CASE pc' = pc + 1 /\ outcome' = outcome
    BY <2>1, <2>2 DEF PlaceInv, Running
  <2>3. CASE pc' = pc
    BY <2>1, <2>3 DEF PlaceInv, Running
  <2> QED BY <2>1, <2>2, <2>3
<1>4. CASE SetIrq
  BY <1>4, SetIrqIs DEF PlaceInv, Running
<1>5. CASE DeviceStep \/ Type \/ UNCHANGED initVars
  BY <1>5, DriverWaits DEF PlaceInv, Running
<1> QED BY <1>1, <1>2, <1>3, <1>4, <1>5 DEF Next, DriverStep

-----------------------------------------------------------------------------
(* The dialogue that the place tells                                       *)

Pending == input # <<>>
Present == health.keyboard # "absent"
Asks(msg) == input = <<>> \/ input = <<msg>>

\* The byte sent last is the only one the input buffer can hold.
SentInv ==
    /\ pc = 1 => input = <<>>
    /\ pc = 2 => Asks(Command(173))
    /\ pc \in {3, 4} => Asks(Command(167))
    /\ pc = 5 => Asks(Command(32))
    /\ pc = 6 => input = <<>>
    /\ pc = 7 => Asks(Command(96))
    /\ pc = 8 => Asks(Datum(Cleared))
    /\ pc \in {9, 10} => Asks(Command(170))
    /\ pc \in {11, 12} => Asks(Command(171))
    /\ pc = 13 => Asks(Command(174))
    /\ pc \in {14, 15, 16} => Asks(Datum(255))
    /\ pc \in {17, 18} => Asks(Datum(240))
    /\ pc \in {19, 20, 21} => Asks(Datum(1))
    /\ pc = 22 => Asks(Command(96))
    /\ pc = 23 => Asks(Datum(Enabled))

\* What the bytes taken so far have done
EffectInv ==
    /\ config = IF pc <= 5 THEN 0 ELSE IF pc <= 20 THEN Cleared ELSE Enabled
    /\ awaits <=> \/ pc \in {7, 22} /\ ~Pending
                  \/ pc \in {8, 23} /\ Pending
    /\ param <=> /\ Present
                 /\ \/ pc \in {17, 18} /\ ~Pending
                    \/ pc \in {19, 20, 21} /\ Pending
    /\ ctlConfig = IF pc = 1 \/ (pc = 2 /\ Pending) THEN firmware
                   ELSE IF pc <= 7 \/ (pc = 8 /\ Pending) THEN Stopped
                   ELSE IF pc < 23 \/ Pending THEN Cleared
                   ELSE Enabled

\* A question to the controller: asked, answered, or its answer in the buffer
Asking(msg, reply) ==
    \/ input = <<msg>> /\ answer = <<>> /\ output = <<>>
    \/ input = <<>> /\ answer = <<reply>> /\ output = <<>>
    \/ input = <<>> /\ answer = <<>> /\ output = <<reply>>

\* While the keyboard is stopped, nothing but its own byte can be read.
QuietInv ==
    /\ pc <= 4 => answer = <<>>
    /\ pc = 4 => output = <<>>
    /\ pc = 5 => Asking(Command(32), Stopped)
    /\ pc \in {6, 7} \/ (pc = 8 /\ Pending) => output = <<>> /\ answer = <<>>
    /\ pc = 8 => answer = <<>>

Single == {<<>>} \union {<<b>> : b \in Byte}

BytesInv ==
    /\ firmware \in Byte /\ ctlConfig \in Byte /\ config \in Byte /\ set \in Byte
    /\ health \in [controller : BOOLEAN, port : BOOLEAN,
                   keyboard : {"good", "bad", "absent"}]
    /\ output \in Single /\ answer \in Single /\ kbd \in Seq(Byte)
    /\ awaits \in BOOLEAN /\ param \in BOOLEAN /\ typed \in Nat

Inv == PlaceInv /\ SentInv /\ EffectInv /\ QuietInv /\ BytesInv

\* What the tests of the controller, of its port and of the keyboard answer
Controller == IF health.controller THEN 85 ELSE 252
Port == IF health.port THEN 0 ELSE 1
Tested == IF health.keyboard = "good" THEN 170 ELSE 252

-----------------------------------------------------------------------------
(* The devices, place by place                                             *)

LEMMA MessageIs ==
    /\ \A v : Command(v).port = "cmd" /\ Command(v).val = v
    /\ \A v : Datum(v).port = "data" /\ Datum(v).val = v
BY DEF Command, Datum

\* The byte in the input buffer, by the place
LEMMA PendingIs ==
    ASSUME PlaceInv, SentInv, input # <<>>
    PROVE  \/ pc = 2 /\ input[1] = Command(173)
           \/ pc \in {3, 4} /\ input[1] = Command(167)
           \/ pc = 5 /\ input[1] = Command(32)
           \/ pc \in {7, 22} /\ input[1] = Command(96)
           \/ pc = 8 /\ input[1] = Datum(Cleared)
           \/ pc \in {9, 10} /\ input[1] = Command(170)
           \/ pc \in {11, 12} /\ input[1] = Command(171)
           \/ pc = 13 /\ input[1] = Command(174)
           \/ pc \in {14, 15, 16} /\ input[1] = Datum(255)
           \/ pc \in {17, 18} /\ input[1] = Datum(240)
           \/ pc \in {19, 20, 21} /\ input[1] = Datum(1)
           \/ pc = 23 /\ input[1] = Datum(Enabled)
BY Places DEF PlaceInv, SentInv, Asks

LEMMA TakeCommandIs ==
    ASSUME PlaceInv, SentInv, TakeCommand
    PROVE  /\ input # <<>> /\ input' = <<>> /\ answer = <<>> /\ awaits' \in BOOLEAN
           /\ UNCHANGED <<pc, config, outcome, output, kbd, param, set, health, firmware,
                          typed>>
           /\ \/ /\ pc = 2 /\ input[1] = Command(173)
                 /\ ctlConfig' = With(ctlConfig, 4) /\ answer' = <<>> /\ ~awaits'
              \/ /\ pc \in {3, 4} /\ input[1] = Command(167)
                 /\ ctlConfig' = ctlConfig /\ answer' = <<>> /\ ~awaits'
              \/ /\ pc = 5 /\ input[1] = Command(32)
                 /\ ctlConfig' = ctlConfig /\ answer' = <<ctlConfig>> /\ ~awaits'
              \/ /\ pc \in {7, 22} /\ input[1] = Command(96)
                 /\ ctlConfig' = ctlConfig /\ answer' = <<>> /\ awaits'
              \/ /\ pc \in {9, 10} /\ input[1] = Command(170)
                 /\ ctlConfig' = ctlConfig /\ answer' = <<Controller>> /\ ~awaits'
              \/ /\ pc \in {11, 12} /\ input[1] = Command(171)
                 /\ ctlConfig' = ctlConfig /\ answer' = <<Port>> /\ ~awaits'
              \/ /\ pc = 13 /\ input[1] = Command(174)
                 /\ ctlConfig' = Without(ctlConfig, 4) /\ answer' = <<>>
                 /\ ~awaits'
<1> DEFINE c == input[1].val
<1>1. /\ input # <<>> /\ input' = <<>> /\ answer = <<>> /\ input[1].port = "cmd"
      /\ awaits' \in BOOLEAN
      /\ UNCHANGED <<pc, config, outcome, output, kbd, param, set, health, firmware, typed>>
  BY DEF TakeCommand, Taken, driver, keyboard, fixed
<1>2. /\ ctlConfig' = IF c = 173 THEN With(ctlConfig, 4)
                      ELSE IF c = 174 THEN Without(ctlConfig, 4) ELSE ctlConfig
      /\ answer' = IF c = 32 THEN <<ctlConfig>> ELSE IF c = 170 THEN <<Controller>>
                   ELSE IF c = 171 THEN <<Port>> ELSE <<>>
      /\ awaits' <=> c = 96
  BY DEF TakeCommand, ClockOff, Controller, Port
<1>3. \/ pc = 2 /\ input[1] = Command(173)
      \/ pc \in {3, 4} /\ input[1] = Command(167)
      \/ pc = 5 /\ input[1] = Command(32)
      \/ pc \in {7, 22} /\ input[1] = Command(96)
      \/ pc \in {9, 10} /\ input[1] = Command(170)
      \/ pc \in {11, 12} /\ input[1] = Command(171)
      \/ pc = 13 /\ input[1] = Command(174)
  BY <1>1, PendingIs, MessageIs
<1>4. \A v : input[1] = Command(v) => c = v
  BY MessageIs
<1> HIDE DEF c
<1>5. CASE pc = 2 /\ input[1] = Command(173)
  <2>1. c = 173
    BY <1>4, <1>5
  <2> QED BY <1>1, <1>2, <1>5, <2>1
<1>6. CASE pc \in {3, 4} /\ input[1] = Command(167)
  <2>1. c = 167
    BY <1>4, <1>6
  <2> QED BY <1>1, <1>2, <1>6, <2>1
<1>7. CASE pc = 5 /\ input[1] = Command(32)
  <2>1. c = 32
    BY <1>4, <1>7
  <2> QED BY <1>1, <1>2, <1>7, <2>1
<1>8. CASE pc \in {7, 22} /\ input[1] = Command(96)
  <2>1. c = 96
    BY <1>4, <1>8
  <2> QED BY <1>1, <1>2, <1>8, <2>1
<1>9. CASE pc \in {9, 10} /\ input[1] = Command(170)
  <2>1. c = 170
    BY <1>4, <1>9
  <2> QED BY <1>1, <1>2, <1>9, <2>1
<1>10. CASE pc \in {11, 12} /\ input[1] = Command(171)
  <2>1. c = 171
    BY <1>4, <1>10
  <2> QED BY <1>1, <1>2, <1>10, <2>1
<1>11. CASE pc = 13 /\ input[1] = Command(174)
  <2>1. c = 174
    BY <1>4, <1>11
  <2> QED BY <1>1, <1>2, <1>11, <2>1
<1> QED BY <1>3, <1>5, <1>6, <1>7, <1>8, <1>9, <1>10, <1>11

LEMMA TakeConfigIs ==
    ASSUME PlaceInv, SentInv, TakeConfig
    PROVE  /\ input # <<>> /\ input' = <<>> /\ answer = <<>> /\ awaits /\ awaits' = FALSE
           /\ UNCHANGED <<pc, config, outcome, output, answer, kbd, param, set, health,
                          firmware, typed>>
           /\ ctlConfig' = input[1].val /\ input[1].port = "data"
BY DEF TakeConfig, Taken, driver, keyboard, fixed

LEMMA ToKeyboardIs ==
    ASSUME PlaceInv, SentInv, EffectInv, ToKeyboard
    PROVE  /\ input # <<>> /\ input' = <<>> /\ answer = <<>>
           /\ UNCHANGED <<pc, config, outcome, output, ctlConfig, awaits, answer, health,
                          firmware, typed>>
           /\ pc \in 14..21
           /\ \/ ~Present /\ UNCHANGED <<kbd, param, set>>
              \/ /\ Present /\ pc \in {14, 15, 16} /\ kbd' = <<250, Tested>>
                 /\ param' = FALSE /\ set' = 2
              \/ /\ Present /\ pc \in {17, 18} /\ kbd' = <<250>> /\ param' = TRUE
                 /\ set' = set
              \/ /\ Present /\ pc \in {19, 20, 21} /\ kbd' = <<250>> /\ param' = FALSE
                 /\ set' = 1
<1> DEFINE b == input[1].val
<1>1. /\ input # <<>> /\ input' = <<>> /\ answer = <<>> /\ input[1].port = "data"
      /\ ~awaits
      /\ UNCHANGED <<pc, config, outcome, output, ctlConfig, awaits, answer, health,
                     firmware, typed>>
  BY DEF ToKeyboard, Taken, driver, controller, fixed
<1>2. \/ ~Present /\ UNCHANGED <<kbd, param, set>>
      \/ Present /\ param /\ kbd' = <<250>> /\ param' = FALSE /\ set' = b
      \/ /\ Present /\ ~param /\ b = 255 /\ kbd' = <<250, Tested>>
         /\ param' = FALSE /\ set' = 2
      \/ Present /\ ~param /\ b = 240 /\ kbd' = <<250>> /\ param' = TRUE /\ set' = set
  BY DEF ToKeyboard, keyboard, Tested, Present
<1>3. \/ pc = 8 \/ pc = 23
      \/ pc \in {14, 15, 16} /\ input[1] = Datum(255)
      \/ pc \in {17, 18} /\ input[1] = Datum(240)
      \/ pc \in {19, 20, 21} /\ input[1] = Datum(1)
  BY <1>1, PendingIs, MessageIs
<1>4. pc # 8 /\ pc # 23
  BY <1>1 DEF EffectInv, Pending
<1>5. \A v : input[1] = Datum(v) => b = v
  BY MessageIs
<1>6. param <=> Present /\ pc \in {19, 20, 21}
  BY <1>1, <1>3, <1>4 DEF EffectInv, Pending
<1> HIDE DEF b
<1> QED BY <1>1, <1>2, <1>3, <1>4, <1>5, <1>6

LEMMA SayIs ==
    ASSUME Say
    PROVE  /\ answer # <<>> /\ output = <<>> /\ output' = answer /\ answer' = <<>>
           /\ UNCHANGED <<pc, config, outcome, input, ctlConfig, awaits, kbd, param, set,
                          health, firmware, typed>>
BY DEF Say, driver, keyboard, fixed

\* Nothing of the keyboard passes from the moment the controller has taken 0xAD
\* until it has its configuration byte back.
LEMMA ForwardIs ==
    ASSUME Inv, Forward
    PROVE  /\ kbd # <<>> /\ output = <<>>
           /\ output' = <<Head(kbd)>> /\ kbd' = Tail(kbd)
           /\ UNCHANGED <<pc, config, outcome, input, ctlConfig, awaits, answer, param, set,
                          health, firmware, typed>>
           /\ pc <= 2 \/ pc > 8 \/ (pc = 8 /\ ~Pending)
<1>1. ~Has(ctlConfig, 4)
  BY DEF Forward, ClockOff
<1>2. Has(Stopped, 4)
  BY ConfigBytes DEF Inv, BytesInv
<1>3. ctlConfig # Stopped
  BY <1>1, <1>2
<1>4. pc \in 1..23
  BY DEF Inv, PlaceInv
<1>5. pc <= 2 \/ pc > 8 \/ (pc = 8 /\ ~Pending)
  BY <1>3, <1>4 DEF Inv, EffectInv
<1> QED BY <1>5 DEF Forward, driver, controller, fixed

LEMMA TypeIs ==
    ASSUME Type
    PROVE  /\ Running /\ (\E c \in Codes : kbd' = Append(kbd, c)) /\ typed' = typed + 1
           /\ UNCHANGED <<pc, config, outcome, input, output, ctlConfig, awaits, answer,
                          param, set, health, firmware>>
BY DEF Type, driver, controller, fixed

-----------------------------------------------------------------------------
(* What holds of every dialogue                                            *)

Fixed == UNCHANGED <<health, firmware, Stopped, Cleared, Enabled, Present,
                     Controller, Port, Tested>>

LEMMA FixedIs ==
    ASSUME UNCHANGED <<health, firmware>>
    PROVE  Fixed
BY DEF Fixed, Stopped, Cleared, Enabled, Present, Controller, Port, Tested

LEMMA InitInv == Init => Inv
<1> SUFFICES ASSUME Init PROVE Inv
  OBVIOUS
<1>1. PlaceInv /\ SentInv /\ QuietInv
  BY DEF Init, PlaceInv, SentInv, QuietInv, Pending, Running
<1>2. EffectInv
  BY DEF Init, EffectInv, Pending
<1>3. BytesInv
  <2>1. \A c \in Codes : c \in Byte
    BY InitAssumption
  <2>2. output \in Single
    BY <2>1 DEF Init, Single
  <2>3. ctlConfig \in Byte /\ firmware \in Byte
    BY InitAssumption DEF Init
  <2>4. config \in Byte /\ set \in Byte /\ typed \in Nat
    BY DEF Init, Byte
  <2>8. awaits \in BOOLEAN /\ param \in BOOLEAN
    BY DEF Init
  <2>6. answer \in Single
    BY DEF Init, Single
  <2>7. kbd \in Seq(Byte)
    BY DEF Init
  <2>5. health \in [controller : BOOLEAN, port : BOOLEAN,
                    keyboard : {"good", "bad", "absent"}]
    BY DEF Init
  <2> QED BY <2>2, <2>3, <2>4, <2>5, <2>6, <2>7, <2>8 DEF BytesInv
<1> QED BY <1>1, <1>2, <1>3 DEF Inv

\* The steps of the controller, the keyboard and the user, at one place
Aside == DeviceStep \/ Type \/ UNCHANGED initVars

LEMMA AsideIs ==
    ASSUME PlaceInv, SentInv, EffectInv, Aside
    PROVE  /\ UNCHANGED <<pc, config, outcome>> /\ Fixed
           /\ input' = input \/ input' = <<>>
<1>1. UNCHANGED <<pc, config, outcome>> /\ Fixed
  BY DriverWaits, FixedIs DEF Aside
<1>2. input' = input \/ input' = <<>>
  BY DEF Aside, DeviceStep, TakeCommand, TakeConfig, ToKeyboard, Taken, Say, Forward,
     Type, initVars
<1> QED BY <1>1, <1>2

LEMMA NextIs ==
    ASSUME [Next]_initVars
    PROVE  SendByte \/ Drain \/ ReadByte \/ SetIrq \/ Aside
BY DEF Next, DriverStep, Aside

LEMMA SentStep ==
    ASSUME Inv, [Next]_initVars
    PROVE  SentInv'
<1>0. SentInv
  BY DEF Inv
<1>1. CASE SendByte
  <2>1. /\ UNCHANGED <<health, firmware>> /\ pc' = pc + 1 /\ input = <<>>
        /\ \/ pc = 1 /\ input' = <<Command(173)>>
           \/ pc = 2 /\ input' = <<Command(167)>>
           \/ pc = 4 /\ input' = <<Command(32)>>
           \/ pc = 6 /\ input' = <<Command(96)>>
           \/ pc = 7 /\ input' = <<Datum(config)>>
           \/ pc = 8 /\ input' = <<Command(170)>>
           \/ pc = 10 /\ input' = <<Command(171)>>
           \/ pc = 12 /\ input' = <<Command(174)>>
           \/ pc = 13 /\ input' = <<Datum(255)>>
           \/ pc = 16 /\ input' = <<Datum(240)>>
           \/ pc = 18 /\ input' = <<Datum(1)>>
           \/ pc = 21 /\ input' = <<Command(96)>>
           \/ pc = 22 /\ input' = <<Datum(config)>>
    BY <1>1, SendIs DEF Inv, Elsewhere
  <2>2. Cleared' = Cleared /\ Enabled' = Enabled
    BY <2>1, FixedIs DEF Fixed
  <2>3. (pc = 7 => config = Cleared) /\ (pc = 22 => config = Enabled)
    BY DEF Inv, EffectInv
  <2>4. CASE pc = 1
    <3>1. pc' = 2 /\ input' = <<Command(173)>>
      BY <2>1, <2>2, <2>3, <2>4
    <3> QED BY <3>1 DEF SentInv, Asks
  <2>5. CASE pc = 2
    <3>1. pc' = 3 /\ input' = <<Command(167)>>
      BY <2>1, <2>2, <2>3, <2>5
    <3> QED BY <3>1 DEF SentInv, Asks
  <2>6. CASE pc = 4
    <3>1. pc' = 5 /\ input' = <<Command(32)>>
      BY <2>1, <2>2, <2>3, <2>6
    <3> QED BY <3>1 DEF SentInv, Asks
  <2>7. CASE pc = 6
    <3>1. pc' = 7 /\ input' = <<Command(96)>>
      BY <2>1, <2>2, <2>3, <2>7
    <3> QED BY <3>1 DEF SentInv, Asks
  <2>8. CASE pc = 7
    <3>1. pc' = 8 /\ input' = <<Datum(Cleared')>>
      BY <2>1, <2>2, <2>3, <2>8
    <3> QED BY <3>1 DEF SentInv, Asks
  <2>9. CASE pc = 8
    <3>1. pc' = 9 /\ input' = <<Command(170)>>
      BY <2>1, <2>2, <2>3, <2>9
    <3> QED BY <3>1 DEF SentInv, Asks
  <2>10. CASE pc = 10
    <3>1. pc' = 11 /\ input' = <<Command(171)>>
      BY <2>1, <2>2, <2>3, <2>10
    <3> QED BY <3>1 DEF SentInv, Asks
  <2>11. CASE pc = 12
    <3>1. pc' = 13 /\ input' = <<Command(174)>>
      BY <2>1, <2>2, <2>3, <2>11
    <3> QED BY <3>1 DEF SentInv, Asks
  <2>12. CASE pc = 13
    <3>1. pc' = 14 /\ input' = <<Datum(255)>>
      BY <2>1, <2>2, <2>3, <2>12
    <3> QED BY <3>1 DEF SentInv, Asks
  <2>13. CASE pc = 16
    <3>1. pc' = 17 /\ input' = <<Datum(240)>>
      BY <2>1, <2>2, <2>3, <2>13
    <3> QED BY <3>1 DEF SentInv, Asks
  <2>14. CASE pc = 18
    <3>1. pc' = 19 /\ input' = <<Datum(1)>>
      BY <2>1, <2>2, <2>3, <2>14
    <3> QED BY <3>1 DEF SentInv, Asks
  <2>15. CASE pc = 21
    <3>1. pc' = 22 /\ input' = <<Command(96)>>
      BY <2>1, <2>2, <2>3, <2>15
    <3> QED BY <3>1 DEF SentInv, Asks
  <2>16. CASE pc = 22
    <3>1. pc' = 23 /\ input' = <<Datum(Enabled')>>
      BY <2>1, <2>2, <2>3, <2>16
    <3> QED BY <3>1 DEF SentInv, Asks
  <2> QED BY <2>1, <2>4, <2>5, <2>6, <2>7, <2>8, <2>9, <2>10,
            <2>11, <2>12, <2>13, <2>14, <2>15, <2>16
<1>2. CASE Drain
  <2>1. pc = 3 /\ input' = input /\ (pc' = 3 \/ pc' = 4)
    BY <1>2, DrainIs DEF Inv
  <2>2. input' = <<>> \/ input' = <<Command(167)>>
    BY <2>1 DEF Inv, SentInv, Asks
  <2>3. CASE pc' = 3
    BY <2>2, <2>3 DEF SentInv, Asks
  <2>4. CASE pc' = 4
    BY <2>2, <2>4 DEF SentInv, Asks
  <2> QED BY <2>1, <2>3, <2>4
<1>3. CASE ReadByte
  <2>1. /\ UNCHANGED <<health, firmware, input>> /\ output # <<>>
        /\ pc' = pc \/ (pc \in {5, 9, 11, 14, 15, 17, 19} /\ pc' = pc + 1)
    BY <1>3, ReadIs DEF Inv, Elsewhere
  <2>2. Cleared' = Cleared /\ Enabled' = Enabled
    BY <2>1, FixedIs DEF Fixed
  <2>3. pc = 5 => input = <<>>
    BY <2>1 DEF Inv, QuietInv, Asking
  <2>4. CASE pc' = pc
    BY <1>0, <2>1, <2>2, <2>4 DEF SentInv, Asks
  <2>5. CASE pc = 5 /\ pc' = 6
    BY <2>1, <2>3, <2>5 DEF SentInv, Asks
  <2>6. CASE pc = 9 /\ pc' = 10
    <3>1. input' = <<>> \/ input' = <<Command(170)>>
      BY <1>0, <2>1, <2>6 DEF SentInv, Asks
    <3> QED BY <2>6, <3>1 DEF SentInv, Asks
  <2>7. CASE pc = 11 /\ pc' = 12
    <3>1. input' = <<>> \/ input' = <<Command(171)>>
      BY <1>0, <2>1, <2>7 DEF SentInv, Asks
    <3> QED BY <2>7, <3>1 DEF SentInv, Asks
  <2>8. CASE pc = 14 /\ pc' = 15
    <3>1. input' = <<>> \/ input' = <<Datum(255)>>
      BY <1>0, <2>1, <2>8 DEF SentInv, Asks
    <3> QED BY <2>8, <3>1 DEF SentInv, Asks
  <2>9. CASE pc = 15 /\ pc' = 16
    <3>1. input' = <<>> \/ input' = <<Datum(255)>>
      BY <1>0, <2>1, <2>9 DEF SentInv, Asks
    <3> QED BY <2>9, <3>1 DEF SentInv, Asks
  <2>10. CASE pc = 17 /\ pc' = 18
    <3>1. input' = <<>> \/ input' = <<Datum(240)>>
      BY <1>0, <2>1, <2>10 DEF SentInv, Asks
    <3> QED BY <2>10, <3>1 DEF SentInv, Asks
  <2>11. CASE pc = 19 /\ pc' = 20
    <3>1. input' = <<>> \/ input' = <<Datum(1)>>
      BY <1>0, <2>1, <2>11 DEF SentInv, Asks
    <3> QED BY <2>11, <3>1 DEF SentInv, Asks
  <2> QED BY <2>1, <2>4, <2>5, <2>6, <2>7, <2>8, <2>9, <2>10, <2>11
<1>4. CASE SetIrq
  <2>1. pc = 20 /\ input' = input /\ pc' = 21
    BY <1>4, SetIrqIs DEF Inv
  <2> QED BY <2>1 DEF Inv, SentInv, Asks
<1>5. CASE Aside
  <2>1. pc' = pc /\ Cleared' = Cleared /\ Enabled' = Enabled
        /\ (input' = input \/ input' = <<>>)
    BY <1>5, AsideIs DEF Fixed, Inv
  <2> QED BY <2>1 DEF Inv, SentInv, Asks
<1> QED BY <1>1, <1>2, <1>3, <1>4, <1>5, NextIs

LEMMA BytesStep ==
    ASSUME Inv, [Next]_initVars
    PROVE  BytesInv'
<1>0. /\ BytesInv /\ Stopped \in Byte /\ Cleared \in Byte /\ Enabled \in Byte
      /\ 250 \in Byte /\ Tested \in Byte /\ Controller \in Byte /\ Port \in Byte
      /\ 1 \in Byte /\ 2 \in Byte
  BY ConfigBytes DEF Inv, BytesInv, Byte, Tested, Controller, Port
<1>1. CASE SendByte
  BY <1>1, <1>0, SendIs DEF Inv, BytesInv, Elsewhere
<1>2. CASE Drain
  BY <1>2, <1>0, DrainIs DEF Inv, BytesInv, Elsewhere, Single
<1>3. CASE ReadByte
  <2>1. pc = 5 => Masked(output[1]) = Cleared
    <3>1. output # <<>>
      BY <1>3, ReadIs DEF Inv
    <3> QED BY <3>1 DEF Inv, QuietInv, Asking, Cleared
  <2> QED BY <1>3, <1>0, <2>1, ReadIs DEF Inv, BytesInv, Elsewhere, Single
<1>4. CASE SetIrq
  <2>1. With(config, 0) \in Byte
    BY <1>0, SetBit0 DEF BytesInv
  <2> QED BY <1>4, <1>0, <2>1, SetIrqIs DEF Inv, BytesInv, Elsewhere
<1>5. CASE TakeCommand
  <2>1. With(ctlConfig, 4) \in Byte /\ Without(ctlConfig, 4) \in Byte
    BY <1>0, SetBit4, ClearBit4 DEF BytesInv
  <2>2. answer' \in Single /\ ctlConfig' \in Byte
    BY <1>5, <1>0, <2>1, TakeCommandIs DEF Inv, BytesInv, Single
  <2> QED BY <1>5, <1>0, <2>2, TakeCommandIs DEF Inv, BytesInv
<1>6. CASE TakeConfig
  <2>1. input # <<>> /\ ctlConfig' = input[1].val /\ input[1].port = "data"
    BY <1>6, TakeConfigIs DEF Inv
  <2>2. ctlConfig' \in Byte
    <3>1. \/ input[1] = Datum(Cleared) \/ input[1] = Datum(255) \/ input[1] = Datum(240)
          \/ input[1] = Datum(1) \/ input[1] = Datum(Enabled)
      BY <2>1, PendingIs, MessageIs DEF Inv
    <3>2. 255 \in Byte /\ 240 \in Byte
      BY DEF Byte
    <3> QED BY <1>0, <2>1, <3>1, <3>2, MessageIs
  <2> QED BY <1>6, <1>0, <2>2, TakeConfigIs DEF Inv, BytesInv
<1>7. CASE ToKeyboard
  <2>0. <<250, Tested>> \in Seq(Byte) /\ <<250>> \in Seq(Byte)
    BY <1>0
  <2>1. kbd' \in Seq(Byte) /\ set' \in Byte /\ param' \in BOOLEAN
    <3>1. CASE UNCHANGED <<kbd, param, set>>
      BY <1>0, <3>1 DEF BytesInv
    <3>2. CASE ~UNCHANGED <<kbd, param, set>>
      <4>1. kbd' = <<250, Tested>> \/ kbd' = <<250>>
        BY <1>7, <3>2, ToKeyboardIs DEF Inv
      <4>2. set' = set \/ set' = 1 \/ set' = 2
        BY <1>7, <3>2, ToKeyboardIs DEF Inv
      <4>3. param' \in BOOLEAN
        BY <1>7, <3>2, ToKeyboardIs DEF Inv
      <4> QED BY <1>0, <2>0, <4>1, <4>2, <4>3 DEF BytesInv
    <3> QED BY <3>1, <3>2
  <2> QED BY <1>7, <1>0, <2>1, ToKeyboardIs DEF Inv, BytesInv
<1>8. CASE Say
  BY <1>8, <1>0, SayIs DEF BytesInv, Single
<1>9. CASE Forward
  <2>1. kbd # <<>> /\ kbd \in Seq(Byte)
    BY <1>9, <1>0, ForwardIs DEF BytesInv
  <2>2. Head(kbd) \in Byte /\ Tail(kbd) \in Seq(Byte)
    BY <2>1, HeadTailProperties
  <2> QED BY <1>9, <1>0, <2>2, ForwardIs DEF BytesInv, Single
<1>10. CASE Type
  <2>1. PICK c \in Codes : kbd' = Append(kbd, c)
    BY <1>10, TypeIs
  <2>2. kbd' \in Seq(Byte)
    BY <1>0, <2>1, InitAssumption, AppendProperties DEF BytesInv
  <2>3. typed' \in Nat
    BY <1>10, <1>0, TypeIs DEF BytesInv
  <2> QED BY <1>10, <1>0, <2>2, <2>3, TypeIs DEF BytesInv
<1>11. CASE UNCHANGED initVars
  BY <1>11, <1>0 DEF BytesInv, initVars, driver, controller, keyboard, fixed
<1> QED
  BY <1>1, <1>2, <1>3, <1>4, <1>5, <1>6, <1>7, <1>8, <1>9, <1>10, <1>11, NextIs
     DEF Aside, DeviceStep

LEMMA EffectStep ==
    ASSUME Inv, [Next]_initVars
    PROVE  EffectInv'
<1>0. EffectInv /\ pc \in 1..23 /\ UNCHANGED <<health, firmware>> /\ Fixed
  <2>1. SendByte \/ Drain => UNCHANGED <<health, firmware>>
    BY SendIs, DrainIs DEF Inv, Elsewhere
  <2>2. ReadByte \/ SetIrq => UNCHANGED <<health, firmware>>
    BY ReadIs, SetIrqIs DEF Inv, Elsewhere
  <2>3. Aside => UNCHANGED <<health, firmware>>
    BY DriverWaits DEF Aside
  <2>4. UNCHANGED <<health, firmware>>
    BY <2>1, <2>2, <2>3, NextIs
  <2>5. EffectInv /\ pc \in 1..23
    BY DEF Inv, PlaceInv
  <2> QED BY <2>4, <2>5, FixedIs
<1>1. CASE SendByte
  <2>1. /\ pc' = pc + 1 /\ ~Pending /\ Pending'
        /\ pc \in {1, 2, 4, 6, 7, 8, 10, 12, 13, 16, 18, 21, 22}
        /\ UNCHANGED <<config, ctlConfig, awaits, param>>
    BY <1>1, SendIs DEF Inv, Elsewhere, Pending
  <2> QED BY <1>0, <2>1 DEF EffectInv, Fixed
<1>2. CASE Drain
  <2>1. /\ pc = 3 /\ pc' \in {3, 4} /\ Pending' = Pending
        /\ UNCHANGED <<config, ctlConfig, awaits, param>>
    BY <1>2, DrainIs DEF Inv, Elsewhere, Pending
  <2> QED BY <1>0, <2>1 DEF EffectInv, Fixed
<1>3. CASE ReadByte
  <2>1. /\ output # <<>> /\ Pending' = Pending
        /\ UNCHANGED <<ctlConfig, awaits, param>>
        /\ \/ pc' = pc /\ config' = config
           \/ pc \in {9, 11, 14, 15, 17, 19} /\ pc' = pc + 1 /\ config' = config
           \/ pc = 5 /\ pc' = 6 /\ config' = Masked(output[1])
    BY <1>3, ReadIs DEF Inv, Elsewhere, Pending
  <2>2. pc = 5 => Masked(output[1]) = Cleared
    BY <2>1 DEF Inv, QuietInv, Asking, Cleared
  <2>3. CASE pc' = pc /\ config' = config
    BY <1>0, <2>1, <2>3 DEF EffectInv, Fixed
  <2>4. CASE pc \in {9, 11, 14, 15, 17, 19} /\ pc' = pc + 1 /\ config' = config
    BY <1>0, <2>1, <2>4 DEF EffectInv, Fixed
  <2>5. CASE pc = 5 /\ pc' = 6 /\ config' = Masked(output[1])
    BY <1>0, <2>1, <2>2, <2>5 DEF EffectInv, Fixed
  <2> QED BY <2>1, <2>3, <2>4, <2>5
<1>4. CASE SetIrq
  <2>1. /\ pc = 20 /\ pc' = 21 /\ Pending' = Pending /\ config' = With(config, 0)
        /\ UNCHANGED <<ctlConfig, awaits, param>>
    BY <1>4, SetIrqIs DEF Inv, Elsewhere, Pending
  <2>2. config' = Enabled
    BY <1>0, <2>1 DEF EffectInv, Enabled
  <2> QED BY <1>0, <2>1, <2>2 DEF EffectInv, Fixed
<1>5. CASE TakeCommand
  <2>1. /\ UNCHANGED <<pc, config, param>> /\ Pending /\ ~Pending'
        /\ \/ pc = 2 /\ ctlConfig' = With(ctlConfig, 4) /\ ~awaits'
           \/ pc \in {3, 4, 5, 9, 10, 11, 12} /\ ctlConfig' = ctlConfig /\ ~awaits'
           \/ pc \in {7, 22} /\ ctlConfig' = ctlConfig /\ awaits'
           \/ pc = 13 /\ ctlConfig' = Without(ctlConfig, 4) /\ ~awaits'
    BY <1>5, TakeCommandIs DEF Inv, Pending
  <2>2. pc = 2 => ctlConfig' = Stopped
    BY <1>0, <2>1 DEF EffectInv, Stopped
  <2>3. pc = 13 => ctlConfig' = Cleared
    <3>1. Without(Cleared, 4) = Cleared
      BY ConfigBytes DEF Inv, BytesInv
    <3> QED BY <1>0, <2>1, <3>1 DEF EffectInv
  <2> QED BY <1>0, <2>1, <2>2, <2>3 DEF EffectInv, Fixed
<1>6. CASE TakeConfig
  <2>1. /\ UNCHANGED <<pc, config, param>> /\ Pending /\ ~Pending' /\ awaits /\ ~awaits'
        /\ ctlConfig' = input[1].val
    BY <1>6, TakeConfigIs DEF Inv, Pending
  <2>2. pc = 8 \/ pc = 23
    BY <1>0, <2>1 DEF EffectInv
  <2>3. ctlConfig' = IF pc = 8 THEN Cleared ELSE Enabled
    <3>1. input[1] = IF pc = 8 THEN Datum(Cleared) ELSE Datum(Enabled)
      BY <2>1, <2>2, PendingIs DEF Inv, Pending
    <3> QED BY <2>1, <2>2, <3>1, MessageIs
  <2> QED BY <1>0, <2>1, <2>2, <2>3 DEF EffectInv, Fixed
<1>7. CASE ToKeyboard
  <2>1. /\ UNCHANGED <<pc, config, ctlConfig, awaits>> /\ Pending /\ ~Pending'
        /\ pc \in 14..21
        /\ \/ ~Present /\ param' = param
           \/ Present /\ pc \in {14, 15, 16, 19, 20, 21} /\ ~param'
           \/ Present /\ pc \in {17, 18} /\ param'
    BY <1>7, ToKeyboardIs DEF Inv, Pending
  <2> QED BY <1>0, <2>1 DEF EffectInv, Fixed
<1>8. CASE Say \/ Forward \/ Type \/ UNCHANGED initVars
  <2>1. UNCHANGED <<pc, config, input, ctlConfig, awaits, param>>
    BY <1>8, SayIs, ForwardIs, TypeIs
       DEF initVars, driver, controller, keyboard, Inv
  <2> QED BY <1>0, <2>1 DEF EffectInv, Fixed, Pending
<1> QED
  BY <1>1, <1>2, <1>3, <1>4, <1>5, <1>6, <1>7, <1>8, NextIs DEF Aside, DeviceStep

LEMMA QuietStep ==
    ASSUME Inv, [Next]_initVars
    PROVE  QuietInv'
<1>0. QuietInv /\ pc \in 1..23
  BY DEF Inv, PlaceInv
<1>1. CASE SendByte
  <2>1. /\ pc' = pc + 1 /\ input = <<>> /\ UNCHANGED <<output, answer>>
        /\ pc \in {1, 2, 4, 6, 7, 8, 10, 12, 13, 16, 18, 21, 22}
        /\ pc = 4 => input' = <<Command(32)>>
    BY <1>1, SendIs DEF Inv, Elsewhere
  <2> QED BY <1>0, <2>1 DEF QuietInv, Asking
<1>2. CASE Drain
  BY <1>0, <1>2, DrainIs DEF QuietInv, Inv, Elsewhere
<1>3. CASE ReadByte
  <2>1. /\ output # <<>> /\ output' = <<>> /\ UNCHANGED <<input, answer>>
        /\ \/ pc \in {9, 11, 14, 15, 17, 19} /\ pc' \in {pc, pc + 1}
           \/ pc = 5 /\ pc' = 6
    BY <1>3, ReadIs DEF Inv, Elsewhere
  <2>2. pc = 5 => answer = <<>>
    BY <1>0, <2>1 DEF QuietInv, Asking
  <2> QED BY <1>0, <2>1, <2>2 DEF QuietInv
<1>4. CASE SetIrq
  BY <1>4, SetIrqIs DEF QuietInv, Inv
<1>5. CASE TakeCommand
  <2>1. /\ pc' = pc /\ Pending /\ ~Pending' /\ input' = <<>> /\ answer = <<>>
        /\ output' = output
        /\ pc \in {2, 3, 4, 7, 13, 22} => answer' = <<>>
        /\ pc = 5 => answer' = <<ctlConfig>>
        /\ pc \in {2, 3, 4, 5, 7, 9, 10, 11, 12, 13, 22}
    BY <1>5, TakeCommandIs DEF Inv, Pending
  <2>2. pc = 5 => ctlConfig = Stopped /\ Stopped' = Stopped
    <3>1. Stopped' = Stopped
      BY <1>5, DriverWaits, FixedIs DEF Fixed, DeviceStep
    <3> QED BY <3>1 DEF Inv, EffectInv
  <2>3. pc = 5 => output = <<>>
    BY <1>0, <2>1 DEF QuietInv, Asking, Pending
  <2> QED BY <1>0, <2>1, <2>2, <2>3 DEF QuietInv, Asking
<1>6. CASE TakeConfig \/ ToKeyboard
  <2>1. /\ UNCHANGED <<pc, output, answer>> /\ pc \in {8, 23} \union (14..21)
        /\ ~Pending'
    <3>1. CASE TakeConfig
      <4>1. Pending /\ awaits
        BY <3>1, TakeConfigIs DEF Inv, Pending
      <4>2. pc = 8 \/ pc = 23
        BY <4>1 DEF Inv, EffectInv
      <4> QED BY <3>1, <4>2, TakeConfigIs DEF Inv, Pending
    <3>2. CASE ToKeyboard
      BY <3>2, ToKeyboardIs DEF Inv, Pending
    <3> QED BY <1>6, <3>1, <3>2
  <2> QED BY <1>0, <2>1 DEF QuietInv
<1>7. CASE Say
  <2>1. /\ UNCHANGED <<pc, input>> /\ answer # <<>> /\ output = <<>>
        /\ output' = answer /\ answer' = <<>> /\ Pending' = Pending
    BY <1>7, SayIs DEF Pending
  <2>2. Stopped' = Stopped
    BY <1>7, DriverWaits, FixedIs DEF Fixed, DeviceStep
  <2>3. CASE pc = 5
    BY <1>0, <2>1, <2>2, <2>3 DEF QuietInv, Asking
  <2>4. CASE pc # 5
    BY <1>0, <2>1, <2>4 DEF QuietInv
  <2> QED BY <2>3, <2>4
<1>8. CASE Forward
  BY <1>0, <1>8, ForwardIs DEF QuietInv, Pending
<1>9. CASE Type \/ UNCHANGED initVars
  <2>1. UNCHANGED <<pc, input, output, answer>> /\ Stopped' = Stopped
    <3>1. Stopped' = Stopped
      BY <1>9, DriverWaits, FixedIs DEF Fixed
    <3> QED BY <1>9, <3>1, TypeIs DEF initVars, driver, controller
  <2> QED BY <1>0, <2>1 DEF QuietInv, Asking, Pending
<1> QED
  BY <1>1, <1>2, <1>3, <1>4, <1>5, <1>6, <1>7, <1>8, <1>9, NextIs DEF Aside, DeviceStep

LEMMA InvStep == Inv /\ [Next]_initVars => Inv'
BY PlaceStep, SentStep, EffectStep, QuietStep, BytesStep DEF Inv

\* Whatever the devices answer and the user types, the driver stays in its
\* script, every buffer holds one byte at most, and every byte is one.
THEOREM TypeCorrect == Spec => []TypeOK
<1>1. Inv => TypeOK
  <2> SUFFICES ASSUME Inv PROVE TypeOK
    OBVIOUS
  <2>0. ASSUME NEW s, s = <<>> \/ \E m : s = <<m>>
        PROVE  Len(s) <= 1
    <3>1. CASE s = <<>>
      BY <3>1
    <3>2. CASE \E m : s = <<m>>
      BY <3>2
    <3> QED BY <2>0, <3>1, <3>2
  <2>1. /\ input = <<>> \/ \E m : input = <<m>>
        /\ Len(Script) + 1 = 23
    BY Places, LenScript DEF Inv, PlaceInv, SentInv, Asks
  <2>2. Len(input) <= 1
    BY <2>0, <2>1
  <2>3. /\ output = <<>> \/ \E m : output = <<m>>
        /\ answer = <<>> \/ \E m : answer = <<m>>
        /\ \A i \in DOMAIN output : output[i] \in Byte
    BY DEF Inv, BytesInv, Single
  <2>4. Len(output) <= 1 /\ Len(answer) <= 1
    BY <2>0, <2>3
  <2> QED BY <2>1, <2>2, <2>3, <2>4 DEF Inv, PlaceInv, BytesInv, TypeOK
<1> QED BY <1>1, InitInv, InvStep, PTL DEF Spec

\* For every configuration byte that the firmware leaves and whatever is typed
\* before and meanwhile, the byte that the driver changes and writes back
\* differs from the controller's in the bits it means to change, and in no
\* other (keyboard_init).
THEOREM ConfigCorrect == Spec => []ConfigIsTheControllers
<1>1. Inv => ConfigIsTheControllers
  <2> SUFFICES ASSUME Inv, pc > 5, NEW bit \in (0..7) \ {0, 4, 5}
               PROVE  Has(config, bit) = Has(firmware, bit)
    BY DEF ConfigIsTheControllers, Irq
  <2>1. config = Cleared \/ config = Enabled
    BY DEF Inv, EffectInv, PlaceInv
  <2>2. Has(config, bit) <=> Has(firmware, bit)
    BY <2>1, ConfigBytes DEF Inv, BytesInv
  <2> QED BY <2>2 DEF Has
<1> QED BY <1>1, InitInv, InvStep, PTL DEF Spec

-----------------------------------------------------------------------------
(* A dialogue that no key disturbs                                         *)

\* A byte to the keyboard: sent, acknowledged, or the answer in the buffer
Telling(msg) ==
    \/ input = <<msg>> /\ output = <<>> /\ kbd = <<>>
    \/ input = <<>> /\ output = <<>> /\ kbd = <<250>>
    \/ input = <<>> /\ output = <<250>> /\ kbd = <<>>

Silent == input = <<>> /\ output = <<>> /\ kbd = <<>>

Calm ==
    /\ pc <= 13 => kbd = <<>>
    /\ pc >= 6 /\ pc \notin {9, 11} => answer = <<>>
    /\ pc \in {8, 13, 22, 23} => output = <<>> /\ kbd = <<>>
    /\ pc \in {10, 12, 16, 18, 20, 21} => Silent
    /\ pc \in {9, 11} /\ ~Running => Silent /\ answer = <<>>
    /\ pc = 9 => IF Running THEN Asking(Command(170), Controller)
                            ELSE ~health.controller
    /\ pc >= 10 => health.controller
    /\ pc = 11 => IF Running THEN Asking(Command(171), Port) ELSE ~health.port
    /\ pc >= 12 => health.port
    /\ pc = 14 => \/ input = <<Datum(255)>> /\ output = <<>> /\ kbd = <<>>
                  \/ ~Present /\ Silent
                  \/ /\ Present /\ input = <<>>
                     /\ \/ output = <<>> /\ kbd = <<250, Tested>>
                        \/ output = <<250>> /\ kbd = <<Tested>>
    /\ pc = 15 => /\ Present /\ input = <<>>
                  /\ IF Running THEN \/ output = <<>> /\ kbd = <<Tested>>
                                     \/ output = <<Tested>> /\ kbd = <<>>
                     ELSE health.keyboard = "bad" /\ Silent
    /\ pc >= 16 => health.keyboard = "good"
    /\ pc = 17 => Telling(Datum(240))
    /\ pc = 19 => Telling(Datum(1)) /\ (Pending \/ set = 1)
    /\ pc >= 20 => set = 1

CalmInv == typed = 0 => Calm

LEMMA CalmInit == Init => CalmInv
BY DEF Init, CalmInv, Calm, Running

LEMMA RunningIs ==
    ASSUME Inv
    PROVE  /\ pc \in 1..23
           /\ ~Running => pc \in {9, 11, 15, 23}
           /\ health.controller \in BOOLEAN /\ health.port \in BOOLEAN
           /\ Controller = (IF health.controller THEN 85 ELSE 252)
           /\ Port = (IF health.port THEN 0 ELSE 1)
           /\ Tested = (IF health.keyboard = "good" THEN 170 ELSE 252)
           /\ health.keyboard \in {"good", "bad", "absent"}
BY DEF Inv, PlaceInv, BytesInv, Running, Controller, Port, Tested

LEMMA CalmSend ==
    ASSUME Inv, Calm, SendByte
    PROVE  Calm'
<1>1. /\ Running /\ input = <<>> /\ pc' = pc + 1
      /\ outcome' = IF pc = 22 THEN "ok" ELSE "running"
      /\ UNCHANGED <<config, output, Elsewhere>>
      /\ pc \in {1, 2, 4, 6, 7, 8, 10, 12, 13, 16, 18, 21, 22}
      /\ pc = 8 => input' = <<Command(170)>>
      /\ pc = 10 => input' = <<Command(171)>>
      /\ pc = 13 => input' = <<Datum(255)>>
      /\ pc = 16 => input' = <<Datum(240)>>
      /\ pc = 18 => input' = <<Datum(1)>>
  BY SendIs DEF Inv
<1>2. UNCHANGED <<output, answer, kbd, set, health>> /\ Fixed
  BY <1>1, FixedIs DEF Elsewhere
<1>3. CASE pc \in {1, 2, 4}
  BY <1>1, <1>2, <1>3 DEF Calm
<1>4. CASE pc = 6 \/ pc = 7
  BY <1>1, <1>2, <1>4 DEF Calm, Inv, QuietInv
<1>5. CASE pc = 8
  BY <1>1, <1>2, <1>5 DEF Calm, Fixed, Asking, Running
<1>6. CASE pc = 10
  BY <1>1, <1>2, <1>6 DEF Calm, Fixed, Asking, Running, Silent
<1>7. CASE pc = 12
  BY <1>1, <1>2, <1>7 DEF Calm, Silent
<1>8. CASE pc = 13
  BY <1>1, <1>2, <1>8 DEF Calm
<1>9. CASE pc = 16 \/ pc = 18
  BY <1>1, <1>2, <1>9 DEF Calm, Silent, Telling, Pending
<1>10. CASE pc = 21 \/ pc = 22
  BY <1>1, <1>2, <1>10 DEF Calm, Silent
<1> QED BY <1>1, <1>3, <1>4, <1>5, <1>6, <1>7, <1>8, <1>9, <1>10

LEMMA CalmRead ==
    ASSUME Inv, Calm, ReadByte
    PROVE  Calm'
<1>1. /\ Running /\ output # <<>> /\ output' = <<>>
      /\ UNCHANGED <<input, answer, kbd, set, health>>
      /\ \/ pc = 5 /\ pc' = 6
         \/ /\ pc \in {9, 11, 14, 15, 17, 19} /\ pc' = pc + 1 /\ outcome' = outcome
            /\ pc = 9 => output[1] = 85
            /\ pc = 11 => output[1] = 0
            /\ pc = 15 => output[1] = 170
         \/ /\ pc' = pc /\ ~Running'
            /\ \/ pc = 9 /\ output[1] # 85
               \/ pc = 11 /\ output[1] # 0
               \/ pc = 15 /\ output[1] # 170
  BY ReadIs DEF Inv, Elsewhere, Running
<1>2. Fixed
  BY ReadIs, FixedIs DEF Inv, Elsewhere
<1>3. CASE pc = 5
  <2>1. answer = <<>> /\ kbd = <<>>
    BY <1>1, <1>3 DEF Calm, Inv, QuietInv, Asking
  <2> QED BY <1>1, <1>3, <2>1 DEF Calm
<1>4. CASE pc = 9
  <2>1. /\ output = <<Controller>> /\ answer = <<>> /\ kbd = <<>> /\ input = <<>>
        /\ output[1] = Controller
    BY <1>1, <1>4 DEF Calm, Asking
  <2>2. health.controller <=> output[1] = 85
    BY <2>1, RunningIs
  <2> QED BY <1>1, <1>2, <1>4, <2>1, <2>2 DEF Calm, Silent
<1>5. CASE pc = 11
  <2>1. /\ output = <<Port>> /\ answer = <<>> /\ kbd = <<>> /\ input = <<>>
        /\ output[1] = Port /\ health.controller
    BY <1>1, <1>5 DEF Calm, Asking
  <2>2. health.port <=> output[1] = 0
    BY <2>1, RunningIs
  <2> QED BY <1>1, <1>2, <1>5, <2>1, <2>2 DEF Calm, Silent
<1>6. CASE pc = 14
  <2>1. /\ input = <<>> /\ kbd = <<Tested>> /\ Present /\ answer = <<>>
        /\ health.controller /\ health.port
    BY <1>1, <1>6 DEF Calm, Silent
  <2>2. Running'
    BY <1>1, <1>6 DEF Running
  <2> QED BY <1>1, <1>2, <1>6, <2>1, <2>2 DEF Calm, Fixed
<1>7. CASE pc = 15
  <2>1. /\ input = <<>> /\ kbd = <<>> /\ Present /\ answer = <<>>
        /\ health.controller /\ health.port /\ output[1] = Tested
    BY <1>1, <1>7 DEF Calm
  <2>2. output[1] = 170 <=> health.keyboard = "good"
    BY <2>1, RunningIs
  <2>3. ~(health.keyboard = "good") => health.keyboard = "bad"
    BY <2>1, RunningIs DEF Present
  <2> QED BY <1>1, <1>2, <1>7, <2>1, <2>2, <2>3 DEF Calm, Silent, Fixed
<1>8. CASE pc = 17 \/ pc = 19
  <2>1. /\ input = <<>> /\ kbd = <<>> /\ answer = <<>> /\ (pc = 19 => set = 1)
        /\ health.controller /\ health.port /\ health.keyboard = "good"
    BY <1>1, <1>8 DEF Calm, Telling, Pending
  <2> QED BY SMTT(30), <1>1, <1>2, <1>8, <2>1 DEF Calm, Silent
<1> QED BY <1>1, <1>3, <1>4, <1>5, <1>6, <1>7, <1>8

LEMMA CalmController ==
    ASSUME Inv, Calm, TakeCommand \/ TakeConfig \/ Say
    PROVE  Calm'
<1>0. Fixed /\ UNCHANGED <<pc, outcome>> /\ Running' = Running
  BY DriverWaits, FixedIs DEF DeviceStep, Running
<1>1. CASE TakeCommand
  <2>1. /\ input # <<>> /\ input' = <<>> /\ answer = <<>>
        /\ UNCHANGED <<output, kbd, set, health>>
        /\ pc \in {2, 3, 4, 5, 7, 9, 10, 11, 12, 13, 22}
        /\ pc \in {7, 13, 22} => answer' = <<>>
        /\ pc = 9 => input[1] = Command(170) /\ answer' = <<Controller>>
        /\ pc = 11 => input[1] = Command(171) /\ answer' = <<Port>>
    BY <1>1, TakeCommandIs DEF Inv
  <2>2. CASE pc = 9
    BY <1>0, <2>1, <2>2 DEF Calm, Asking, Silent, Fixed
  <2>3. CASE pc = 11
    BY <1>0, <2>1, <2>3 DEF Calm, Asking, Silent, Fixed
  <2>4. CASE pc \in {10, 12}
    BY <2>1, <2>4 DEF Calm, Silent
  <2>5. CASE pc \in {2, 3, 4, 5, 7, 13, 22}
    BY <1>0, <2>1, <2>5 DEF Calm, Silent, Fixed
  <2> QED BY <2>1, <2>2, <2>3, <2>4, <2>5
<1>2. CASE TakeConfig
  <2>1. UNCHANGED <<output, answer, kbd, set, health>> /\ awaits /\ input # <<>>
    BY <1>2, TakeConfigIs DEF Inv
  <2>2. pc = 8 \/ pc = 23
    BY <2>1 DEF Inv, EffectInv, PlaceInv, Pending
  <2> QED BY <1>0, <2>1, <2>2 DEF Calm, Silent, Fixed
<1>3. CASE Say
  <2>1. /\ answer # <<>> /\ output = <<>> /\ output' = answer /\ answer' = <<>>
        /\ UNCHANGED <<input, kbd, set, health>>
    BY <1>3, SayIs
  <2>2. pc <= 5 \/ (pc = 9 /\ Running) \/ (pc = 11 /\ Running)
    BY <2>1, RunningIs DEF Calm, Silent
  <2>3. CASE pc <= 5
    BY <1>0, <2>1, <2>3, RunningIs DEF Calm
  <2>4. CASE pc = 9 /\ Running
    BY <1>0, <2>1, <2>4 DEF Calm, Asking, Fixed
  <2>5. CASE pc = 11 /\ Running
    BY <1>0, <2>1, <2>5 DEF Calm, Asking, Fixed
  <2> QED BY <2>2, <2>3, <2>4, <2>5
<1> QED BY <1>1, <1>2, <1>3

LEMMA CalmKeyboard ==
    ASSUME Inv, Calm, ToKeyboard \/ Forward
    PROVE  Calm'
<1>0. Fixed /\ UNCHANGED <<pc, outcome>> /\ Running' = Running
  BY DriverWaits, FixedIs DEF DeviceStep, Running
<1>1. CASE ToKeyboard
  <2>1. /\ input # <<>> /\ input' = <<>> /\ answer = <<>>
        /\ UNCHANGED <<output, answer, health>>
        /\ pc \in 14..21
        /\ \/ ~Present /\ UNCHANGED <<kbd, set>>
           \/ /\ Present /\ pc \in {14, 15, 16} /\ kbd' = <<250, Tested>> /\ set' = 2
           \/ /\ Present /\ pc \in {17, 18} /\ kbd' = <<250>> /\ set' = set
           \/ /\ Present /\ pc \in {19, 20, 21} /\ kbd' = <<250>> /\ set' = 1
    BY <1>1, ToKeyboardIs DEF Inv
  <2>2. pc = 14 \/ pc = 17 \/ pc = 19
    BY <2>1 DEF Calm, Silent
  <2>3. CASE pc = 14
    BY <1>0, <2>1, <2>3 DEF Calm, Silent, Fixed
  <2>4. CASE pc = 17
    <3>1. Present
      BY <2>4 DEF Calm, Present
    <3> QED BY <1>0, <2>1, <2>4, <3>1 DEF Calm, Telling, Fixed
  <2>5. CASE pc = 19
    <3>1. Present
      BY <2>5 DEF Calm, Present
    <3> QED BY <1>0, <2>1, <2>5, <3>1 DEF Calm, Telling, Fixed
  <2> QED BY <2>2, <2>3, <2>4, <2>5
<1>2. CASE Forward
  <2>1. /\ kbd # <<>> /\ output = <<>> /\ output' = <<Head(kbd)>> /\ kbd' = Tail(kbd)
        /\ UNCHANGED <<input, answer, set, health>>
    BY <1>2, ForwardIs
  <2>2. /\ \A a : Head(<<a>>) = a /\ Tail(<<a>>) = <<>>
        /\ \A a, b : Head(<<a, b>>) = a /\ Tail(<<a, b>>) = <<b>>
    OBVIOUS
  <2>3. pc = 14 \/ (pc = 15 /\ Running) \/ pc = 17 \/ pc = 19
    BY SMTT(30), <2>1, RunningIs DEF Calm, Silent
  <2>4. CASE pc = 14
    <3>1. /\ input = <<>> /\ Present /\ kbd = <<250, Tested>> /\ answer = <<>>
          /\ health.controller /\ health.port
      BY <2>1, <2>4 DEF Calm, Silent
    <3>2. output' = <<250>> /\ kbd' = <<Tested>>
      BY <2>1, <2>2, <3>1
    <3> QED BY <1>0, <2>1, <2>4, <3>1, <3>2 DEF Calm, Fixed
  <2>5. CASE pc = 15 /\ Running
    <3>1. /\ input = <<>> /\ Present /\ kbd = <<Tested>> /\ answer = <<>>
          /\ health.controller /\ health.port
      BY <2>1, <2>5 DEF Calm
    <3>2. output' = <<Tested>> /\ kbd' = <<>>
      BY <2>1, <2>2, <3>1
    <3> QED BY <1>0, <2>1, <2>5, <3>1, <3>2 DEF Calm, Fixed
  <2>6. CASE pc = 17 \/ pc = 19
    <3>1. /\ input = <<>> /\ kbd = <<250>> /\ answer = <<>> /\ (pc = 19 => set = 1)
          /\ health.controller /\ health.port /\ health.keyboard = "good"
      BY <2>1, <2>6 DEF Calm, Telling, Pending
    <3>2. output' = <<250>> /\ kbd' = <<>>
      BY <2>1, <2>2, <3>1
    <3> QED BY <1>0, <2>1, <2>6, <3>1, <3>2 DEF Calm, Telling
  <2> QED BY <2>3, <2>4, <2>5, <2>6
<1> QED BY <1>1, <1>2

LEMMA CalmStep ==
    ASSUME Inv, CalmInv, [Next]_initVars
    PROVE  CalmInv'
<1> SUFFICES ASSUME typed' = 0 PROVE Calm'
  BY DEF CalmInv
<1>1. CASE SendByte
  <2>1. typed = 0
    BY <1>1, SendIs DEF Inv, Elsewhere
  <2> QED BY <1>1, <2>1, CalmSend DEF CalmInv
<1>2. CASE Drain
  <2>1. /\ pc = 3 /\ pc' \in {3, 4} /\ kbd' = kbd /\ typed = 0
    BY <1>2, DrainIs DEF Inv, Elsewhere
  <2> QED BY <2>1 DEF CalmInv, Calm
<1>3. CASE ReadByte
  <2>1. typed = 0
    BY <1>3, ReadIs DEF Inv, Elsewhere
  <2> QED BY <1>3, <2>1, CalmRead DEF CalmInv
<1>4. CASE SetIrq
  <2>1. /\ pc = 20 /\ pc' = 21 /\ typed = 0
        /\ UNCHANGED <<input, output, answer, kbd, set, health>>
    BY <1>4, SetIrqIs DEF Inv, Elsewhere
  <2> QED BY <2>1 DEF CalmInv, Calm, Silent
<1>5. CASE TakeCommand \/ TakeConfig \/ Say
  <2>1. typed = 0
    BY <1>5, TakeCommandIs, TakeConfigIs, SayIs DEF Inv
  <2> QED BY <1>5, <2>1, CalmController DEF CalmInv
<1>6. CASE ToKeyboard \/ Forward
  <2>1. typed = 0
    BY <1>6, ToKeyboardIs, ForwardIs DEF Inv
  <2> QED BY <1>6, <2>1, CalmKeyboard DEF CalmInv
<1>7. CASE Type
  <2>1. typed' = typed + 1 /\ typed \in Nat
    BY <1>7, TypeIs DEF Inv, BytesInv
  <2> QED BY <2>1
<1>8. CASE UNCHANGED initVars
  BY <1>8 DEF initVars, driver, controller, keyboard, fixed, CalmInv, Calm, Silent,
     Asking, Telling, Running, Controller, Port, Tested, Present, Pending
<1> QED
  BY <1>1, <1>2, <1>3, <1>4, <1>5, <1>6, <1>7, <1>8, NextIs DEF Aside, DeviceStep

\* While no key is typed, a test that keyboard_init reports as failed did fail.
THEOREM FailuresCorrect == Spec => []FailuresAreReal
<1>1. Inv /\ CalmInv => FailuresAreReal
  <2> SUFFICES ASSUME Inv, Calm
               PROVE  /\ outcome = "controller" => ~health.controller
                      /\ outcome = "port" => ~health.port
                      /\ outcome = "keyboard" => health.keyboard = "bad"
    BY DEF CalmInv, FailuresAreReal
  <2>1. /\ outcome = "controller" => pc = 9 /\ ~Running
        /\ outcome = "port" => pc = 11 /\ ~Running
        /\ outcome = "keyboard" => pc = 15 /\ ~Running
    BY DEF Inv, PlaceInv, Running
  <2> QED BY <2>1 DEF Calm
<1> QED BY <1>1, InitInv, InvStep, CalmInit, CalmStep, PTL DEF Spec

\* While no key is typed, a keyboard reported as initialised has its interrupt
\* and its clock on and the scan code set of the tables, and no answer is left
\* for keyboard_handler to take for a key.
THEOREM ReadyCorrect == Spec => []ReadyForKeys
<1>1. Inv /\ CalmInv => ReadyForKeys
  <2> SUFFICES ASSUME Inv, Calm, outcome = "ok", input = <<>>
               PROVE  /\ Has(ctlConfig, 0) /\ ~Has(ctlConfig, 4)
                      /\ set = 1
                      /\ output = <<>> /\ kbd = <<>> /\ answer = <<>>
    BY DEF CalmInv, ReadyForKeys, Irq, ClockOff
  <2>1. pc = 23
    BY DEF Inv, PlaceInv
  <2>2. ctlConfig = Enabled
    BY <2>1 DEF Inv, EffectInv, Pending
  <2>3. Has(Enabled, 0) /\ ~Has(Enabled, 4)
    BY ConfigBytes DEF Inv, BytesInv
  <2> QED BY <2>1, <2>2, <2>3 DEF Calm
<1> QED BY <1>1, InitInv, InvStep, CalmInit, CalmStep, PTL DEF Spec

-----------------------------------------------------------------------------
(* A dialogue with one scan code                                           *)

\* A question to the controller that the scan code may still overtake
Late(msg, reply) ==
    \/ input = <<msg>> /\ answer = <<>> /\ Len(kbd) + Len(output) <= typed
    \/ input = <<>> /\ answer = <<reply>> /\ Len(kbd) + Len(output) <= typed
    \/ input = <<>> /\ answer = <<>> /\ output = <<reply>> /\ Len(kbd) <= typed

\* The scan code has been read for an answer, so that every answer is one late.
Behind == typed = 1 /\ kbd = <<>>

Stray ==
    /\ pc <= 8 => Len(kbd) <= typed
    /\ pc = 8 => Len(kbd) + Len(output) <= typed
    /\ pc = 9 /\ Running => Late(Command(170), Controller)
    /\ pc = 10 => \/ /\ health.controller /\ input = <<>> /\ answer = <<>>
                     /\ Len(kbd) + Len(output) <= typed
                  \/ Behind /\ Asking(Command(170), Controller)
    /\ pc = 11 /\ Running => \/ health.controller /\ Late(Command(171), Port)
                             \/ /\ Behind
                                /\ \/ answer = <<Controller>> /\ output = <<>>
                                   \/ output = <<Controller>>
    /\ pc >= 12 => health.controller
    /\ ~health.port =>
          /\ pc <= 15
          /\ pc = 12 => Behind /\ Asking(Command(171), Port)
          /\ pc = 13 => /\ Behind
                        /\ \/ answer = <<>> /\ output = <<Port>>
                           \/ Pending /\ answer = <<Port>> /\ output = <<>>
          /\ pc = 14 => /\ typed = 1 /\ answer = <<>> /\ output = <<Port>>
                        /\ kbd = <<>> \/ (~Pending /\ kbd = <<250, Tested>>)
          /\ pc = 15 /\ Running =>
                /\ typed = 1 /\ answer = <<>>
                /\ \/ output = <<>> /\ kbd = <<>>
                   \/ output = <<>> /\ ~Pending /\ kbd = <<250, Tested>>
                   \/ output = <<250>>

StrayInv == typed <= 1 => Stray

LEMMA LengthIs ==
    ASSUME Inv
    PROVE  /\ Len(kbd) \in Nat /\ (Len(kbd) = 0 <=> kbd = <<>>)
           /\ Len(output) \in Nat /\ (output = <<>> => Len(output) = 0)
           /\ output # <<>> => Len(output) = 1
           /\ typed \in Nat
<1>1. kbd \in Seq(Byte) /\ output \in Single /\ typed \in Nat
  BY DEF Inv, BytesInv
<1>2. Len(kbd) \in Nat /\ (Len(kbd) = 0 <=> kbd = <<>>)
  BY <1>1, EmptySeq
<1>3. output = <<>> => Len(output) = 0
  OBVIOUS
<1>4. output # <<>> => Len(output) = 1
  <2>1. SUFFICES ASSUME output # <<>> PROVE Len(output) = 1
    OBVIOUS
  <2>2. PICK b \in Byte : output = <<b>>
    BY <1>1, <2>1 DEF Single
  <2> QED BY <2>2
<1> QED BY <1>1, <1>2, <1>3, <1>4

LEMMA StrayInit == Init => StrayInv
<1> SUFFICES ASSUME Init PROVE Stray
  BY DEF StrayInv
<1>1. Len(kbd) = 0 /\ pc = 1 /\ typed = 0
  BY DEF Init
<1> QED BY <1>1 DEF Stray

LEMMA StraySend ==
    ASSUME Inv, Stray, typed <= 1, SendByte
    PROVE  Stray'
<1>1. /\ input = <<>> /\ pc' = pc + 1
      /\ outcome' = IF pc = 22 THEN "ok" ELSE "running"
      /\ pc \in {1, 2, 4, 6, 7, 8, 10, 12, 13, 16, 18, 21, 22}
      /\ pc = 8 => input' = <<Command(170)>>
      /\ pc = 10 => input' = <<Command(171)>>
      /\ pc = 12 => input' = <<Command(174)>>
      /\ UNCHANGED <<output, answer, kbd, health, typed, firmware>>
  BY SendIs DEF Inv, Elsewhere
<1>2. Fixed
  BY <1>1, FixedIs
<1>3. CASE pc \in {1, 2, 4, 6}
  BY <1>1, <1>3 DEF Stray
<1>4. CASE pc = 7
  <2>1. Len(kbd) + Len(output) <= typed
    BY <1>4, LengthIs DEF Stray, Inv, QuietInv
  <2> QED BY <1>1, <1>4, <2>1 DEF Stray
<1>5. CASE pc = 8
  <2>1. answer = <<>>
    BY <1>5 DEF Inv, QuietInv
  <2> QED BY <1>1, <1>2, <1>5, <2>1 DEF Stray, Late, Fixed
<1>6. CASE pc = 10
  BY <1>1, <1>2, <1>6 DEF Stray, Late, Asking, Behind, Fixed
<1>7. CASE pc = 12
  BY <1>1, <1>2, <1>7 DEF Stray, Asking, Behind, Fixed, Pending
<1>8. CASE pc = 13
  BY <1>1, <1>2, <1>8 DEF Stray, Behind, Fixed, Pending
<1>9. CASE pc \in {16, 18, 21, 22}
  BY <1>1, <1>9 DEF Stray
<1> QED BY <1>1, <1>3, <1>4, <1>5, <1>6, <1>7, <1>8, <1>9

LEMMA StrayRead ==
    ASSUME Inv, Stray, typed <= 1, ReadByte
    PROVE  Stray'
<1>1. /\ Running /\ output # <<>> /\ output' = <<>>
      /\ UNCHANGED <<input, answer, kbd, health, typed, firmware>>
      /\ \/ pc = 5 /\ pc' = 6
         \/ /\ pc \in {9, 11, 14, 15, 17, 19} /\ pc' = pc + 1 /\ outcome' = outcome
            /\ pc = 9 => output[1] = 85
            /\ pc = 11 => output[1] = 0
            /\ pc = 15 => output[1] = 170
         \/ /\ pc' = pc /\ ~Running'
            /\ \/ pc = 9 /\ output[1] # 85
               \/ pc = 11 /\ output[1] # 0
               \/ pc = 15 /\ output[1] # 170
  BY ReadIs DEF Inv, Elsewhere, Running
<1>2. Fixed /\ Pending' = Pending
  BY <1>1, FixedIs DEF Pending
<1>3. /\ Len(output) = 1 /\ Len(output') = 0 /\ Len(kbd) \in Nat /\ typed \in Nat
      /\ Len(kbd) = 0 <=> kbd = <<>>
      /\ \A b : output = <<b>> => output[1] = b
  BY <1>1, LengthIs
<1>4. CASE pc = 5
  BY <1>1, <1>4 DEF Stray
<1>5. CASE pc' = pc
  <2>1. /\ \/ pc = 9 \/ pc = 11 \/ pc = 15
        /\ ~Running'
    BY <1>1, <1>5
  <2>2. pc = 15 => health.controller
    BY DEF Stray
  <2> QED BY <1>1, <1>2, <1>5, <2>1, <2>2 DEF Stray
<1>6. CASE pc = 9 /\ pc' = 10
  <2>1. Late(Command(170), Controller) /\ output[1] = 85
    BY <1>1, <1>6 DEF Stray
  <2>2. CASE input = <<>> /\ answer = <<>> /\ output = <<Controller>> /\ Len(kbd) <= typed
    <3>1. health.controller
      BY <1>3, <2>1, <2>2, RunningIs
    <3> QED BY <1>1, <1>3, <1>6, <2>2, <3>1 DEF Stray
  <2>3. CASE /\ Len(kbd) + Len(output) <= typed
             /\ \/ input = <<Command(170)>> /\ answer = <<>>
                \/ input = <<>> /\ answer = <<Controller>>
    <3>1. Behind
      BY <1>3, <2>3 DEF Behind
    <3> QED BY <1>1, <1>2, <1>6, <2>3, <3>1 DEF Stray, Asking, Behind, Fixed
  <2> QED BY <2>1, <2>2, <2>3 DEF Late
<1>7. CASE pc = 11 /\ pc' = 12
  <2>1. output[1] = 0
    BY <1>1, <1>7
  <2>2. output # <<Controller>>
    BY <1>3, <2>1, RunningIs
  <2>3. health.controller /\ Late(Command(171), Port)
    BY <1>1, <1>7, <2>2 DEF Stray
  <2>4. CASE input = <<>> /\ answer = <<>> /\ output = <<Port>> /\ Len(kbd) <= typed
    <3>1. health.port
      BY <1>3, <2>1, <2>4, RunningIs
    <3> QED BY <1>1, <1>7, <2>3, <3>1 DEF Stray
  <2>5. CASE /\ Len(kbd) + Len(output) <= typed
             /\ \/ input = <<Command(171)>> /\ answer = <<>>
                \/ input = <<>> /\ answer = <<Port>>
    <3>1. Behind
      BY <1>3, <2>5 DEF Behind
    <3> QED BY <1>1, <1>2, <1>7, <2>3, <2>5, <3>1 DEF Stray, Asking, Behind, Fixed
  <2> QED BY <2>3, <2>4, <2>5 DEF Late
<1>8. CASE pc = 14 /\ pc' = 15
  BY <1>1, <1>2, <1>8 DEF Stray, Fixed
<1>9. CASE pc = 15 /\ pc' = 16
  <2>1. output[1] = 170
    BY <1>1, <1>9
  <2>2. health.port
    BY <1>1, <1>3, <1>9, <2>1, RunningIs DEF Stray
  <2> QED BY <1>1, <1>9, <2>2 DEF Stray
<1>10. CASE pc \in {17, 19} /\ pc' = pc + 1
  BY <1>1, <1>10 DEF Stray
<1> QED BY <1>1, <1>4, <1>5, <1>6, <1>7, <1>8, <1>9, <1>10

LEMMA StrayController ==
    ASSUME Inv, Stray, typed <= 1, TakeCommand \/ TakeConfig \/ Say
    PROVE  Stray'
<1>0. Fixed /\ UNCHANGED <<pc, outcome, health>> /\ Running' = Running
  BY DriverWaits, FixedIs DEF DeviceStep, Running
<1>1. CASE TakeCommand
  <2>1. /\ input # <<>> /\ input' = <<>> /\ answer = <<>>
        /\ UNCHANGED <<output, kbd, typed>>
        /\ pc \in {2, 3, 4, 5, 7, 9, 10, 11, 12, 13, 22}
        /\ pc = 13 => answer' = <<>>
        /\ pc \in {9, 10} => answer' = <<Controller>>
        /\ pc \in {11, 12} => answer' = <<Port>>
    BY <1>1, TakeCommandIs DEF Inv
  <2>2. CASE pc \in {2, 3, 4, 5, 7, 22}
    BY <1>0, <2>1, <2>2 DEF Stray
  <2>3. CASE pc = 9
    BY <1>0, <2>1, <2>3 DEF Stray, Late, Fixed
  <2>4. CASE pc = 10
    BY <1>0, <2>1, <2>4 DEF Stray, Asking, Behind, Fixed
  <2>5. CASE pc = 11
    BY <1>0, <2>1, <2>5 DEF Stray, Late, Behind, Fixed
  <2>6. CASE pc = 12
    BY <1>0, <2>1, <2>6 DEF Stray, Asking, Behind, Fixed
  <2>7. CASE pc = 13
    BY <1>0, <2>1, <2>7 DEF Stray, Behind, Fixed, Pending
  <2> QED BY <2>1, <2>2, <2>3, <2>4, <2>5, <2>6, <2>7
<1>2. CASE TakeConfig
  <2>1. UNCHANGED <<output, kbd, typed>> /\ awaits /\ input # <<>>
    BY <1>2, TakeConfigIs DEF Inv
  <2>2. pc = 8 \/ pc = 23
    BY <2>1 DEF Inv, EffectInv, PlaceInv, Pending
  <2> QED BY <1>0, <2>1, <2>2 DEF Stray
<1>3. CASE Say
  <2>1. /\ answer # <<>> /\ output = <<>> /\ output' = answer /\ answer' = <<>>
        /\ UNCHANGED <<input, kbd, typed>> /\ pc \in 1..23 /\ Pending' = Pending
    BY <1>3, SayIs, RunningIs DEF Pending
  <2>2. Len(output) = 0 /\ Len(kbd) \in Nat
    BY <2>1, LengthIs
  <2>3. CASE pc <= 8
    <3>1. pc # 8
      BY <2>1 DEF Inv, QuietInv
    <3> QED BY <1>0, <2>1, <2>3, <3>1 DEF Stray
  <2>4. CASE pc = 9
    BY <1>0, <2>1, <2>2, <2>4 DEF Stray, Late, Fixed
  <2>5. CASE pc = 10
    BY <1>0, <2>1, <2>5 DEF Stray, Asking, Behind, Fixed
  <2>6. CASE pc = 11
    BY <1>0, <2>1, <2>2, <2>6 DEF Stray, Late, Behind, Fixed
  <2>7. CASE pc = 12
    BY <1>0, <2>1, <2>7 DEF Stray, Asking, Behind, Fixed
  <2>8. CASE pc = 13
    BY <1>0, <2>1, <2>8 DEF Stray, Behind, Fixed
  <2>9. CASE pc > 13
    BY <1>0, <2>1, <2>9 DEF Stray
  <2> QED BY <2>1, <2>3, <2>4, <2>5, <2>6, <2>7, <2>8, <2>9
<1> QED BY <1>1, <1>2, <1>3

LEMMA StrayKeyboard ==
    ASSUME Inv, Stray, typed <= 1, ToKeyboard \/ Forward
    PROVE  Stray'
<1>0. Fixed /\ UNCHANGED <<pc, outcome, health>> /\ Running' = Running
  BY DriverWaits, FixedIs DEF DeviceStep, Running
<1>1. CASE ToKeyboard
  <2>1. /\ Pending /\ ~Pending' /\ UNCHANGED <<output, answer, typed>>
        /\ pc \in 14..21
    BY <1>1, ToKeyboardIs DEF Inv, Pending
  <2>2. pc \in {14, 15} => kbd' = kbd \/ kbd' = <<250, Tested>>
    <3>1. \/ kbd' = kbd
          \/ pc \in {14, 15, 16} /\ kbd' = <<250, Tested>>
          \/ pc \in {17, 18} \/ pc \in {19, 20, 21}
      BY <1>1, ToKeyboardIs DEF Inv
    <3> QED BY <3>1
  <2> QED BY <1>0, <2>1, <2>2 DEF Stray, Fixed
<1>2. CASE Forward
  <2>1. /\ kbd # <<>> /\ output = <<>> /\ output' = <<Head(kbd)>> /\ kbd' = Tail(kbd)
        /\ UNCHANGED <<input, answer, typed>> /\ pc \in 1..23
    BY <1>2, ForwardIs, RunningIs
  <2>2. /\ Len(output) = 0 /\ Len(output') = 1 /\ Len(kbd) \in Nat
        /\ Len(kbd') = Len(kbd) - 1 /\ typed \in Nat
    <3>1. kbd \in Seq(Byte)
      BY DEF Inv, BytesInv
    <3>2. Len(kbd') = Len(kbd) - 1
      BY <2>1, <3>1, HeadTailProperties
    <3>3. Len(output') = 1
      BY <2>1
    <3> QED BY <2>1, <3>2, <3>3, LengthIs
  <2>3. CASE pc <= 8
    BY <1>0, <2>1, <2>2, <2>3 DEF Stray
  <2>4. CASE pc = 9
    BY <1>0, <2>1, <2>2, <2>4 DEF Stray, Late, Fixed
  <2>5. CASE pc = 10
    BY <1>0, <2>1, <2>2, <2>5 DEF Stray, Behind, Fixed
  <2>6. CASE pc = 11
    BY <1>0, <2>1, <2>2, <2>6 DEF Stray, Late, Behind, Fixed
  <2>7. CASE pc \in {12, 13, 14}
    BY <1>0, <2>1, <2>7 DEF Stray, Behind
  <2>8. CASE pc = 15
    <3>1. \A a, b : Head(<<a, b>>) = a
      OBVIOUS
    <3> QED BY <1>0, <2>1, <2>8, <3>1 DEF Stray
  <2>9. CASE pc > 15
    BY <1>0, <2>1, <2>9 DEF Stray
  <2> QED BY <2>1, <2>3, <2>4, <2>5, <2>6, <2>7, <2>8, <2>9
<1> QED BY <1>1, <1>2

LEMMA StrayType ==
    ASSUME Inv, Stray, typed = 0, Type
    PROVE  Stray'
<1>1. /\ typed' = 1 /\ UNCHANGED <<pc, outcome, input, output, answer, health, firmware>>
      /\ pc \in 1..23
  BY TypeIs, RunningIs
<1>2. Fixed /\ Running' = Running
  BY <1>1, FixedIs DEF Running
<1>3. Len(kbd') = Len(kbd) + 1 /\ Len(kbd) \in Nat /\ Len(output) \in Nat
  <2>1. PICK c \in Codes : kbd' = Append(kbd, c)
    BY TypeIs
  <2>2. kbd \in Seq(Byte) /\ c \in Byte
    BY InitAssumption DEF Inv, BytesInv
  <2> QED BY <2>1, <2>2, AppendProperties, LengthIs
<1>4. CASE pc <= 8
  BY <1>1, <1>3, <1>4 DEF Stray
<1>5. CASE pc = 9
  BY <1>1, <1>2, <1>3, <1>5 DEF Stray, Late, Fixed
<1>6. CASE pc = 10
  BY <1>1, <1>2, <1>3, <1>6 DEF Stray, Behind, Fixed
<1>7. CASE pc = 11
  BY <1>1, <1>2, <1>3, <1>7 DEF Stray, Late, Behind, Fixed
<1>8. CASE pc >= 12
  BY <1>1, <1>2, <1>8 DEF Stray, Behind
<1> QED BY <1>1, <1>4, <1>5, <1>6, <1>7, <1>8

LEMMA StrayStep ==
    ASSUME Inv, StrayInv, [Next]_initVars
    PROVE  StrayInv'
<1> SUFFICES ASSUME typed' <= 1 PROVE Stray'
  BY DEF StrayInv
<1>0. typed \in Nat
  BY DEF Inv, BytesInv
<1>1. CASE SendByte
  <2>1. typed' = typed
    BY <1>1, SendIs DEF Inv, Elsewhere
  <2> QED BY <1>1, <2>1, StraySend DEF StrayInv
<1>2. CASE Drain
  <2>1. pc = 3 /\ pc' \in {3, 4} /\ kbd' = kbd /\ typed' = typed
    BY <1>2, DrainIs DEF Inv, Elsewhere
  <2> QED BY <2>1 DEF StrayInv, Stray
<1>3. CASE ReadByte
  <2>1. typed' = typed
    BY <1>3, ReadIs DEF Inv, Elsewhere
  <2> QED BY <1>3, <2>1, StrayRead DEF StrayInv
<1>4. CASE SetIrq
  <2>1. pc = 20 /\ pc' = 21 /\ typed' = typed /\ health' = health
    BY <1>4, SetIrqIs DEF Inv, Elsewhere
  <2> QED BY <2>1 DEF StrayInv, Stray
<1>5. CASE TakeCommand \/ TakeConfig \/ Say
  <2>1. typed' = typed
    BY <1>5, TakeCommandIs, TakeConfigIs, SayIs DEF Inv
  <2> QED BY <1>5, <2>1, StrayController DEF StrayInv
<1>6. CASE ToKeyboard \/ Forward
  <2>1. typed' = typed
    BY <1>6, ToKeyboardIs, ForwardIs DEF Inv
  <2> QED BY <1>6, <2>1, StrayKeyboard DEF StrayInv
<1>7. CASE Type
  <2>1. typed = 0
    BY <1>0, <1>7, TypeIs
  <2> QED BY <1>7, <2>1, StrayType DEF StrayInv
<1>8. CASE UNCHANGED initVars
  BY <1>8 DEF initVars, driver, controller, keyboard, fixed, StrayInv, Stray,
     Late, Behind, Asking, Running, Controller, Port, Tested, Pending
<1> QED
  BY <1>1, <1>2, <1>3, <1>4, <1>5, <1>6, <1>7, <1>8, NextIs DEF Aside, DeviceStep

\* Success is real: while no key is typed the keyboard passed its test, and one
\* scan code, read for an answer, only makes every later answer come one late,
\* so that it cannot hide a controller or a port that failed.
THEOREM SuccessCorrect == Spec => []SuccessIsReal
<1>1. Inv /\ CalmInv /\ StrayInv => SuccessIsReal
  <2> SUFFICES ASSUME Inv, CalmInv, StrayInv, outcome = "ok"
               PROVE  /\ typed = 0 => health.keyboard = "good"
                      /\ typed <= 1 => health.controller /\ health.port
    BY DEF SuccessIsReal
  <2>1. pc = 23
    BY DEF Inv, PlaceInv
  <2> QED BY <2>1 DEF CalmInv, Calm, StrayInv, Stray
<1> QED
  BY <1>1, InitInv, InvStep, CalmInit, CalmStep, StrayInit, StrayStep, PTL DEF Spec

=============================================================================
