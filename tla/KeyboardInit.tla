---------------------------- MODULE KeyboardInit ----------------------------
(***************************************************************************)
(* keyboard_init (kernel/keyboard.c): the dialogue of the driver with the  *)
(* PS/2 controller and, through it, with the keyboard.                     *)
(*                                                                         *)
(* The driver waits for the two status bits without a bound and reads one  *)
(* answer after another from a buffer of one byte.  The bytes do not say   *)
(* who sent them: a key typed meanwhile is read as an answer.  The driver, *)
(* the controller, the keyboard and the user take steps of their own.      *)
(* Interrupts are off.                                                     *)
(***************************************************************************)
EXTENDS Integers, Sequences

CONSTANTS
    Configs,    \* bound: configuration bytes the firmware may leave
    Codes,      \* bound: scan codes the user may send
    MaxTyped    \* bound: how many of them

Byte == 0..255
Irq == 0            \* bits of the configuration byte
ClockOff == 4

ASSUME InitAssumption ==
    Configs \subseteq Byte /\ Codes \subseteq Byte /\ MaxTyped \in Nat

VARIABLES
    pc,         \* the driver: its place in Script
    config,     \* its copy of the configuration byte
    outcome,    \* "running", "ok" or the test that it reports as failed
    input,      \* the input buffer: <<>> or one byte with its port
    output,     \* the output buffer: <<>> or one byte
    ctlConfig,  \* the controller's configuration byte
    awaits,     \* does it wait for the data of command 0x60?
    answer,     \* what it has to say: <<>> or one byte
    kbd,        \* the bytes the keyboard has to send
    param, set, \* does it wait for a scan code set; the set it uses
    health,     \* what works: [controller, port, keyboard]
    firmware,   \* auxiliary: the configuration byte at the start
    typed       \* auxiliary: how many scan codes the user has sent

driver == <<pc, config, outcome>>
controller == <<ctlConfig, awaits, answer>>
keyboard == <<kbd, param, set>>
fixed == <<health, firmware>>
initVars == <<driver, input, output, controller, keyboard, fixed, typed>>

Has(byte, bit) == (byte \div 2^bit) % 2 = 1
With(byte, bit) == IF Has(byte, bit) THEN byte ELSE byte + 2^bit
Without(byte, bit) == IF Has(byte, bit) THEN byte - 2^bit ELSE byte

\* config &= ~0x30
Masked(byte) == Without(Without(byte, 4), 5)

-----------------------------------------------------------------------------
(* The dialogue.                                                           *)

Cmd(val) == [op |-> "cmd", val |-> val, test |-> ""]
Data(val) == [op |-> "data", val |-> val, test |-> ""]
WriteConfig == [op |-> "config", val |-> 0, test |-> ""]
Flush == [op |-> "flush", val |-> 0, test |-> ""]
ReadConfig == [op |-> "readconfig", val |-> 0, test |-> ""]
Read == [op |-> "read", val |-> 0, test |-> ""]
Expect(val, test) == [op |-> "expect", val |-> val, test |-> test]
EnableIrq == [op |-> "enableirq", val |-> 0, test |-> ""]

\* Mutants of Script: the keyboard is not disabled first; the last answer is
\* not read; one answer too many is awaited.
ScriptKeyboardOn ==
    <<Cmd(167), Cmd(167), Flush, Cmd(32), ReadConfig, Cmd(96), WriteConfig,
      Cmd(170), Expect(85, "controller"), Cmd(171), Expect(0, "port"),
      Cmd(174), Data(255), Read, Expect(170, "keyboard"),
      Data(240), Read, Data(1), Read, EnableIrq, Cmd(96), WriteConfig>>

ScriptLastUnread ==
    <<Cmd(173), Cmd(167), Flush, Cmd(32), ReadConfig, Cmd(96), WriteConfig,
      Cmd(170), Expect(85, "controller"), Cmd(171), Expect(0, "port"),
      Cmd(174), Data(255), Read, Expect(170, "keyboard"),
      Data(240), Read, Data(1), EnableIrq, Cmd(96), WriteConfig>>

ScriptWaitsForEnable ==
    <<Cmd(173), Cmd(167), Flush, Cmd(32), ReadConfig, Cmd(96), WriteConfig,
      Cmd(170), Expect(85, "controller"), Cmd(171), Expect(0, "port"),
      Cmd(174), Read, Data(255), Read, Expect(170, "keyboard"),
      Data(240), Read, Data(1), Read, EnableIrq, Cmd(96), WriteConfig>>

Script ==
    <<Cmd(173), Cmd(167), Flush, Cmd(32), ReadConfig, Cmd(96), WriteConfig,
      Cmd(170), Expect(85, "controller"), Cmd(171), Expect(0, "port"),
      Cmd(174), Data(255), Read, Expect(170, "keyboard"),
      Data(240), Read, Data(1), Read, EnableIrq, Cmd(96), WriteConfig>>

Running == outcome = "running"
Now == Script[pc]

\* The next place, or the end: "KB: Keyboard initialized"
Advance ==
    /\ pc' = pc + 1
    /\ outcome' = IF pc = Len(Script) THEN "ok" ELSE outcome

\* ps2_wait_input, and a byte to one of the two ports
SendByte ==
    /\ Running /\ Now.op \in {"cmd", "data", "config"}
    /\ input = <<>>
    /\ input' = <<[port |-> IF Now.op = "cmd" THEN "cmd" ELSE "data",
                   val |-> IF Now.op = "config" THEN config ELSE Now.val]>>
    /\ Advance
    /\ UNCHANGED <<config, output, controller, keyboard, fixed, typed>>

\* Mutant of Drain: the flush is left out.
DrainNothing ==
    /\ Running /\ Now.op = "flush"
    /\ Advance /\ UNCHANGED output
    /\ UNCHANGED <<config, input, controller, keyboard, fixed, typed>>

\* while (inb(PS2_STATUS_PORT) & 0x01) inb(PS2_DATA_PORT)
Drain ==
    /\ Running /\ Now.op = "flush"
    /\ \/ output # <<>> /\ output' = <<>> /\ UNCHANGED <<pc, outcome>>
       \/ output = <<>> /\ Advance /\ UNCHANGED output
    /\ UNCHANGED <<config, input, controller, keyboard, fixed, typed>>

\* Mutant of ReadByte: the answers are read and not compared.
ReadUnchecked ==
    /\ Running /\ Now.op \in {"read", "readconfig", "expect"}
    /\ output # <<>> /\ output' = <<>>
    /\ config' = IF Now.op = "readconfig" THEN Masked(output[1]) ELSE config
    /\ Advance
    /\ UNCHANGED <<input, controller, keyboard, fixed, typed>>

\* ps2_wait_output, and the byte; a test that fails ends keyboard_init.
ReadByte ==
    /\ Running /\ Now.op \in {"read", "readconfig", "expect"}
    /\ output # <<>> /\ output' = <<>>
    /\ config' = IF Now.op = "readconfig" THEN Masked(output[1]) ELSE config
    /\ IF Now.op = "expect" /\ output[1] # Now.val
       THEN outcome' = Now.test /\ UNCHANGED pc
       ELSE Advance
    /\ UNCHANGED <<input, controller, keyboard, fixed, typed>>

\* config |= 0x01
SetIrq ==
    /\ Running /\ Now.op = "enableirq"
    /\ config' = With(config, Irq)
    /\ Advance
    /\ UNCHANGED <<input, output, controller, keyboard, fixed, typed>>

DriverStep == SendByte \/ Drain \/ ReadByte \/ SetIrq

-----------------------------------------------------------------------------
(* The controller.                                                         *)

Taken(port) == input # <<>> /\ answer = <<>> /\ input[1].port = port /\ input' = <<>>

TakeCommand ==
    /\ Taken("cmd")
    /\ LET c == input[1].val
       IN  /\ ctlConfig' = IF c = 173 THEN With(ctlConfig, ClockOff)
                           ELSE IF c = 174 THEN Without(ctlConfig, ClockOff)
                           ELSE ctlConfig
           /\ answer' = IF c = 32 THEN <<ctlConfig>>
                        ELSE IF c = 170 THEN <<IF health.controller THEN 85 ELSE 252>>
                        ELSE IF c = 171 THEN <<IF health.port THEN 0 ELSE 1>>
                        ELSE <<>>
           /\ awaits' = (c = 96)
    /\ UNCHANGED <<driver, output, keyboard, fixed, typed>>

TakeConfig ==
    /\ Taken("data") /\ awaits
    /\ ctlConfig' = input[1].val /\ awaits' = FALSE
    /\ UNCHANGED <<driver, output, answer, keyboard, fixed, typed>>

\* A byte for the keyboard, which drops what it had to send and acknowledges
\* it.  0xFF resets it, 0xF0 announces a scan code set; without a keyboard the
\* byte is lost.
ToKeyboard ==
    /\ Taken("data") /\ ~awaits
    /\ LET b == input[1].val
           present == health.keyboard # "absent"
       IN  \/ ~present /\ UNCHANGED keyboard
           \/ present /\ param /\ kbd' = <<250>> /\ param' = FALSE /\ set' = b
           \/ /\ present /\ ~param /\ b = 255
              /\ kbd' = <<250, IF health.keyboard = "good" THEN 170 ELSE 252>>
              /\ param' = FALSE /\ set' = 2
           \/ /\ present /\ ~param /\ b = 240
              /\ kbd' = <<250>> /\ param' = TRUE /\ set' = set
    /\ UNCHANGED <<driver, output, controller, fixed, typed>>

Say ==
    /\ answer # <<>> /\ output = <<>>
    /\ output' = answer /\ answer' = <<>>
    /\ UNCHANGED <<driver, input, ctlConfig, awaits, keyboard, fixed, typed>>

\* A byte of the keyboard passes while its clock is on.
Forward ==
    /\ kbd # <<>> /\ output = <<>> /\ ~Has(ctlConfig, ClockOff)
    /\ output' = <<Head(kbd)>> /\ kbd' = Tail(kbd)
    /\ UNCHANGED <<driver, input, controller, param, set, fixed, typed>>

DeviceStep == TakeCommand \/ TakeConfig \/ ToKeyboard \/ Say \/ Forward

Type ==
    /\ Running /\ typed < MaxTyped /\ health.keyboard # "absent" /\ ~param
    /\ \E c \in Codes : kbd' = Append(kbd, c)
    /\ typed' = typed + 1
    /\ UNCHANGED <<driver, input, output, controller, param, set, fixed>>

\* The firmware may have left a byte in the output buffer.
Init ==
    /\ pc = 1 /\ config = 0 /\ outcome = "running"
    /\ input = <<>>
    /\ output \in {<<>>} \union {<<c>> : c \in Codes}
    /\ ctlConfig \in Configs /\ firmware = ctlConfig
    /\ awaits = FALSE /\ answer = <<>>
    /\ kbd = <<>> /\ param = FALSE /\ set = 2
    /\ health \in [controller : BOOLEAN, port : BOOLEAN,
                   keyboard : {"good", "bad", "absent"}]
    /\ typed = 0

Next == DriverStep \/ DeviceStep \/ Type

\* The processor runs the driver, and the devices that are there answer.
Spec == Init /\ [][Next]_initVars
FairSpec == Spec /\ WF_initVars(DriverStep) /\ WF_initVars(DeviceStep)

-----------------------------------------------------------------------------
(* Properties                                                              *)

TypeOK ==
    /\ pc \in 1..(Len(Script) + 1) /\ config \in Byte
    /\ outcome \in {"running", "ok", "controller", "port", "keyboard"}
    /\ Len(input) <= 1 /\ Len(output) <= 1 /\ Len(answer) <= 1
    /\ \A i \in DOMAIN output : output[i] \in Byte
    /\ ctlConfig \in Byte /\ kbd \in Seq(Byte) /\ set \in Byte
    /\ awaits \in BOOLEAN /\ param \in BOOLEAN

\* The byte that the driver changes and writes back (lines 110-115 and 146-148)
\* is the controller's own, whatever was typed before and meanwhile: 0xAD has
\* stopped the keyboard when the buffer is flushed.
ConfigIsTheControllers ==
    pc > 5 => \A bit \in (0..7) \ {Irq, 4, 5} : Has(config, bit) = Has(firmware, bit)

\* Without a key typed during the dialogue, a test that the driver reports as
\* failed did fail.
FailuresAreReal ==
    typed = 0 =>
        /\ outcome = "controller" => ~health.controller
        /\ outcome = "port" => ~health.port
        /\ outcome = "keyboard" => health.keyboard = "bad"

\* Without a key typed during the dialogue, "initialized" says that every test
\* passed.  One scan code, even one that is the answer awaited, cannot hide that
\* the controller or its port failed: their own answer comes after it.
SuccessIsReal ==
    outcome = "ok" => /\ typed = 0 => health.keyboard = "good"
                      /\ typed <= 1 => health.controller /\ health.port

\* Once initialised with no key typed meanwhile, and with the last byte taken,
\* the interrupt is on, the keyboard may send, it uses the scan code set that
\* the tables are for, and no answer is left to be taken for a key.
ReadyForKeys ==
    (outcome = "ok" /\ typed = 0 /\ input = <<>>) =>
        /\ Has(ctlConfig, Irq) /\ ~Has(ctlConfig, ClockOff)
        /\ set = 1
        /\ output = <<>> /\ kbd = <<>> /\ answer = <<>>

\* With a keyboard that answers and at most one scan code sent meanwhile, the
\* initialisation ends: no wait for a status bit lasts for ever.
InitEnds ==
    health.keyboard # "absent" /\ [](typed <= 1) => <>(~Running)

=============================================================================
