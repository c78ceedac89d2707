------------------------------- MODULE Serial -------------------------------
(***************************************************************************)
(* The serial console, kernel/src/devices/serial.c, as kmain and the       *)
(* exception handler use it, against the 16550 it drives.                  *)
(*                                                                         *)
(* Each outb and inb is a step: the device works on between them, and an   *)
(* exception may take the processor away between any two.  A message is a  *)
(* sequence of bytes; which bytes srprintf makes of its arguments is left  *)
(* out.                                                                    *)
(***************************************************************************)
EXTENDS Integers, Sequences, SequencesExt

CONSTANTS
  Devices,        \* subset of {"good", "slow", "broken", "dead", "absent"}
  Greeting,       \* "[Serial Initialized]"
  Progress,       \* what kmain prints after init_serial
  Report,         \* what isr_exception_handler prints
  Typed           \* bytes that may come in on the line

ASSUME SerialConstants ==
  /\ Greeting \in Seq(0 .. 255) /\ Progress \in Seq(0 .. 255) /\ Report \in Seq(0 .. 255)
  /\ Typed \subseteq 0 .. 255

VARIABLES
  \* the device (external)
  device,         \* what is at COM1
  dlab,           \* ports 0 and 1 are the baud rate divisor
  divisor,        \* <<low byte, high byte>>
  loop,           \* loopback mode
  tx,             \* bytes written and not yet shifted out
  rx,             \* bytes received and not yet read
  wire,           \* bytes that have left on the line
  \* the program
  pc,             \* "init", "test", "enable", then "poll" and "send" of srput
  step,           \* init_serial: the outb it is at
  result,         \* init_serial's return value, -1 before it
  text,           \* bytes still to be put
  handler,        \* the exception handler is running
  sent            \* history: bytes srput wrote with the device on the line

device_vars == <<device, dlab, divisor, loop, tx, rx, wire>>
vars == <<device_vars, pc, step, result, text, handler, sent>>

-----------------------------------------------------------------------------
(* The device.  Writes go nowhere when nothing is there.                   *)
Working    == device \in {"good", "slow"}
Data(port) == port = 0 /\ ~ dlab

Outb(port, val) ==
  /\ dlab'    = IF port = 3 THEN val >= 128 ELSE dlab
  /\ divisor' = [k \in 1 .. 2 |-> IF dlab /\ port = k - 1 THEN val ELSE divisor[k]]
  /\ loop'    = IF port = 4 THEN (val \div 16) % 2 = 1 ELSE loop
  /\ tx'      = IF port = 2 /\ (val \div 4) % 2 = 1 THEN << >>
                ELSE IF Data(port) /\ Working /\ ~ (loop /\ device = "good") THEN Append(tx, val) ELSE tx
  /\ rx'      = IF port = 2 /\ (val \div 2) % 2 = 1 THEN << >>
                ELSE IF Data(port) /\ loop /\ device = "good" THEN Append(rx, val) ELSE rx
  /\ UNCHANGED <<device, wire>>

(* Reading port 0: the oldest byte received; other bytes if none is there, *)
(* if the chip garbles them, or if there is no chip.                       *)
Received ==
  IF Working /\ rx # << >> THEN Head(rx) ELSE IF device = "absent" THEN 255 ELSE 0

(* Bit 5 of port 5, transmitter holding register empty.                    *)
TransmitEmpty == device # "dead" /\ (Working => tx = << >>)

(* A byte is shifted out, to the line or in loopback to the receiver.      *)
Shift ==
  /\ tx # << >>
  /\ tx' = Tail(tx)
  /\ IF loop THEN rx' = Append(rx, Head(tx)) /\ wire' = wire
             ELSE wire' = Append(wire, Head(tx)) /\ rx' = rx
  /\ UNCHANGED <<device, dlab, divisor, loop, pc, step, result, text, handler, sent>>

(* Somebody types; the line is cut off in loopback.  One byte at a time is *)
(* enough: nothing reads input but the test in init_serial.                *)
Type ==
  /\ Working /\ ~ loop /\ rx = << >>
  /\ \E byte \in Typed : rx' = << byte >>
  /\ UNCHANGED <<device, dlab, divisor, loop, tx, wire,
                 pc, step, result, text, handler, sent>>

-----------------------------------------------------------------------------
Init ==
  /\ device \in Devices
  /\ dlab = FALSE
  /\ divisor = <<1, 0>>
  /\ loop = FALSE
  /\ tx = << >> /\ rx = << >> /\ wire = << >>
  /\ pc = "init"
  /\ step = 1
  /\ result = -1
  /\ text = << >>
  /\ handler = FALSE
  /\ sent = << >>

(* init_serial up to the test byte: <<port, value>>.                       *)
InitWrites ==
  << <<1, 0>>, <<3, 128>>, <<0, 3>>, <<1, 0>>, <<3, 3>>,
     <<2, 199>>, <<4, 11>>, <<4, 30>>, <<0, 174>> >>

init_write ==
  /\ pc = "init"
  /\ Outb(InitWrites[step][1], InitWrites[step][2])
  /\ step' = step + 1
  /\ pc' = IF step < Len(InitWrites) THEN "init" ELSE "test"
  /\ UNCHANGED <<result, text, handler, sent>>

(* Mutants: loopback not left; a poll that waits for the wrong thing.      *)
NormalMode_looped          == 31
is_transmit_empty_inverted == ~ TransmitEmpty

(* The modem control value a chip that works is left with; srput's test.   *)
NormalMode        == 15
is_transmit_empty == TransmitEmpty

(* The byte is read back at once, whether or not one has arrived.  If it   *)
(* is not the byte sent init_serial gives up, which kmain does not notice. *)
init_test ==
  /\ pc = "test"
  /\ rx' = IF Working /\ rx # << >> THEN Tail(rx) ELSE rx
  /\ IF Received # 174
     THEN result' = 1 /\ pc' = "poll" /\ text' = Progress
     ELSE result' = result /\ pc' = "enable" /\ text' = text
  /\ UNCHANGED <<device, dlab, divisor, loop, tx, wire, step, handler, sent>>

init_enable ==
  /\ pc = "enable"
  /\ Outb(4, NormalMode)
  /\ result' = 0
  /\ text' = Greeting \o Progress
  /\ pc' = "poll"
  /\ UNCHANGED <<step, handler, sent>>

(* srput: poll until the transmitter is empty, then write the byte.        *)
srput_poll ==
  /\ pc = "poll"
  /\ text # << >>
  /\ is_transmit_empty
  /\ pc' = "send"
  /\ UNCHANGED <<device_vars, step, result, text, handler, sent>>

srput_send ==
  /\ pc = "send"
  /\ Outb(0, Head(text))
  /\ text' = Tail(text)
  /\ sent' = IF loop \/ ~ Working THEN sent ELSE Append(sent, Head(text))
  /\ pc' = "poll"
  /\ UNCHANGED <<step, result, handler>>

(* An exception, once kmain has loaded the IDT: what kmain was printing is *)
(* never taken up again, the handler prints its report and spins.          *)
isr_exception_handler ==
  /\ pc \in {"poll", "send"}
  /\ ~ handler
  /\ Len(text) < Len(Progress)
  /\ handler' = TRUE
  /\ text' = Report
  /\ pc' = "poll"
  /\ UNCHANGED <<device_vars, step, result, sent>>

Program == init_write \/ init_test \/ init_enable \/ srput_poll \/ srput_send

Next == Program \/ Shift \/ Type \/ isr_exception_handler

(* The processor executes and a working chip shifts; nobody need type and  *)
(* no exception need come.                                                 *)
Spec == Init /\ [][Next]_vars /\ WF_vars(Program) /\ WF_vars(Shift)

-----------------------------------------------------------------------------
Up == result = 0

(* The test byte stays in loopback, except when somebody types the same    *)
(* byte before it has come back: the test then passes while it is still on *)
(* its way, and it goes out first.                                         *)
Strays == IF 174 \in Typed THEN {<< >>, << 174 >>} ELSE {<< >>}

(* The line carries what was put, in order, nothing lost or twice: kmain's *)
(* text up to where an exception cut it off, then the report.  Polling and *)
(* writing are two steps, and an exception between them lets the handler   *)
(* use the chip the poll was about: even so no byte is written while one   *)
(* is waiting.  Whatever is printed to a chip that failed the test stays   *)
(* in loopback.                                                            *)
LineCarriesText ==
  /\ Len(tx) <= 1
  /\ ~ Up => wire = << >>
  /\ Up =>
       /\ \E stray \in Strays : wire \o tx = stray \o sent
       /\ IF handler
          THEN \E k \in 0 .. Len(Greeting \o Progress) :
                 sent \o text = SubSeq(Greeting \o Progress, 1, k) \o Report
          ELSE sent \o text = Greeting \o Progress

(* Everything printed arrives, once the chip has passed its test, and a    *)
(* chip that failed it or is not there costs the text and nothing more.    *)
(* Only one that never reports an empty transmitter holds the kernel up    *)
(* for good: srput has no timeout.                                         *)
AllDelivered ==
  device # "dead" => <>[](text = << >> /\ pc = "poll" /\ (Up => \E stray \in Strays : wire = stray \o sent))

(* "If serial is not faulty set it in normal operation mode"               *)
(* (serial.c:21): a chip that works passes the test.                       *)
HealthyChipAccepted == result = 1 => device # "good"
=============================================================================
