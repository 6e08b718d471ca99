------------------------ MODULE InterruptController -------------------------
(***************************************************************************)
(* interrupt_controller_init and the devices it programs: two 8259A        *)
(* interrupt controllers, the second on line 2 of the first, and the 8253  *)
(* timer.  The devices are external; they are modelled as far as the code  *)
(* programs them.                                                          *)
(***************************************************************************)
EXTENDS Descriptors

CONSTANT Lines      \* on which devices request interrupts; 0 is the clock

ASSUME LinesAssumption == Lines \subseteq 0 .. 15 /\ 0 \in Lines

VARIABLES
  allow_clock_interrupt,
  writes,       \* the outb()s still to be made
  pics,         \* the two interrupt controllers
  timer,        \* the bytes the timer has been given
  requests      \* lines on which an interrupt is requested

deviceVars == <<allow_clock_interrupt, writes, pics, timer, requests>>

IO_PIC1 == 32
IO_PIC2 == 160
IRQ_SLAVE == 2
IO_TIMER1 == 64
TIMER_MODE == IO_TIMER1 + 3
TIMER_SEL0 == 0
TIMER_RATEGEN == 4
TIMER_16BIT == 48
HZ == 3000
TIMER_FREQ == 1193182
TIMER_DIV(x) == (TIMER_FREQ + x \div 2) \div x

(* Mutant of AutoEOI: interrupts would have to be acknowledged.            *)
NoAutoEOI == 1

(* The master's ICW4.                                                      *)
AutoEOI == 3

(* Mutant of ClockMask: whether the clock is allowed is turned round.      *)
ClockMaskInverted(allow) == IF allow THEN 255 ELSE 254

ClockMask(allow) == IF allow THEN 254 ELSE 255

(* interrupt_controller_init(allow): its outb(port, byte)s in order.       *)
Writes(allow) ==
  << <<IO_PIC1 + 1, 255>>, <<IO_PIC2 + 1, 255>>,
     <<IO_PIC1, 17>>, <<IO_PIC1 + 1, INT_HARDWARE>>,
     <<IO_PIC1 + 1, 2 ^ IRQ_SLAVE>>, <<IO_PIC1 + 1, AutoEOI>>,
     <<IO_PIC2, 17>>, <<IO_PIC2 + 1, INT_HARDWARE + 8>>,
     <<IO_PIC2 + 1, IRQ_SLAVE>>, <<IO_PIC2 + 1, 1>>,
     <<IO_PIC1, 104>>, <<IO_PIC1, 10>>, <<IO_PIC2, 104>>, <<IO_PIC2, 10>>,
     <<IO_PIC1 + 1, ClockMask(allow)>>, <<IO_PIC2 + 1, 255>> >>
  \o IF allow
     THEN << <<TIMER_MODE, TIMER_SEL0 + TIMER_RATEGEN + TIMER_16BIT>>,
             <<IO_TIMER1, TIMER_DIV(HZ) % 256>>,
             <<IO_TIMER1, TIMER_DIV(HZ) \div 256>> >>
     ELSE <<>>

-----------------------------------------------------------------------------

Bit(byte, n) == (byte \div 2 ^ n) % 2 = 1

(* An 8259A expects the initialisation word `icw', or none (0).            *)
Pic(offset, mask) ==
  [icw |-> 0, offset |-> offset, mask |-> mask, aeoi |-> FALSE, serving |-> {}]

(* A byte to the even port begins the initialisation (ICW1), which clears  *)
(* mask and requests, or is an OCW3, which changes nothing modelled here.  *)
Command(pic, byte) ==
  IF Bit(byte, 4) THEN [Pic(pic.offset, 0) EXCEPT !.icw = 2] ELSE pic

(* A byte to the odd port is the next initialisation word or the mask.     *)
Data(pic, byte) ==
  CASE pic.icw = 0 -> [pic EXCEPT !.mask = byte]
    [] pic.icw = 2 -> [pic EXCEPT !.icw = 3, !.offset = byte - (byte % 8)]
    [] pic.icw = 3 -> [pic EXCEPT !.icw = 4]
    [] pic.icw = 4 -> [pic EXCEPT !.icw = 0, !.aeoi = Bit(byte, 1)]

(* The lines of the first controller and of the second.                    *)
LinesOf(n) == IF n = 1 THEN 0 .. 7 ELSE 8 .. 15

(* outb(port, byte)                                                        *)
OutB ==
  /\ writes # <<>>
  /\ LET port == Head(writes)[1]
         byte == Head(writes)[2]
         n    == IF port < IO_PIC2 THEN 1 ELSE 2
     IN  IF port \in {IO_TIMER1, TIMER_MODE}
         THEN /\ timer' = Append(timer, byte)
              /\ UNCHANGED <<pics, requests>>
         ELSE /\ pics' = [pics EXCEPT ![n] =
                   IF port \in {IO_PIC1, IO_PIC2} THEN Command(@, byte)
                   ELSE Data(@, byte)]
              /\ requests' = IF pics[n].icw = 0 /\ pics'[n].icw = 2
                             THEN requests \ LinesOf(n) ELSE requests
              /\ UNCHANGED timer
  /\ writes' = Tail(writes)
  /\ UNCHANGED allow_clock_interrupt

(* As the machine's firmware leaves it: interrupts may be let through, to  *)
(* the vectors of the exceptions.                                          *)
ControllerInit ==
  /\ allow_clock_interrupt \in BOOLEAN
  /\ writes = Writes(allow_clock_interrupt)
  /\ pics = <<Pic(8, 0), Pic(112, 0)>>
  /\ timer = <<>>
  /\ requests \in SUBSET Lines

(* A device requests an interrupt.                                         *)
Request(line) ==
  /\ line \notin requests
  /\ requests' = requests \cup {line}
  /\ UNCHANGED <<allow_clock_interrupt, writes, pics, timer>>

(* A line that the masks let through to the processor; and one on which no *)
(* interrupt of the same or a more urgent line waits for its end.          *)
Unmasked(line) ==
  IF line < 8 THEN ~ Bit(pics[1].mask, line)
  ELSE ~ Bit(pics[2].mask, line - 8) /\ ~ Bit(pics[1].mask, IRQ_SLAVE)

Pending(line) ==
  /\ line \in requests
  /\ Unmasked(line)
  /\ \A other \in UNION {pics[n].serving : n \in {1, 2}} : other > line

VectorOf(line) == LET n == line \div 8 + 1 IN pics[n].offset + (line % 8)

(* The processor takes the interrupt.                                      *)
Acknowledge(line) ==
  /\ Pending(line)
  /\ requests' = requests \ {line}
  /\ pics' = [pics EXCEPT ![line \div 8 + 1].serving =
                IF pics[line \div 8 + 1].aeoi THEN @ ELSE @ \cup {line}]
  /\ UNCHANGED <<allow_clock_interrupt, writes, timer>>

=============================================================================
