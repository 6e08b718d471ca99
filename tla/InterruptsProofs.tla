-------------------------- MODULE InterruptsProofs --------------------------
(***************************************************************************)
(* What TLAPS proves of Interrupts: for every number of processes, every   *)
(* set of devices, system calls and exceptions.                            *)
(***************************************************************************)
EXTENDS Interrupts, TLAPS

-----------------------------------------------------------------------------
(* The layouts.                                                            *)

(* How many words the pushed registers have, and how many of them the      *)
(* processor and the common entry code push.                               *)
LEMMA Words ==
  /\ DOMAIN registers_t = 1 .. 17
  /\ DOMAIN GeneralRegisters = 1 .. 8
  /\ Len(registers_t) = 17
  /\ Len(GeneralRegisters) = 8
  /\ Len(TaskStatus) = 5
BY DEF registers_t, GeneralRegisters, TaskStatus

(* The words pushal pushes: the place of each in registers_t.              *)
LEMMA GeneralWords ==
  /\ registers_t[1] = "edi" /\ registers_t[2] = "esi"
  /\ registers_t[3] = "ebp" /\ registers_t[4] = "original_esp"
  /\ registers_t[5] = "ebx" /\ registers_t[6] = "edx"
  /\ registers_t[7] = "ecx" /\ registers_t[8] = "eax"
BY DEF registers_t, GeneralRegisters, TaskStatus

(* The words the entry code and the processor push.                        *)
LEMMA OtherWords ==
  /\ registers_t[9] = "es" /\ registers_t[10] = "ds"
  /\ registers_t[11] = "intno" /\ registers_t[12] = "err"
  /\ registers_t[13] = "eip" /\ registers_t[14] = "cs"
  /\ registers_t[15] = "eflags" /\ registers_t[16] = "esp"
  /\ registers_t[17] = "ss"
BY DEF registers_t, GeneralRegisters, TaskStatus

(* A word has one place in registers_t, and run() takes it from there.     *)
LEMMA Places ==
  \A n \in 1 .. 17 :
    /\ Place(registers_t, registers_t[n]) = n
    /\ n \notin {11, 12} => Place(Popped, registers_t[n]) = n
    /\ n > 12 => Place(TaskStatus, registers_t[n]) = n - 12
    /\ n <= 8 => /\ GeneralRegisters[n] = registers_t[n]
                 /\ Place(GeneralRegisters, registers_t[n]) = n
<1>1. \A n \in 1 .. 17 : Place(registers_t, registers_t[n]) = n
  BY DEF registers_t, Place, GeneralRegisters, TaskStatus
<1>2. \A n \in 1 .. 17 : n \notin {11, 12} => Place(Popped, registers_t[n]) = n
  BY DEF registers_t, Popped, Place, GeneralRegisters, TaskStatus
<1>3. \A n \in 1 .. 17 :
        n > 12 => Place(TaskStatus, registers_t[n]) = n - 12
  BY DEF registers_t, Place, GeneralRegisters, TaskStatus
<1>4. \A n \in 1 .. 17 : n <= 8 => /\ GeneralRegisters[n] = registers_t[n]
                                   /\ Place(GeneralRegisters, registers_t[n]) = n
  BY DEF registers_t, Place, GeneralRegisters, TaskStatus
<1> QED
  BY <1>1, <1>2, <1>3, <1>4

(* The registers of the processor are the words run() restores.            *)
LEMMA Names ==
  /\ RegisterNames = {registers_t[n] : n \in (1 .. 17) \ {4, 11, 12}}
  /\ Range(TaskStatus) = {registers_t[n] : n \in 13 .. 17}
  /\ Range(GeneralRegisters) = {registers_t[n] : n \in 1 .. 8}
<1>1. RegisterNames = {registers_t[n] : n \in (1 .. 17) \ {4, 11, 12}}
  BY Words, GeneralWords, OtherWords DEF RegisterNames, Range
<1>2. Range(TaskStatus) = {registers_t[n] : n \in 13 .. 17}
  BY OtherWords DEF TaskStatus, Range
<1>3. Range(GeneralRegisters) = {registers_t[n] : n \in 1 .. 8}
  BY GeneralWords DEF GeneralRegisters, Range
<1> QED
  BY <1>1, <1>2, <1>3

-----------------------------------------------------------------------------
(* The controllers and the timer.                                          *)

(* The number of bytes the devices have been sent.                         *)
Made == Len(Writes(allow_clock_interrupt)) - Len(writes)

(* A controller is between two initialisation bytes or done (icw = 0).     *)
PicTypes ==
  [icw : {0, 2, 3, 4}, offset : Int, mask : Int, aeoi : BOOLEAN,
   serving : SUBSET Int]

(* The bytes still to be sent are the last of all to be sent.              *)
BytesLeft ==
  /\ allow_clock_interrupt \in BOOLEAN
  /\ writes \in Seq(Int \X Int)
  /\ Made \in Nat
  /\ \A i \in 1 .. Len(writes) :
       writes[i] = Writes(allow_clock_interrupt)[i + Made]

(* What the bytes have done so far.                                        *)
DevicesInv ==
  /\ BytesLeft
  /\ DOMAIN pics = {1, 2} /\ pics[1] \in PicTypes /\ pics[2] \in PicTypes
  /\ timer \in Seq(Int)
  /\ pics[1].icw = IF Made \in 3 .. 5 THEN Made - 1 ELSE 0
  /\ pics[2].icw = IF Made \in 7 .. 9 THEN Made - 5 ELSE 0
  /\ Made >= 4 => pics[1].offset = INT_HARDWARE
  /\ Made >= 15 => pics[1].mask = ClockMask(allow_clock_interrupt)
  /\ Made >= 16 => pics[2].mask = 255
  /\ Len(timer) = IF Made > 16 THEN Made - 16 ELSE 0
  /\ Made > 16 => timer[1] = 52
  /\ Made > 17 => timer[2] = 142
  /\ Made > 18 => timer[3] = 1

(* What interrupt_controller_init() sends, byte by byte.                   *)
LEMMA Bytes ==
  ASSUME NEW allow \in BOOLEAN
  PROVE  /\ Len(Writes(allow)) = IF allow THEN 19 ELSE 16
         /\ Writes(allow)[1] = <<33, 255>> /\ Writes(allow)[2] = <<161, 255>>
         /\ Writes(allow)[3] = <<32, 17>> /\ Writes(allow)[4] = <<33, 32>>
         /\ Writes(allow)[5] = <<33, 4>> /\ Writes(allow)[6] = <<33, 3>>
         /\ Writes(allow)[7] = <<160, 17>> /\ Writes(allow)[8] = <<161, 40>>
         /\ Writes(allow)[9] = <<161, 2>> /\ Writes(allow)[10] = <<161, 1>>
         /\ Writes(allow)[11] = <<32, 104>> /\ Writes(allow)[12] = <<32, 10>>
         /\ Writes(allow)[13] = <<160, 104>> /\ Writes(allow)[14] = <<160, 10>>
         /\ Writes(allow)[15] = <<33, ClockMask(allow)>>
         /\ Writes(allow)[16] = <<161, 255>>
         /\ allow => /\ Writes(allow)[17] = <<67, 52>>
                     /\ Writes(allow)[18] = <<64, 142>>
                     /\ Writes(allow)[19] = <<64, 1>>
<1>1. /\ TIMER_DIV(HZ) % 256 = 142
      /\ TIMER_DIV(HZ) \div 256 = 1
  BY SMT DEF TIMER_DIV, HZ, TIMER_FREQ
<1> USE DEF Writes, IO_PIC1, IO_PIC2, INT_HARDWARE, IRQ_SLAVE, AutoEOI,
     ClockMask, IO_TIMER1, TIMER_MODE, TIMER_SEL0, TIMER_RATEGEN, TIMER_16BIT
<1>2. CASE allow
  BY <1>1, <1>2, SMT
<1>3. CASE ~ allow
  BY <1>1, <1>3, SMT
<1> QED
  BY <1>2, <1>3

(* They are pairs of a port and a byte.                                    *)
LEMMA BytesAreBytes ==
  ASSUME NEW allow \in BOOLEAN
  PROVE  Writes(allow) \in Seq(Int \X Int)
<1>1. /\ TIMER_DIV(HZ) % 256 = 142
      /\ TIMER_DIV(HZ) \div 256 = 1
  BY SMT DEF TIMER_DIV, HZ, TIMER_FREQ
<1> USE DEF Writes, IO_PIC1, IO_PIC2, INT_HARDWARE, IRQ_SLAVE, AutoEOI,
     ClockMask, IO_TIMER1, TIMER_MODE, TIMER_SEL0, TIMER_RATEGEN, TIMER_16BIT
<1>2. CASE allow
  BY <1>1, <1>2, SMT
<1>3. CASE ~ allow
  BY <1>1, <1>3, SMT
<1> QED
  BY <1>2, <1>3

(* Before the first byte.                                                  *)
LEMMA DevicesInit == ControllerInit => DevicesInv
<1> SUFFICES ASSUME ControllerInit PROVE DevicesInv
  OBVIOUS
<1>1. /\ allow_clock_interrupt \in BOOLEAN
      /\ writes = Writes(allow_clock_interrupt)
      /\ timer = <<>>
      /\ pics = <<Pic(8, 0), Pic(112, 0)>>
  BY DEF ControllerInit
<1>2. writes \in Seq(Int \X Int) /\ Made = 0
  BY <1>1, BytesAreBytes DEF Made
<1>3. /\ DOMAIN pics = {1, 2} /\ pics[1] \in PicTypes /\ pics[2] \in PicTypes
      /\ pics[1].icw = 0 /\ pics[2].icw = 0
  BY <1>1 DEF Pic, PicTypes
<1> QED
  BY <1>1, <1>2, <1>3 DEF DevicesInv, BytesLeft

(* The next byte, and what outb() makes of it.                             *)
LEMMA NextByte ==
  ASSUME BytesLeft, OutB,
         NEW port, NEW byte,
         Writes(allow_clock_interrupt)[Made + 1] = <<port, byte>>
  PROVE  /\ Made' = Made + 1 /\ BytesLeft'
         /\ allow_clock_interrupt' = allow_clock_interrupt
         /\ port \in {64, 67} => timer' = Append(timer, byte) /\ pics' = pics
         /\ port \notin {64, 67} => timer' = timer
         /\ port = 32 => pics' = [pics EXCEPT ![1] = Command(@, byte)]
         /\ port = 33 => pics' = [pics EXCEPT ![1] = Data(@, byte)]
         /\ port = 160 => pics' = [pics EXCEPT ![2] = Command(@, byte)]
         /\ port = 161 => pics' = [pics EXCEPT ![2] = Data(@, byte)]
<1>1. /\ writes \in Seq(Int \X Int) /\ writes # <<>> /\ writes' = Tail(writes)
      /\ allow_clock_interrupt' = allow_clock_interrupt
      /\ allow_clock_interrupt \in BOOLEAN
  BY DEF OutB, BytesLeft
<1>2. Len(writes) > 0
  BY <1>1
<1> DEFINE All == Writes(allow_clock_interrupt)
<1>m. Made \in Nat /\ \A i \in 1 .. Len(writes) : writes[i] = All[i + Made]
  BY DEF BytesLeft
<1>3. writes[1] = <<port, byte>>
  <2>1. 1 \in 1 .. Len(writes) /\ 1 + Made = Made + 1
    BY <1>1, <1>2, <1>m
  <2> QED
    BY <2>1, <1>m
<1>4. Head(writes)[1] = port /\ Head(writes)[2] = byte
  BY <1>1, <1>2, <1>3
<1>5. /\ writes' \in Seq(Int \X Int) /\ Len(writes') = Len(writes) - 1
      /\ \A i \in 1 .. Len(writes') : writes'[i] = writes[i + 1]
  BY <1>1, <1>2
<1>6. Len(Writes(allow_clock_interrupt)) \in Nat
  BY <1>1, BytesAreBytes
<1>7. Made' = Made + 1 /\ Made + 1 <= Len(Writes(allow_clock_interrupt))
  BY <1>1, <1>2, <1>5, <1>6 DEF Made
<1>8. \A i \in 1 .. Len(writes') :
        writes'[i] = All[i + Made']
  <2> TAKE i \in 1 .. Len(writes')
  <2>1. Len(writes) \in Nat
    BY <1>1
  <2>2. i + 1 \in 1 .. Len(writes) /\ i + 1 + Made = i + Made'
    BY <1>5, <1>7, <1>m, <2>1
  <2> QED
    BY <1>5, <1>m, <2>2
<1>9. /\ port \in {64, 67} => timer' = Append(timer, byte) /\ pics' = pics
      /\ port \notin {64, 67} => timer' = timer
      /\ port = 32 => pics' = [pics EXCEPT ![1] = Command(@, byte)]
      /\ port = 33 => pics' = [pics EXCEPT ![1] = Data(@, byte)]
      /\ port = 160 => pics' = [pics EXCEPT ![2] = Command(@, byte)]
      /\ port = 161 => pics' = [pics EXCEPT ![2] = Data(@, byte)]
  BY <1>4 DEF OutB, IO_PIC1, IO_PIC2, IO_TIMER1, TIMER_MODE
<1>10. BytesLeft'
  BY <1>1, <1>5, <1>7, <1>8, <1>m DEF BytesLeft
<1> QED
  BY <1>1, <1>7, <1>9, <1>10

(* What a controller does with the bytes it is sent.                       *)
LEMMA CommandByte ==
  ASSUME NEW pic \in PicTypes
  PROVE  /\ Command(pic, 17) \in PicTypes
         /\ Command(pic, 17).icw = 2
         /\ Command(pic, 17).offset = pic.offset
         /\ Command(pic, 104) = pic
         /\ Command(pic, 10) = pic
<1>1. /\ Bit(17, 4) /\ ~ Bit(104, 4) /\ ~ Bit(10, 4)
  BY DEF Bit
<1>2. Command(pic, 17) =
              [icw |-> 2, offset |-> pic.offset, mask |-> 0, aeoi |-> FALSE,
               serving |-> {}]
  BY <1>1 DEF Command, Pic, PicTypes
<1>3. Command(pic, 104) = pic /\ Command(pic, 10) = pic
  BY <1>1 DEF Command
<1>4. pic.offset \in Int
  BY DEF PicTypes
<1>5. Command(pic, 17) \in PicTypes
  <2>1. {} \in SUBSET Int /\ FALSE \in BOOLEAN /\ 0 \in Int /\ 2 \in {0, 2, 3, 4}
    OBVIOUS
  <2>2. [icw |-> 2, offset |-> pic.offset, mask |-> 0, aeoi |-> FALSE,
         serving |-> {}] \in PicTypes
    BY <1>4, <2>1, Zenon DEF PicTypes
  <2> QED
    BY <1>2, <2>2
<1>6. Command(pic, 17).icw = 2 /\ Command(pic, 17).offset = pic.offset
  BY <1>2
<1> QED
  BY <1>3, <1>5, <1>6

(* What a data byte does: a mask, or the next initialisation word.         *)
LEMMA DataByte ==
  ASSUME NEW pic \in PicTypes, NEW byte
  PROVE  byte \in Int =>
           /\ Data(pic, byte) \in PicTypes
           /\ pic.icw = 0 => /\ Data(pic, byte).icw = 0
                             /\ Data(pic, byte).mask = byte
                             /\ Data(pic, byte).offset = pic.offset
           /\ pic.icw = 2 => /\ Data(pic, byte).icw = 3
                             /\ Data(pic, byte).offset = byte - (byte % 8)
           /\ pic.icw = 3 => /\ Data(pic, byte).icw = 4
                             /\ Data(pic, byte).offset = pic.offset
           /\ pic.icw = 4 => /\ Data(pic, byte).icw = 0
                             /\ Data(pic, byte).offset = pic.offset
<1> HAVE byte \in Int
<1>4. pic.icw \in {0, 2, 3, 4}
  BY DEF PicTypes
<1>5. /\ pic.icw = 0 => Data(pic, byte) = [pic EXCEPT !.mask = byte]
      /\ pic.icw = 2 => Data(pic, byte) =
              [pic EXCEPT !.icw = 3, !.offset = byte - (byte % 8)]
      /\ pic.icw = 3 => Data(pic, byte) = [pic EXCEPT !.icw = 4]
      /\ pic.icw = 4 => Data(pic, byte) =
              [pic EXCEPT !.icw = 0, !.aeoi = Bit(byte, 1)]
  BY DEF Data
<1>6. Bit(byte, 1) \in BOOLEAN /\ byte - (byte % 8) \in Int
  BY DEF Bit
<1> HIDE DEF Bit
<1>7. Data(pic, byte) \in PicTypes
  BY <1>4, <1>5, <1>6 DEF PicTypes
<1>8. pic.icw = 0 => /\ Data(pic, byte).icw = 0
                     /\ Data(pic, byte).mask = byte
                     /\ Data(pic, byte).offset = pic.offset
  BY <1>5 DEF PicTypes
<1>9. pic.icw = 2 => /\ Data(pic, byte).icw = 3
                     /\ Data(pic, byte).offset = byte - (byte % 8)
  <2> DEFINE offset == byte - (byte % 8)
  <2>1. pic.icw = 2 => Data(pic, byte) = [pic EXCEPT !.icw = 3, !.offset = offset]
    BY <1>5
  <2> HIDE DEF offset
  <2>2. pic.icw = 2 => Data(pic, byte).icw = 3 /\ Data(pic, byte).offset = offset
    BY <2>1 DEF PicTypes
  <2> QED
    BY <2>2 DEF offset
<1>10. pic.icw = 3 => /\ Data(pic, byte).icw = 4
                      /\ Data(pic, byte).offset = pic.offset
  BY <1>5 DEF PicTypes
<1>11. pic.icw = 4 => /\ Data(pic, byte).icw = 0
                      /\ Data(pic, byte).offset = pic.offset
  BY <1>5 DEF PicTypes
<1> QED
  BY <1>7, <1>8, <1>9, <1>10, <1>11

(* The timer keeps the bytes it is sent in order.                          *)
LEMMA Appended ==
  ASSUME NEW s \in Seq(Int), NEW e
  PROVE  e \in Int => /\ Append(s, e) \in Seq(Int)
                      /\ Len(Append(s, e)) = Len(s) + 1
                      /\ Append(s, e)[Len(s) + 1] = e
                      /\ \A i \in 1 .. Len(s) : Append(s, e)[i] = s[i]
OBVIOUS

(* Each of the bytes does what it should.                                  *)
LEMMA OutBKeepsDevices ==
  ASSUME DevicesInv, OutB
  PROVE  DevicesInv'
<1> DEFINE allow == allow_clock_interrupt
<1>1. /\ allow \in BOOLEAN /\ ClockMask(allow) \in Int /\ BytesLeft
      /\ Made \in Nat /\ Len(Writes(allow)) = IF allow THEN 19 ELSE 16
  BY Bytes DEF DevicesInv, BytesLeft, ClockMask
<1>2. Made < Len(Writes(allow))
  <2>1. writes # <<>> /\ writes \in Seq(Int \X Int)
    BY DEF OutB, DevicesInv, BytesLeft
  <2>2. Len(writes) > 0
    BY <2>1
  <2> QED
    BY <1>1, <2>1, <2>2 DEF Made
<1> HIDE DEF allow
<1>b0. CASE Made = 0
  <2>1. Writes(allow)[Made + 1] = <<33, 255>>
    BY <1>b0, <1>1, <1>2, Bytes
  <2>2. /\ Made' = 1 /\ BytesLeft' /\ timer' = timer
        /\ pics' = [pics EXCEPT ![1] = Data(@, 255)] /\ allow' = allow
    BY <1>b0, <1>1, <2>1, NextByte DEF allow
  <2>3. /\ DOMAIN pics' = {1, 2} /\ pics'[2] = pics[2]
        /\ pics'[1] = Data(pics[1], 255)
    BY <2>2 DEF DevicesInv
  <2>4. /\ pics[1] \in PicTypes /\ pics[1].icw = 0
    BY <1>b0 DEF DevicesInv
  <2>5. /\ pics'[1] \in PicTypes /\ pics'[1].icw = 0
        /\ pics'[1].mask = 255 /\ pics'[1].offset = pics[1].offset
    BY <2>3, <2>4, <1>1, DataByte
  <2> QED
    BY <1>b0, <2>2, <2>3, <2>5 DEF DevicesInv, INT_HARDWARE, allow
<1>b1. CASE Made = 1
  <2>1. Writes(allow)[Made + 1] = <<161, 255>>
    BY <1>b1, <1>1, <1>2, Bytes
  <2>2. /\ Made' = 2 /\ BytesLeft' /\ timer' = timer
        /\ pics' = [pics EXCEPT ![2] = Data(@, 255)] /\ allow' = allow
    BY <1>b1, <1>1, <2>1, NextByte DEF allow
  <2>3. /\ DOMAIN pics' = {1, 2} /\ pics'[1] = pics[1]
        /\ pics'[2] = Data(pics[2], 255)
    BY <2>2 DEF DevicesInv
  <2>4. /\ pics[2] \in PicTypes /\ pics[2].icw = 0
    BY <1>b1 DEF DevicesInv
  <2>5. /\ pics'[2] \in PicTypes /\ pics'[2].icw = 0
        /\ pics'[2].mask = 255 /\ pics'[2].offset = pics[2].offset
    BY <2>3, <2>4, <1>1, DataByte
  <2> QED
    BY <1>b1, <2>2, <2>3, <2>5 DEF DevicesInv, INT_HARDWARE, allow
<1>b2. CASE Made = 2
  <2>1. Writes(allow)[Made + 1] = <<32, 17>>
    BY <1>b2, <1>1, <1>2, Bytes
  <2>2. /\ Made' = 3 /\ BytesLeft' /\ timer' = timer
        /\ pics' = [pics EXCEPT ![1] = Command(@, 17)] /\ allow' = allow
    BY <1>b2, <1>1, <2>1, NextByte DEF allow
  <2>3. /\ DOMAIN pics' = {1, 2} /\ pics'[2] = pics[2]
        /\ pics'[1] = Command(pics[1], 17)
    BY <2>2 DEF DevicesInv
  <2>4. /\ pics[1] \in PicTypes /\ pics[1].icw = 0
    BY <1>b2 DEF DevicesInv
  <2>5. /\ pics'[1] \in PicTypes /\ pics'[1].icw = 2
        /\ pics'[1].offset = pics[1].offset
    BY <2>3, <2>4, <1>1, CommandByte
  <2> QED
    BY <1>b2, <2>2, <2>3, <2>5 DEF DevicesInv, INT_HARDWARE, allow
<1>b3. CASE Made = 3
  <2>1. Writes(allow)[Made + 1] = <<33, 32>>
    BY <1>b3, <1>1, <1>2, Bytes
  <2>2. /\ Made' = 4 /\ BytesLeft' /\ timer' = timer
        /\ pics' = [pics EXCEPT ![1] = Data(@, 32)] /\ allow' = allow
    BY <1>b3, <1>1, <2>1, NextByte DEF allow
  <2>3. /\ DOMAIN pics' = {1, 2} /\ pics'[2] = pics[2]
        /\ pics'[1] = Data(pics[1], 32)
    BY <2>2 DEF DevicesInv
  <2>4. /\ pics[1] \in PicTypes /\ pics[1].icw = 2
    BY <1>b3 DEF DevicesInv
  <2>5. /\ pics'[1] \in PicTypes /\ pics'[1].icw = 3
        /\ pics'[1].offset = 32
    BY <2>3, <2>4, <1>1, DataByte
  <2> QED
    BY <1>b3, <2>2, <2>3, <2>5 DEF DevicesInv, INT_HARDWARE, allow
<1>b4. CASE Made = 4
  <2>1. Writes(allow)[Made + 1] = <<33, 4>>
    BY <1>b4, <1>1, <1>2, Bytes
  <2>2. /\ Made' = 5 /\ BytesLeft' /\ timer' = timer
        /\ pics' = [pics EXCEPT ![1] = Data(@, 4)] /\ allow' = allow
    BY <1>b4, <1>1, <2>1, NextByte DEF allow
  <2>3. /\ DOMAIN pics' = {1, 2} /\ pics'[2] = pics[2]
        /\ pics'[1] = Data(pics[1], 4)
    BY <2>2 DEF DevicesInv
  <2>4. /\ pics[1] \in PicTypes /\ pics[1].icw = 3
    BY <1>b4 DEF DevicesInv
  <2>5. /\ pics'[1] \in PicTypes /\ pics'[1].icw = 4
        /\ pics'[1].offset = pics[1].offset
    BY <2>3, <2>4, <1>1, DataByte
  <2> QED
    BY <1>b4, <2>2, <2>3, <2>5 DEF DevicesInv, INT_HARDWARE, allow
<1>b5. CASE Made = 5
  <2>1. Writes(allow)[Made + 1] = <<33, 3>>
    BY <1>b5, <1>1, <1>2, Bytes
  <2>2. /\ Made' = 6 /\ BytesLeft' /\ timer' = timer
        /\ pics' = [pics EXCEPT ![1] = Data(@, 3)] /\ allow' = allow
    BY <1>b5, <1>1, <2>1, NextByte DEF allow
  <2>3. /\ DOMAIN pics' = {1, 2} /\ pics'[2] = pics[2]
        /\ pics'[1] = Data(pics[1], 3)
    BY <2>2 DEF DevicesInv
  <2>4. /\ pics[1] \in PicTypes /\ pics[1].icw = 4
    BY <1>b5 DEF DevicesInv
  <2>5. /\ pics'[1] \in PicTypes /\ pics'[1].icw = 0
        /\ pics'[1].offset = pics[1].offset
    BY <2>3, <2>4, <1>1, DataByte
  <2> QED
    BY <1>b5, <2>2, <2>3, <2>5 DEF DevicesInv, INT_HARDWARE, allow
<1>b6. CASE Made = 6
  <2>1. Writes(allow)[Made + 1] = <<160, 17>>
    BY <1>b6, <1>1, <1>2, Bytes
  <2>2. /\ Made' = 7 /\ BytesLeft' /\ timer' = timer
        /\ pics' = [pics EXCEPT ![2] = Command(@, 17)] /\ allow' = allow
    BY <1>b6, <1>1, <2>1, NextByte DEF allow
  <2>3. /\ DOMAIN pics' = {1, 2} /\ pics'[1] = pics[1]
        /\ pics'[2] = Command(pics[2], 17)
    BY <2>2 DEF DevicesInv
  <2>4. /\ pics[2] \in PicTypes /\ pics[2].icw = 0
    BY <1>b6 DEF DevicesInv
  <2>5. /\ pics'[2] \in PicTypes /\ pics'[2].icw = 2
        /\ pics'[2].offset = pics[2].offset
    BY <2>3, <2>4, <1>1, CommandByte
  <2> QED
    BY <1>b6, <2>2, <2>3, <2>5 DEF DevicesInv, INT_HARDWARE, allow
<1>b7. CASE Made = 7
  <2>1. Writes(allow)[Made + 1] = <<161, 40>>
    BY <1>b7, <1>1, <1>2, Bytes
  <2>2. /\ Made' = 8 /\ BytesLeft' /\ timer' = timer
        /\ pics' = [pics EXCEPT ![2] = Data(@, 40)] /\ allow' = allow
    BY <1>b7, <1>1, <2>1, NextByte DEF allow
  <2>3. /\ DOMAIN pics' = {1, 2} /\ pics'[1] = pics[1]
        /\ pics'[2] = Data(pics[2], 40)
    BY <2>2 DEF DevicesInv
  <2>4. /\ pics[2] \in PicTypes /\ pics[2].icw = 2
    BY <1>b7 DEF DevicesInv
  <2>5. /\ pics'[2] \in PicTypes /\ pics'[2].icw = 3
        /\ pics'[2].offset = 40
    BY <2>3, <2>4, <1>1, DataByte
  <2> QED
    BY <1>b7, <2>2, <2>3, <2>5 DEF DevicesInv, INT_HARDWARE, allow
<1>b8. CASE Made = 8
  <2>1. Writes(allow)[Made + 1] = <<161, 2>>
    BY <1>b8, <1>1, <1>2, Bytes
  <2>2. /\ Made' = 9 /\ BytesLeft' /\ timer' = timer
        /\ pics' = [pics EXCEPT ![2] = Data(@, 2)] /\ allow' = allow
    BY <1>b8, <1>1, <2>1, NextByte DEF allow
  <2>3. /\ DOMAIN pics' = {1, 2} /\ pics'[1] = pics[1]
        /\ pics'[2] = Data(pics[2], 2)
    BY <2>2 DEF DevicesInv
  <2>4. /\ pics[2] \in PicTypes /\ pics[2].icw = 3
    BY <1>b8 DEF DevicesInv
  <2>5. /\ pics'[2] \in PicTypes /\ pics'[2].icw = 4
        /\ pics'[2].offset = pics[2].offset
    BY <2>3, <2>4, <1>1, DataByte
  <2> QED
    BY <1>b8, <2>2, <2>3, <2>5 DEF DevicesInv, INT_HARDWARE, allow
<1>b9. CASE Made = 9
  <2>1. Writes(allow)[Made + 1] = <<161, 1>>
    BY <1>b9, <1>1, <1>2, Bytes
  <2>2. /\ Made' = 10 /\ BytesLeft' /\ timer' = timer
        /\ pics' = [pics EXCEPT ![2] = Data(@, 1)] /\ allow' = allow
    BY <1>b9, <1>1, <2>1, NextByte DEF allow
  <2>3. /\ DOMAIN pics' = {1, 2} /\ pics'[1] = pics[1]
        /\ pics'[2] = Data(pics[2], 1)
    BY <2>2 DEF DevicesInv
  <2>4. /\ pics[2] \in PicTypes /\ pics[2].icw = 4
    BY <1>b9 DEF DevicesInv
  <2>5. /\ pics'[2] \in PicTypes /\ pics'[2].icw = 0
        /\ pics'[2].offset = pics[2].offset
    BY <2>3, <2>4, <1>1, DataByte
  <2> QED
    BY <1>b9, <2>2, <2>3, <2>5 DEF DevicesInv, INT_HARDWARE, allow
<1>b10. CASE Made = 10
  <2>1. Writes(allow)[Made + 1] = <<32, 104>>
    BY <1>b10, <1>1, <1>2, Bytes
  <2>2. /\ Made' = 11 /\ BytesLeft' /\ timer' = timer
        /\ pics' = [pics EXCEPT ![1] = Command(@, 104)] /\ allow' = allow
    BY <1>b10, <1>1, <2>1, NextByte DEF allow
  <2>3. /\ DOMAIN pics' = {1, 2} /\ pics'[2] = pics[2]
        /\ pics'[1] = Command(pics[1], 104)
    BY <2>2 DEF DevicesInv
  <2>4. /\ pics[1] \in PicTypes /\ pics[1].icw = 0
    BY <1>b10 DEF DevicesInv
  <2>5. /\ pics'[1] \in PicTypes /\ pics'[1].icw = 0
        /\ pics'[1] = pics[1]
    BY <2>3, <2>4, <1>1, CommandByte
  <2> QED
    BY <1>b10, <2>2, <2>3, <2>5 DEF DevicesInv, INT_HARDWARE, allow
<1>b11. CASE Made = 11
  <2>1. Writes(allow)[Made + 1] = <<32, 10>>
    BY <1>b11, <1>1, <1>2, Bytes
  <2>2. /\ Made' = 12 /\ BytesLeft' /\ timer' = timer
        /\ pics' = [pics EXCEPT ![1] = Command(@, 10)] /\ allow' = allow
    BY <1>b11, <1>1, <2>1, NextByte DEF allow
  <2>3. /\ DOMAIN pics' = {1, 2} /\ pics'[2] = pics[2]
        /\ pics'[1] = Command(pics[1], 10)
    BY <2>2 DEF DevicesInv
  <2>4. /\ pics[1] \in PicTypes /\ pics[1].icw = 0
    BY <1>b11 DEF DevicesInv
  <2>5. /\ pics'[1] \in PicTypes /\ pics'[1].icw = 0
        /\ pics'[1] = pics[1]
    BY <2>3, <2>4, <1>1, CommandByte
  <2> QED
    BY <1>b11, <2>2, <2>3, <2>5 DEF DevicesInv, INT_HARDWARE, allow
<1>b12. CASE Made = 12
  <2>1. Writes(allow)[Made + 1] = <<160, 104>>
    BY <1>b12, <1>1, <1>2, Bytes
  <2>2. /\ Made' = 13 /\ BytesLeft' /\ timer' = timer
        /\ pics' = [pics EXCEPT ![2] = Command(@, 104)] /\ allow' = allow
    BY <1>b12, <1>1, <2>1, NextByte DEF allow
  <2>3. /\ DOMAIN pics' = {1, 2} /\ pics'[1] = pics[1]
        /\ pics'[2] = Command(pics[2], 104)
    BY <2>2 DEF DevicesInv
  <2>4. /\ pics[2] \in PicTypes /\ pics[2].icw = 0
    BY <1>b12 DEF DevicesInv
  <2>5. /\ pics'[2] \in PicTypes /\ pics'[2].icw = 0
        /\ pics'[2] = pics[2]
    BY <2>3, <2>4, <1>1, CommandByte
  <2> QED
    BY <1>b12, <2>2, <2>3, <2>5 DEF DevicesInv, INT_HARDWARE, allow
<1>b13. CASE Made = 13
  <2>1. Writes(allow)[Made + 1] = <<160, 10>>
    BY <1>b13, <1>1, <1>2, Bytes
  <2>2. /\ Made' = 14 /\ BytesLeft' /\ timer' = timer
        /\ pics' = [pics EXCEPT ![2] = Command(@, 10)] /\ allow' = allow
    BY <1>b13, <1>1, <2>1, NextByte DEF allow
  <2>3. /\ DOMAIN pics' = {1, 2} /\ pics'[1] = pics[1]
        /\ pics'[2] = Command(pics[2], 10)
    BY <2>2 DEF DevicesInv
  <2>4. /\ pics[2] \in PicTypes /\ pics[2].icw = 0
    BY <1>b13 DEF DevicesInv
  <2>5. /\ pics'[2] \in PicTypes /\ pics'[2].icw = 0
        /\ pics'[2] = pics[2]
    BY <2>3, <2>4, <1>1, CommandByte
  <2> QED
    BY <1>b13, <2>2, <2>3, <2>5 DEF DevicesInv, INT_HARDWARE, allow
<1>b14. CASE Made = 14
  <2>1. Writes(allow)[Made + 1] = <<33, ClockMask(allow)>>
    BY <1>b14, <1>1, <1>2, Bytes
  <2>2. /\ Made' = 15 /\ BytesLeft' /\ timer' = timer
        /\ pics' = [pics EXCEPT ![1] = Data(@, ClockMask(allow))] /\ allow' = allow
    BY <1>b14, <1>1, <2>1, NextByte DEF allow
  <2>3. /\ DOMAIN pics' = {1, 2} /\ pics'[2] = pics[2]
        /\ pics'[1] = Data(pics[1], ClockMask(allow))
    BY <2>2 DEF DevicesInv
  <2>4. /\ pics[1] \in PicTypes /\ pics[1].icw = 0
    BY <1>b14 DEF DevicesInv
  <2>5. /\ pics'[1] \in PicTypes /\ pics'[1].icw = 0
        /\ pics'[1].mask = ClockMask(allow) /\ pics'[1].offset = pics[1].offset
    BY <2>3, <2>4, <1>1, DataByte
  <2> QED
    BY <1>b14, <2>2, <2>3, <2>5 DEF DevicesInv, INT_HARDWARE, allow
<1>b15. CASE Made = 15
  <2>1. Writes(allow)[Made + 1] = <<161, 255>>
    BY <1>b15, <1>1, <1>2, Bytes
  <2>2. /\ Made' = 16 /\ BytesLeft' /\ timer' = timer
        /\ pics' = [pics EXCEPT ![2] = Data(@, 255)] /\ allow' = allow
    BY <1>b15, <1>1, <2>1, NextByte DEF allow
  <2>3. /\ DOMAIN pics' = {1, 2} /\ pics'[1] = pics[1]
        /\ pics'[2] = Data(pics[2], 255)
    BY <2>2 DEF DevicesInv
  <2>4. /\ pics[2] \in PicTypes /\ pics[2].icw = 0
    BY <1>b15 DEF DevicesInv
  <2>5. /\ pics'[2] \in PicTypes /\ pics'[2].icw = 0
        /\ pics'[2].mask = 255 /\ pics'[2].offset = pics[2].offset
    BY <2>3, <2>4, <1>1, DataByte
  <2> QED
    BY <1>b15, <2>2, <2>3, <2>5 DEF DevicesInv, INT_HARDWARE, allow
<1>b16. CASE Made = 16
  <2>1. Writes(allow)[Made + 1] = <<67, 52>>
    BY <1>b16, <1>1, <1>2, Bytes
  <2>2. /\ Made' = 17 /\ BytesLeft' /\ timer' = Append(timer, 52)
        /\ pics' = pics /\ allow' = allow
    BY <1>b16, <1>1, <2>1, NextByte DEF allow
  <2>3. timer \in Seq(Int)
    BY DEF DevicesInv
  <2>4. /\ timer' \in Seq(Int) /\ Len(timer') = Len(timer) + 1
        /\ timer'[Len(timer) + 1] = 52
        /\ \A i \in 1 .. Len(timer) : timer'[i] = timer[i]
    BY <2>2, <2>3, Appended
  <2>5. Len(timer) = 0
    BY <1>b16 DEF DevicesInv
  <2> QED
    BY <1>b16, <2>2, <2>3, <2>4, <2>5 DEF DevicesInv, allow
<1>b17. CASE Made = 17
  <2>1. Writes(allow)[Made + 1] = <<64, 142>>
    BY <1>b17, <1>1, <1>2, Bytes
  <2>2. /\ Made' = 18 /\ BytesLeft' /\ timer' = Append(timer, 142)
        /\ pics' = pics /\ allow' = allow
    BY <1>b17, <1>1, <2>1, NextByte DEF allow
  <2>3. timer \in Seq(Int)
    BY DEF DevicesInv
  <2>4. /\ timer' \in Seq(Int) /\ Len(timer') = Len(timer) + 1
        /\ timer'[Len(timer) + 1] = 142
        /\ \A i \in 1 .. Len(timer) : timer'[i] = timer[i]
    BY <2>2, <2>3, Appended
  <2>5. Len(timer) = 1
    BY <1>b17 DEF DevicesInv
  <2> QED
    BY <1>b17, <2>2, <2>3, <2>4, <2>5 DEF DevicesInv, allow
<1>b18. CASE Made = 18
  <2>1. Writes(allow)[Made + 1] = <<64, 1>>
    BY <1>b18, <1>1, <1>2, Bytes
  <2>2. /\ Made' = 19 /\ BytesLeft' /\ timer' = Append(timer, 1)
        /\ pics' = pics /\ allow' = allow
    BY <1>b18, <1>1, <2>1, NextByte DEF allow
  <2>3. timer \in Seq(Int)
    BY DEF DevicesInv
  <2>4. /\ timer' \in Seq(Int) /\ Len(timer') = Len(timer) + 1
        /\ timer'[Len(timer) + 1] = 1
        /\ \A i \in 1 .. Len(timer) : timer'[i] = timer[i]
    BY <2>2, <2>3, Appended
  <2>5. Len(timer) = 2
    BY <1>b18 DEF DevicesInv
  <2> QED
    BY <1>b18, <2>2, <2>3, <2>4, <2>5 DEF DevicesInv, allow
<1> QED
  BY <1>1, <1>2, <1>b0, <1>b1, <1>b2, <1>b3, <1>b4, <1>b5, <1>b6, <1>b7,
     <1>b8, <1>b9, <1>b10, <1>b11, <1>b12, <1>b13, <1>b14, <1>b15, <1>b16,
     <1>b17, <1>b18

(* Once all bytes are sent, only the clock gets through, and to its vector.*)
LEMMA OnlyTheClock ==
  ASSUME DevicesInv, writes = <<>>
  PROVE  /\ \A line \in 0 .. 15 :
              Unmasked(line) <=> line = 0 /\ allow_clock_interrupt
         /\ VectorOf(0) = INT_CLOCK
<1>1. /\ allow_clock_interrupt \in BOOLEAN
      /\ Made = IF allow_clock_interrupt THEN 19 ELSE 16
  <2>1. Len(writes) = 0 /\ allow_clock_interrupt \in BOOLEAN
    BY DEF DevicesInv, BytesLeft
  <2>2. Len(Writes(allow_clock_interrupt)) =
          IF allow_clock_interrupt THEN 19 ELSE 16
    BY <2>1, Bytes
  <2> QED
    BY <2>1, <2>2 DEF Made
<1>2. /\ pics[1].mask = ClockMask(allow_clock_interrupt)
      /\ pics[2].mask = 255 /\ pics[1].offset = INT_HARDWARE
  BY <1>1 DEF DevicesInv
<1>3. \A n \in 0 .. 7 : Bit(255, n) /\ (Bit(254, n) <=> n # 0)
  <2>1. /\ Bit(255, 0) /\ Bit(255, 1) /\ Bit(255, 2) /\ Bit(255, 3)
        /\ Bit(255, 4) /\ Bit(255, 5) /\ Bit(255, 6) /\ Bit(255, 7)
    BY DEF Bit
  <2>2. /\ ~ Bit(254, 0)
        /\ Bit(254, 1) /\ Bit(254, 2) /\ Bit(254, 3)
        /\ Bit(254, 4) /\ Bit(254, 5) /\ Bit(254, 6) /\ Bit(254, 7)
    BY DEF Bit
  <2> QED
    BY <2>1, <2>2
<1> HIDE DEF Bit
<1>4. ASSUME NEW line \in 0 .. 15
      PROVE  Unmasked(line) <=> line = 0 /\ allow_clock_interrupt
  <2>1. CASE line < 8
    BY <1>1, <1>2, <1>3, <2>1 DEF Unmasked, ClockMask
  <2>2. CASE line >= 8
    <3>1. line - 8 \in 0 .. 7
      BY <2>2
    <3> QED
      BY <1>2, <1>3, <2>2, <3>1 DEF Unmasked
  <2> QED
    BY <2>1, <2>2
<1>5. VectorOf(0) = INT_CLOCK
  <2>1. 0 \div 8 + 1 = 1 /\ 0 % 8 = 0
    OBVIOUS
  <2> QED
    BY <1>2, <2>1 DEF VectorOf, INT_CLOCK, INT_HARDWARE
<1> QED
  BY <1>4, <1>5

(* Neither a request nor its acknowledgement undoes the programming.       *)
LEMMA RequestKeepsDevices ==
  ASSUME DevicesInv, NEW line \in Lines, Request(line) \/ Acknowledge(line)
  PROVE  DevicesInv'
<1>1. /\ UNCHANGED <<allow_clock_interrupt, writes, timer>>
      /\ BytesLeft' /\ Made' = Made
  <2>1. UNCHANGED <<allow_clock_interrupt, writes, timer>>
    BY DEF Request, Acknowledge
  <2>2. Made' = Made
    BY <2>1 DEF Made
  <2> QED
    BY <2>1, <2>2 DEF DevicesInv, BytesLeft
<1>2. CASE Request(line)
  BY <1>1, <1>2 DEF DevicesInv, Request
<1>3. CASE Acknowledge(line)
  <2>1. line \in 0 .. 15
    BY LinesAssumption
  <2>2. PICK n \in {1, 2} : n = line \div 8 + 1
    BY <2>1
  <2>3. pics' = [pics EXCEPT ![n].serving =
                   IF pics[n].aeoi THEN @ ELSE @ \cup {line}]
    BY <1>3, <2>2 DEF Acknowledge
  <2>4. DOMAIN pics = {1, 2} /\ \A m \in {1, 2} : pics[m] \in PicTypes
    BY DEF DevicesInv
  <2>5. /\ DOMAIN pics' = {1, 2}
        /\ \A m \in {1, 2} : m # n => pics'[m] = pics[m]
        /\ pics'[n] = [pics[n] EXCEPT !.serving =
                         IF pics[n].aeoi THEN @ ELSE @ \cup {line}]
    BY <2>3, <2>4
  <2> DEFINE served == IF pics[n].aeoi THEN pics[n].serving
                       ELSE pics[n].serving \cup {line}
  <2>6. pics'[n] = [pics[n] EXCEPT !.serving = served] /\ served \in SUBSET Int
    BY <2>1, <2>4, <2>5 DEF PicTypes
  <2> HIDE DEF served
  <2>7. /\ pics'[n] \in PicTypes /\ pics'[n].icw = pics[n].icw
        /\ pics'[n].offset = pics[n].offset /\ pics'[n].mask = pics[n].mask
    BY <2>4, <2>6 DEF PicTypes
  <2>8. \A m \in {1, 2} :
          /\ pics'[m] \in PicTypes /\ pics'[m].icw = pics[m].icw
          /\ pics'[m].offset = pics[m].offset /\ pics'[m].mask = pics[m].mask
    BY <2>4, <2>5, <2>7
  <2> QED
    BY <1>1, <2>5, <2>8 DEF DevicesInv
<1> QED
  BY <1>2, <1>3

-----------------------------------------------------------------------------
(* The registers of an application, wherever they are.                     *)

(* The places of those registers in registers_t.                           *)
Kept == (1 .. 17) \ {4, 11, 12}

(* Two register sets that agree on those words are the same.               *)
LEMMA SameRegisters ==
  ASSUME NEW f, NEW g,
         f = [name \in RegisterNames |-> f[name]],
         g = [name \in RegisterNames |-> g[name]],
         \A n \in Kept : f[registers_t[n]] = g[registers_t[n]]
  PROVE  f = g
<1>1. RegisterNames = {registers_t[n] : n \in Kept}
  BY Names DEF Kept
<1>2. \A name \in RegisterNames : f[name] = g[name]
  BY <1>1
<1> QED
  BY <1>2

(* What is on the way into the kernel, and what a descriptor holds.        *)
Underway(s, c, where) ==
  [name \in RegisterNames |->
     IF name \in Range(TaskStatus)
     THEN s[Len(s) - Len(TaskStatus) + Place(TaskStatus, name)]
     ELSE IF where = "entry" THEN c[name]
     ELSE s[Place(registers_t, name)]]

(* What a descriptor's words say the registers are, and what run() makes of *)
(* them.                                                                   *)
Saved(words) == [name \in RegisterNames |-> Reg(words, name)]

Restored(words) == [name \in RegisterNames |-> words[Place(Popped, name)]]

(* ContextOf as a function of the parts of the state it reads.             *)
ContextIn(p, where, c, s, words, cur) ==
  IF p = cur /\ where = "app" THEN c
  ELSE IF p = cur /\ where \in {"entry", "interrupt", "hang"}
  THEN Underway(s, c, where)
  ELSE Saved(words)

(* It is ContextOf.                                                        *)
LEMMA ContextNow ==
  ASSUME NEW p
  PROVE  ContextOf(p) = ContextIn(p, at, cpu, stack, p_registers[p], current)
BY DEF ContextOf, ContextIn, Interrupted, Underway, Saved

(* On the way into the kernel: the last five words of the stack, and the   *)
(* others in the processor or on top of the stack.                         *)
LEMMA InterruptedWords ==
  ASSUME NEW s, Len(s) \in Nat, NEW c, NEW where, NEW n \in Kept
  PROVE  LET word == Underway(s, c, where)[registers_t[n]]
         IN  /\ n > 12 => word = s[Len(s) - 17 + n]
             /\ n <= 12 /\ where = "entry" => word = c[registers_t[n]]
             /\ n <= 12 /\ where # "entry" => word = s[n]
<1>1. n \in 1 .. 17 /\ registers_t[n] \in RegisterNames
  BY Names DEF Kept
<1>2. CASE n > 12
  <2>1. registers_t[n] \in Range(TaskStatus)
    BY <1>1, <1>2, Names
  <2>2. Place(TaskStatus, registers_t[n]) = n - 12
    BY <1>1, <1>2, Places
  <2>3. Len(s) - Len(TaskStatus) + (n - 12) = Len(s) - 17 + n
    BY <1>1, Words
  <2> QED
    BY <1>1, <1>2, <2>1, <2>2, <2>3 DEF Underway
<1>3. CASE ~ (n > 12)
  <2>1. Place(registers_t, registers_t[n]) = n
    BY <1>1, Places
  <2>2. registers_t[n] \notin Range(TaskStatus)
    <3>1. \A m \in 13 .. 17 : registers_t[m] # registers_t[n]
      <4>1. \A m \in 13 .. 17 : Place(registers_t, registers_t[m]) = m
        BY Places
      <4>2. \A m \in 13 .. 17 : m # n
        BY <1>3
      <4> QED
        BY <2>1, <4>1, <4>2
    <3> QED
      BY <3>1, Names
  <2> QED
    BY <1>1, <1>3, <2>1, <2>2 DEF Underway
<1> QED
  BY <1>2, <1>3

(* In the process descriptor, and as run() restores them.                  *)
LEMMA SavedWords ==
  ASSUME NEW words, NEW n \in Kept
  PROVE  /\ Saved(words)[registers_t[n]] = words[n]
         /\ Restored(words)[registers_t[n]] = words[n]
<1>1. n \in 1 .. 17 /\ n \notin {11, 12} /\ registers_t[n] \in RegisterNames
  BY Names DEF Kept
<1>2. /\ Place(registers_t, registers_t[n]) = n
      /\ Place(Popped, registers_t[n]) = n
  BY <1>1, Places
<1> QED
  BY <1>1, <1>2 DEF Reg, Saved, Restored

(* The words that say how the processor may go on.                         *)
LEMMA SelectorWords ==
  /\ "cs" = registers_t[14] /\ "ds" = registers_t[10] /\ "es" = registers_t[9]
  /\ "ss" = registers_t[17] /\ "eflags" = registers_t[15]
  /\ {9, 10, 14, 15, 17} \subseteq Kept
BY OtherWords DEF Kept

(* An application's registers: its own segments, interrupts enabled.       *)
ForApp(r) ==
  /\ r["cs"] = SEGSEL_APP_CODE + 3
  /\ r["ds"] = SEGSEL_APP_DATA + 3
  /\ r["es"] = SEGSEL_APP_DATA + 3
  /\ r["ss"] = SEGSEL_APP_DATA + 3
  /\ r["eflags"] \in Int /\ InterruptFlag(r["eflags"])

(* The kernel's.                                                           *)
ForKernel(r) ==
  /\ r["cs"] = SEGSEL_KERN_CODE
  /\ r["ds"] = SEGSEL_KERN_DATA
  /\ r["es"] = SEGSEL_KERN_DATA
  /\ r["ss"] = SEGSEL_KERN_DATA

(* The vectors whose entry points push their number.                       *)
Numbered == {INT_CLOCK} \cup INT_SYS_YIELD .. INT_SYS_YIELD + 9

(* Wherever the registers of an application are - in the processor, on the *)
(* stack of the kernel or in its descriptor -, they are an application's.  *)
MachineInv ==
  /\ TypeOK
  /\ at = "devices" => current = 0
  /\ at # "devices" =>
       /\ writes = <<>>
       /\ \A p \in Apps : ForApp(ContextOf(p))
  /\ at \in {"app", "entry", "interrupt", "hang"} => current \in Apps
  /\ at \notin {"app", "entry"} => ForKernel(cpu)
  /\ at = "entry" =>
       /\ cpu["cs"] = SEGSEL_KERN_CODE /\ cpu["ss"] = SEGSEL_KERN_DATA
       /\ Len(stack) = IF HasErrorCode(vector) THEN 6 ELSE 5
  /\ at # "app" => ~ Interruptible
  /\ at = "interrupt" =>
       /\ Len(stack) =
            IF vector \in Numbered \/ HasErrorCode(vector) THEN 17 ELSE 16
       /\ stack[11] = IF vector \in Numbered THEN vector ELSE 0

(* The inductive invariant.                                                *)
IInv == DevicesInv /\ MachineInv

-----------------------------------------------------------------------------
(* The steps.                                                              *)

(* Subtracting the interrupt flag of a word that has it clears it.         *)
LEMMA FlagCleared ==
  /\ \A flags \in Int : InterruptFlag(flags) => ~ InterruptFlag(flags - EFLAGS_IF)
  /\ ~ InterruptFlag(0) /\ InterruptFlag(EFLAGS_IF)
BY DEF InterruptFlag, EFLAGS_IF

(* What the gate of each vector holds.                                     *)
LEMMA Gates ==
  ASSUME NEW v
  PROVE  /\ Gate(v).istrap = FALSE /\ Gate(v).sel = SEGSEL_KERN_CODE
         /\ Gate(v).dpl = IF v \in INT_SYS_YIELD .. INT_SYS_YIELD + 9 THEN 3 ELSE 0
         /\ Gate(v).off = IF v \in Numbered THEN <<v, 0>> ELSE <<0>>
<1>1. CASE v = INT_CLOCK
  BY <1>1 DEF Gate, SETGATE, Numbered, clock_int_handler, INT_CLOCK, INT_HARDWARE,
              INT_SYS_YIELD
<1>2. CASE v # INT_CLOCK /\ v \in INT_SYS_YIELD .. INT_SYS_YIELD + 9
  <2>1. v - INT_SYS_YIELD \in 0 .. 9 /\ 48 + (v - INT_SYS_YIELD) = v
    BY <1>2 DEF INT_SYS_YIELD
  <2>2. sys_int_handlers[v - INT_SYS_YIELD] = <<v, 0>>
    BY <2>1 DEF sys_int_handlers, sys_int_handler
  <2> QED
    BY <1>2, <2>2 DEF Gate, SETGATE, Numbered
<1>3. CASE v # INT_CLOCK /\ v \notin INT_SYS_YIELD .. INT_SYS_YIELD + 9
  BY <1>3 DEF Gate, SETGATE, Numbered, default_int_handler
<1> QED
  BY <1>1, <1>2, <1>3

(* Register names that steps name literally.                               *)
LEMMA NameFacts ==
  /\ {"cs", "ds", "es", "ss", "eflags", "eip", "esp", "eax"} \subseteq RegisterNames
  /\ \A n \in Kept : n <= 12 =>
       registers_t[n] \notin {"cs", "ss", "eflags", "eip", "esp"}
BY Names, GeneralWords, OtherWords DEF Kept

(* The initial states.                                                     *)
LEMMA MachineInit == Init => IInv
<1> SUFFICES ASSUME Init PROVE IInv
  OBVIOUS
<1>1. DevicesInv
  BY DevicesInit DEF Init
<1>2. cpu \in RegisterSets /\ ForKernel(cpu) /\ cpu["eflags"] = 0
  BY NameFacts DEF Init, RegisterSets, ForKernel, SEGSEL_KERN_CODE, SEGSEL_KERN_DATA
<1>3. TypeOK
  BY <1>2, Words, NPROCSAssumption DEF Init, TypeOK, Pids
<1> QED
  BY <1>1, <1>2, <1>3, FlagCleared DEF Init, IInv, MachineInv, Interruptible

(* The words of two pieces of the stack.                                   *)
LEMMA Joined ==
  ASSUME NEW s \in Seq(Int), NEW t \in Seq(Int)
  PROVE  /\ s \o t \in Seq(Int) /\ Len(s \o t) = Len(s) + Len(t)
         /\ \A n \in 1 .. Len(s) : (s \o t)[n] = s[n]
         /\ \A n \in 1 .. Len(t) : (s \o t)[Len(s) + n] = t[n]
OBVIOUS

(* Taking an interrupt or an exception out of an application.              *)
LEMMA TakeKeeps ==
  ASSUME MachineInv, at = "app", NEW v \in 0 .. 255, NEW code \in Seq(Int),
         Len(code) = IF HasErrorCode(v) THEN 1 ELSE 0,
         Take(v, code), writes' = writes
  PROVE  MachineInv' /\ \A p \in Apps : (ContextOf(p))' = ContextOf(p)
<1>1. /\ cpu \in RegisterSets /\ ForApp(cpu) /\ current \in Apps
      /\ writes = <<>>
  BY DEF MachineInv, TypeOK, ContextOf
<1>c. Len(code) \in {0, 1}
  OBVIOUS
<1>2. CPL = 3 /\ Interruptible
  BY <1>1 DEF CPL, RPL, ForApp, SEGSEL_APP_CODE, Interruptible
<1> DEFINE last == <<cpu.eip, cpu.cs, cpu.eflags, cpu.esp, cpu.ss>>
<1>3. /\ at' = "entry" /\ vector' = v /\ UNCHANGED processVars
      /\ stack' = code \o Pushed
      /\ cpu' = [cpu EXCEPT !.cs = SEGSEL_KERN_CODE, !.eip = Unknown,
                            !.ss = ts_ss0,
                            !.esp = ts_esp0 - 4 * Len(stack'),
                            !.eflags = @ - EFLAGS_IF]
  BY <1>2, Gates DEF Take
<1>a. at' = "entry"
  BY <1>3
<1>4. /\ cpu["eip"] \in Int /\ cpu["cs"] \in Int /\ cpu["eflags"] \in Int
      /\ cpu["esp"] \in Int /\ cpu["ss"] \in Int
  BY <1>1, NameFacts DEF RegisterSets
<1>5. /\ Pushed \in Seq(Int) /\ Len(Pushed) = 5
      /\ \A n \in 1 .. 5 : Pushed[n] = last[n]
  <2>1. Pushed = <<cpu.eip, cpu.cs, cpu.eflags>> \o <<cpu.esp, cpu.ss>>
    BY <1>2 DEF Pushed
  <2> QED
    BY <1>4, <2>1
<1>6. /\ stack' \in Seq(Int) /\ Len(stack') = Len(code) + 5
      /\ \A n \in 1 .. 5 : stack'[Len(code) + n] = last[n]
  <2> HIDE DEF last
  <2>1. /\ stack' \in Seq(Int) /\ Len(stack') = Len(code) + Len(Pushed)
        /\ \A n \in 1 .. Len(Pushed) : stack'[Len(code) + n] = Pushed[n]
    BY <1>3, <1>5, Joined
  <2> QED
    BY <1>5, <2>1
<1>n. Len(stack') = Len(code) + 5 /\ Len(stack') \in Nat
  BY <1>c, <1>6
<1>7. /\ cpu' \in RegisterSets
      /\ cpu'["cs"] = SEGSEL_KERN_CODE /\ cpu'["ss"] = ts_ss0
      /\ cpu'["eflags"] = cpu["eflags"] - EFLAGS_IF
      /\ \A name \in RegisterNames :
           name \notin {"cs", "ss", "eflags", "eip", "esp"} => cpu'[name] = cpu[name]
  <2>1. /\ Unknown \in Int /\ ts_ss0 \in Int /\ SEGSEL_KERN_CODE \in Int
        /\ ts_esp0 - 4 * Len(stack') \in Int /\ EFLAGS_IF \in Int
    BY <1>6, SMT DEF Unknown, ts_ss0, ts_esp0, SEGSEL_KERN_CODE, SEGSEL_KERN_DATA,
                EFLAGS_IF
  <2> DEFINE top == ts_esp0 - 4 * Len(stack')
  <2> HIDE DEF top
  <2>2. cpu' = [cpu EXCEPT !.cs = SEGSEL_KERN_CODE, !.eip = Unknown,
                            !.ss = ts_ss0, !.esp = top,
                            !.eflags = @ - EFLAGS_IF]
    BY <1>3 DEF top
  <2>3. top \in Int
    BY <2>1 DEF top
  <2>4. cpu \in [RegisterNames -> Int]
    BY <1>1 DEF RegisterSets
  <2> DEFINE flags == cpu["eflags"] - EFLAGS_IF
  <2>f. flags \in Int
    BY <1>4, <2>1
  <2> HIDE DEF flags
  <2>5. cpu' \in [RegisterNames -> Int]
    <3>1. cpu' = [cpu EXCEPT !.cs = SEGSEL_KERN_CODE, !.eip = Unknown,
                            !.ss = ts_ss0, !.esp = top, !.eflags = flags]
      BY <2>2, <2>4, NameFacts DEF flags
    <3> QED
      BY <2>1, <2>3, <2>4, <2>f, <3>1
  <2>6. /\ cpu'["cs"] = SEGSEL_KERN_CODE /\ cpu'["ss"] = ts_ss0
        /\ cpu'["eflags"] = cpu["eflags"] - EFLAGS_IF
    BY <2>2, <2>4, NameFacts
  <2>7. \A name \in RegisterNames :
           name \notin {"cs", "ss", "eflags", "eip", "esp"} => cpu'[name] = cpu[name]
    BY <2>2, <2>4
  <2> QED
    BY <2>5, <2>6, <2>7 DEF RegisterSets
<1>m. PICK m \in Apps : m = current
  BY <1>1
<1>8. (ContextOf(m))' = cpu
  <2> DEFINE way == Underway(stack', cpu', at')
  <2>1. (ContextOf(m))' = way
    BY <1>m, <1>3 DEF ContextOf, Interrupted, Underway, processVars
  <2> HIDE DEF way, last
  <2>2. ASSUME NEW n \in Kept
        PROVE  way[registers_t[n]] = cpu[registers_t[n]]
    <3>1. /\ n > 12 => way[registers_t[n]] = stack'[Len(stack') - 17 + n]
          /\ n <= 12 => way[registers_t[n]] = cpu'[registers_t[n]]
      <4>1. n \in 1 .. 17 /\ Len(stack') \in Nat
        BY <1>n DEF Kept
      <4> QED
        BY <1>a, <4>1, InterruptedWords DEF way
    <3>2. CASE n > 12
      <4>1. n - 12 \in 1 .. 5 /\ Len(stack') - 17 + n = Len(code) + (n - 12)
        BY <1>c, <1>n, <3>2 DEF Kept
      <4>2. stack'[Len(stack') - 17 + n] = last[n - 12]
        BY <1>6, <4>1
      <4>3. last[n - 12] = cpu[registers_t[n]]
        <5>1. /\ last[1] = cpu[registers_t[13]] /\ last[2] = cpu[registers_t[14]]
              /\ last[3] = cpu[registers_t[15]] /\ last[4] = cpu[registers_t[16]]
              /\ last[5] = cpu[registers_t[17]]
          BY OtherWords DEF last
        <5>2. n \in {13, 14, 15, 16, 17}
          BY <3>2 DEF Kept
        <5> QED
          BY <5>1, <5>2
      <4> QED
        BY <3>1, <3>2, <4>2, <4>3
    <3>3. CASE ~ (n > 12)
      <4>1. n <= 12 /\ registers_t[n] \in RegisterNames
        BY <3>3, Names DEF Kept
      <4> QED
        BY <1>7, <3>1, <3>3, <4>1, NameFacts
    <3> QED
      BY <3>2, <3>3
  <2>3. way = [name \in RegisterNames |-> way[name]]
    BY DEF Underway, way
  <2>4. cpu = [name \in RegisterNames |-> cpu[name]]
    BY <1>1 DEF RegisterSets
  <2>5. way = cpu
    BY <2>2, <2>3, <2>4, SameRegisters
  <2> QED
    BY <2>1, <2>5
<1>9. ASSUME NEW p \in Apps
      PROVE  (ContextOf(p))' = ContextOf(p)
  <2>1. CASE p = current
    BY <1>8, <1>m, <2>1 DEF ContextOf
  <2>2. CASE p # current
    <3>1. (ContextOf(p))' = Saved(p_registers'[p]) /\ ContextOf(p) = Saved(p_registers[p])
      BY <1>3, <2>2 DEF ContextOf, Saved, processVars
    <3> QED
      BY <1>3, <3>1 DEF processVars
  <2> QED
    BY <2>1, <2>2
<1>10. TypeOK'
  <2>1. /\ stack' \in Seq(Int) /\ Len(stack') <= Len(registers_t)
        /\ at' = "entry" /\ vector' \in 0 .. 255 /\ cpu' \in RegisterSets
    BY <1>c, <1>3, <1>6, <1>7, Words
  <2>2. UNCHANGED <<p_registers, runnable, current>>
    BY <1>3 DEF processVars
  <2> QED
    BY <2>1, <2>2 DEF MachineInv, TypeOK
<1>11. (~ Interruptible)'
  BY <1>1, <1>7, FlagCleared DEF ForApp, Interruptible
<1>12. (\A p \in Apps : ForApp(ContextOf(p)))'
  BY <1>9 DEF MachineInv
<1> QED
  BY <1>1, <1>3, <1>6, <1>7, <1>9, <1>10, <1>11, <1>12
     DEF MachineInv, processVars, ts_ss0

(* The entry point and _generic_int_handler complete the frame.            *)
LEMMA HandlerKeeps ==
  ASSUME MachineInv, GenericIntHandler
  PROVE  MachineInv' /\ \A p \in Apps : (ContextOf(p))' = ContextOf(p)
<1>1. /\ at = "entry" /\ at' = "interrupt"
      /\ UNCHANGED <<vector, p_registers, runnable, current, writes>>
  BY DEF GenericIntHandler, processVars, deviceVars
<1>2. /\ cpu \in RegisterSets /\ stack \in Seq(Int) /\ vector \in 0 .. 255
      /\ Len(stack) = IF HasErrorCode(vector) THEN 6 ELSE 5
      /\ cpu["cs"] = SEGSEL_KERN_CODE /\ cpu["ss"] = SEGSEL_KERN_DATA
  BY <1>1 DEF MachineInv, TypeOK
<1> DEFINE off == IF vector \in Numbered THEN <<vector, 0>> ELSE <<0>>
           words == <<cpu.es, cpu.ds>> \o off \o stack
           general == [n \in DOMAIN GeneralRegisters |->
                         IF GeneralRegisters[n] = "original_esp"
                         THEN ts_esp0 - 4 * Len(words) ELSE cpu[GeneralRegisters[n]]]
<1>3. /\ stack' = general \o words
      /\ cpu' = [cpu EXCEPT !.eax = SEGSEL_KERN_DATA, !.ds = SEGSEL_KERN_DATA,
                     !.es = SEGSEL_KERN_DATA, !.esp = ts_esp0 - 4 * Len(stack')]
  BY Gates DEF GenericIntHandler
<1>4. /\ off \in Seq(Int) /\ Len(off) = IF vector \in Numbered THEN 2 ELSE 1
      /\ off[1] = IF vector \in Numbered THEN vector ELSE 0
  BY <1>2
<1> HIDE DEF off
<1>l. /\ Len(stack) \in Nat /\ Len(stack) >= 5
      /\ Len(off) \in Nat /\ Len(off) >= 1
  BY <1>2, <1>4
<1>5. /\ words \in Seq(Int) /\ Len(words) = 2 + Len(off) + Len(stack)
      /\ words[1] = cpu["es"] /\ words[2] = cpu["ds"] /\ words[3] = off[1]
      /\ \A n \in 1 .. Len(stack) : words[2 + Len(off) + n] = stack[n]
  <2>1. cpu["es"] \in Int /\ cpu["ds"] \in Int
    BY <1>2, NameFacts DEF RegisterSets
  <2> DEFINE two == <<cpu.es, cpu.ds>>
             head == two \o off
  <2>2. /\ two \in Seq(Int) /\ Len(two) = 2
        /\ two[1] = cpu["es"] /\ two[2] = cpu["ds"]
    BY <2>1
  <2>0. words = head \o stack
    BY DEF words
  <2> HIDE DEF two
  <2>3. /\ head \in Seq(Int) /\ Len(head) = Len(two) + Len(off)
        /\ \A n \in 1 .. Len(two) : head[n] = two[n]
        /\ \A n \in 1 .. Len(off) : head[Len(two) + n] = off[n]
    BY <1>4, <2>2, Joined
  <2> HIDE DEF head, words
  <2>4. /\ Len(head) = 2 + Len(off)
        /\ head[1] = two[1] /\ head[2] = two[2] /\ head[3] = off[1]
    BY <1>l, <2>2, <2>3, SMTT(20)
  <2>5. /\ words \in Seq(Int) /\ Len(words) = Len(head) + Len(stack)
        /\ \A n \in 1 .. Len(head) : words[n] = head[n]
        /\ \A n \in 1 .. Len(stack) : words[Len(head) + n] = stack[n]
    BY <1>2, <2>0, <2>3, Joined
  <2> QED
    BY <1>l, <2>2, <2>4, <2>5
<1> HIDE DEF words
<1>6. /\ general \in Seq(Int) /\ Len(general) = 8
      /\ \A n \in 1 .. 8 : n # 4 => general[n] = cpu[registers_t[n]]
  <2> DEFINE esp == ts_esp0 - 4 * Len(words)
  <2>1. esp \in Int
    BY <1>5, SMT DEF ts_esp0
  <2> HIDE DEF esp
  <2>2. /\ DOMAIN GeneralRegisters = 1 .. 8
        /\ \A n \in 1 .. 8 : /\ GeneralRegisters[n] = registers_t[n]
                             /\ n # 4 => GeneralRegisters[n] # "original_esp"
                             /\ n # 4 => GeneralRegisters[n] \in RegisterNames
    BY Words, GeneralWords, Places, Names
  <2>3. general = [n \in 1 .. 8 |->
                     IF GeneralRegisters[n] = "original_esp" THEN esp
                     ELSE cpu[GeneralRegisters[n]]]
    BY <2>2 DEF esp
  <2>4. \A n \in 1 .. 8 : general[n] \in Int
    <3>1. GeneralRegisters[4] = "original_esp"
      BY GeneralWords, <2>2
    <3>2. cpu \in [RegisterNames -> Int]
      BY <1>2 DEF RegisterSets
    <3> QED
      BY <2>1, <2>2, <2>3, <3>1, <3>2
  <2> HIDE DEF general
  <2> QED
    BY <2>2, <2>3, <2>4
<1> HIDE DEF general
<1>7. /\ stack' \in Seq(Int) /\ Len(stack') = 10 + Len(off) + Len(stack)
      /\ \A n \in 1 .. 8 : n # 4 => stack'[n] = cpu[registers_t[n]]
      /\ stack'[9] = cpu["es"] /\ stack'[10] = cpu["ds"] /\ stack'[11] = off[1]
      /\ \A n \in 1 .. Len(stack) : stack'[10 + Len(off) + n] = stack[n]
  <2>0. stack' = general \o words
    BY <1>3
  <2>1. /\ stack' \in Seq(Int) /\ Len(stack') = Len(general) + Len(words)
        /\ \A n \in 1 .. Len(general) : stack'[n] = general[n]
        /\ \A n \in 1 .. Len(words) : stack'[Len(general) + n] = words[n]
    BY <1>5, <1>6, <2>0, Joined, ZenonT(30)
  <2>2. Len(stack) \in Nat /\ Len(off) \in Nat
    BY <1>l
  <2>3. Len(words) >= 3
    BY <1>5, <1>l
  <2>4. \A n \in 1 .. Len(stack) : 2 + Len(off) + n \in 1 .. Len(words)
    BY <1>5, <2>2
  <2>5. \A n \in 1 .. Len(stack) : stack'[10 + Len(off) + n] = stack[n]
    <3> TAKE n \in 1 .. Len(stack)
    <3>1. Len(general) + (2 + Len(off) + n) = 10 + Len(off) + n
      BY <1>6, <2>2
    <3> QED
      BY <1>5, <2>1, <2>4, <3>1
  <2>6. stack'[9] = words[1] /\ stack'[10] = words[2] /\ stack'[11] = words[3]
    <3>1. {1, 2, 3} \subseteq 1 .. Len(words)
      BY <1>5, <2>2, <2>3
    <3>2. /\ stack'[Len(general) + 1] = words[1]
          /\ stack'[Len(general) + 2] = words[2]
          /\ stack'[Len(general) + 3] = words[3]
      BY <2>1, <3>1
    <3> QED
      BY <1>6, <3>2
  <2>7. Len(stack') = 10 + Len(off) + Len(stack)
    BY <1>5, <1>6, <2>1, <2>2
  <2>8. \A n \in 1 .. 8 : n # 4 => stack'[n] = cpu[registers_t[n]]
    BY <1>6, <2>1
  <2> QED
    BY <1>5, <2>1, <2>5, <2>6, <2>7, <2>8
<1>n. Len(stack') = 10 + Len(off) + Len(stack)
  BY <1>7
<1>8. /\ cpu' \in RegisterSets
      /\ cpu'["cs"] = cpu["cs"] /\ cpu'["ss"] = cpu["ss"]
      /\ cpu'["ds"] = SEGSEL_KERN_DATA /\ cpu'["es"] = SEGSEL_KERN_DATA
      /\ cpu'["eflags"] = cpu["eflags"]
  <2> DEFINE esp == ts_esp0 - 4 * Len(stack')
  <2>1. esp \in Int
    BY <1>l, <1>7, SMT DEF ts_esp0
  <2> HIDE DEF esp
  <2>2. cpu \in [RegisterNames -> Int] /\ SEGSEL_KERN_DATA \in Int
    BY <1>2 DEF RegisterSets, SEGSEL_KERN_DATA
  <2>3. cpu' = [cpu EXCEPT !.eax = SEGSEL_KERN_DATA, !.ds = SEGSEL_KERN_DATA,
                     !.es = SEGSEL_KERN_DATA, !.esp = esp]
    BY <1>3 DEF esp
  <2>4. cpu' \in [RegisterNames -> Int]
    BY <2>1, <2>2, <2>3
  <2>5. /\ cpu'["cs"] = cpu["cs"] /\ cpu'["ss"] = cpu["ss"]
        /\ cpu'["ds"] = SEGSEL_KERN_DATA /\ cpu'["es"] = SEGSEL_KERN_DATA
        /\ cpu'["eflags"] = cpu["eflags"]
    BY <2>2, <2>3, NameFacts
  <2> QED
    BY <2>4, <2>5 DEF RegisterSets
<1>9. Underway(stack', cpu', "interrupt") = Underway(stack, cpu, "entry")
  <2> DEFINE new == Underway(stack', cpu', "interrupt")
             old == Underway(stack, cpu, "entry")
  <2>1. /\ new = [name \in RegisterNames |-> new[name]]
        /\ old = [name \in RegisterNames |-> old[name]]
    BY DEF Underway
  <2> HIDE DEF new, old
  <2>2. ASSUME NEW n \in Kept
        PROVE  new[registers_t[n]] = old[registers_t[n]]
    <3>1. n \in 1 .. 17 /\ n # 4 /\ n \notin {11, 12}
          /\ Len(stack') \in Nat /\ Len(stack) \in Nat
      BY <1>l, <1>7 DEF Kept
    <3>2. /\ n > 12 => new[registers_t[n]] = stack'[Len(stack') - 17 + n]
          /\ n <= 12 => new[registers_t[n]] = stack'[n]
      BY <3>1, InterruptedWords DEF new
    <3>3. /\ n > 12 => old[registers_t[n]] = stack[Len(stack) - 17 + n]
          /\ n <= 12 => old[registers_t[n]] = cpu[registers_t[n]]
      BY <3>1, InterruptedWords DEF old
    <3>4. CASE n > 12
      <4> DEFINE k == Len(stack) - 17 + n
      <4>1. n \in 13 .. 17
        BY <3>1, <3>4
      <4>2. k \in 1 .. Len(stack)
        BY <1>l, <4>1
      <4>3. Len(stack') - 17 + n = 10 + Len(off) + k
        BY <1>l, <1>n, <4>1
      <4> HIDE DEF k
      <4>4. stack'[10 + Len(off) + k] = stack[k]
        BY <1>7, <4>2
      <4> QED
        BY <3>2, <3>3, <3>4, <4>3, <4>4 DEF k
    <3>5. CASE n <= 8
      <4>0. n \in 1 .. 8
        BY <3>1, <3>5
      <4>1. stack'[n] = cpu[registers_t[n]]
        BY <1>7, <3>1, <4>0
      <4> QED
        BY <3>1, <3>2, <3>3, <3>5, <4>1
    <3>6. CASE n \in {9, 10}
      <4>1. stack'[n] = cpu[registers_t[n]]
        BY <1>7, <3>6, OtherWords, ZenonT(30)
      <4> QED
        BY <3>1, <3>2, <3>3, <3>6, <4>1
    <3> QED
      BY <3>1, <3>4, <3>5, <3>6
  <2>3. new = old
    BY <2>1, <2>2, SameRegisters
  <2> QED
    BY <2>3 DEF new, old
<1>10. ASSUME NEW p \in Apps
       PROVE  (ContextOf(p))' = ContextOf(p)
  <2>1. /\ (ContextOf(p))' =
             IF p = current THEN Underway(stack', cpu', "interrupt")
             ELSE Saved(p_registers[p])
        /\ ContextOf(p) =
             IF p = current THEN Underway(stack, cpu, "entry")
             ELSE Saved(p_registers[p])
    <3>1. /\ (ContextOf(p))' =
               ContextIn(p, at', cpu', stack', p_registers'[p], current')
          /\ ContextOf(p) = ContextIn(p, at, cpu, stack, p_registers[p], current)
      BY DEF ContextOf, ContextIn, Interrupted, Underway, Saved
    <3> QED
      BY <1>1, <3>1 DEF ContextIn
  <2> QED
    BY <1>9, <2>1
<1>11. TypeOK'
  <2>1. Len(stack') <= Len(registers_t)
    <3>1. vector \in Numbered => ~ HasErrorCode(vector)
      BY DEF Numbered, HasErrorCode, INT_CLOCK, INT_HARDWARE, INT_SYS_YIELD
    <3> QED
      BY <1>2, <1>4, <1>n, <3>1, Words
  <2> QED
    BY <1>1, <1>7, <1>8, <2>1 DEF MachineInv, TypeOK
<1>12. /\ Len(stack') =
            IF vector \in Numbered \/ HasErrorCode(vector) THEN 17 ELSE 16
       /\ stack'[11] = IF vector \in Numbered THEN vector ELSE 0
  <2>1. vector \in Numbered => ~ HasErrorCode(vector)
    BY DEF Numbered, HasErrorCode, INT_CLOCK, INT_HARDWARE, INT_SYS_YIELD
  <2>2. stack'[11] = off[1]
    BY <1>7
  <2> QED
    BY <1>2, <1>4, <1>n, <2>1, <2>2
<1>13. ForKernel(cpu') /\ (~ Interruptible)'
  BY <1>1, <1>2, <1>8 DEF ForKernel, MachineInv, Interruptible
<1>14. writes' = <<>> /\ current' \in Apps
  BY <1>1 DEF MachineInv
<1>15. (\A p \in Apps : ForApp(ContextOf(p)))'
  <2>1. Apps' = Apps
    BY DEF Apps
  <2> QED
    BY <1>1, <1>10 DEF MachineInv
<1> QED
  BY <1>1, <1>10, <1>11, <1>12, <1>13, <1>14, <1>15 DEF MachineInv

(* interrupt() reads the stack as registers_t from its top.                *)
LEMMA FrameWords ==
  ASSUME MachineInv
  PROVE  /\ Frame \in [DOMAIN registers_t -> Int]
         /\ \A n \in 1 .. 17 : n <= Len(stack) => Frame[n] = stack[n]
         /\ Reg(Frame, "intno") = Frame[11]
<1>1. stack \in Seq(Int) /\ Unknown \in Int
  BY DEF MachineInv, TypeOK, Unknown
<1>2. DOMAIN registers_t = 1 .. 17 /\ Place(registers_t, "intno") = 11
  BY Words, OtherWords, Places
<1> QED
  BY <1>1, <1>2 DEF Frame, Reg

(* The number interrupt() reads: only the entry points that push one are   *)
(* taken for the clock or a system call.                                   *)
LEMMA NumberRead ==
  ASSUME MachineInv, at = "interrupt"
  PROVE  Reg(Frame, "intno") = IF vector \in Numbered THEN vector ELSE 0
<1>1. Len(stack) \in 16 .. 17
  BY DEF MachineInv
<1>2. Reg(Frame, "intno") = stack[11]
  BY <1>1, FrameWords
<1> QED
  BY <1>2 DEF MachineInv

(* interrupt()                                                             *)
LEMMA InterruptKeeps ==
  ASSUME MachineInv, Interrupt
  PROVE  MachineInv' /\ \A p \in Apps : (ContextOf(p))' = ContextOf(p)
<1> DEFINE intno == Reg(Frame, "intno")
           handled == {INT_CLOCK} \cup INT_SYS_YIELD .. INT_SYS_SET_LOTTERY
<1>1. /\ at = "interrupt" /\ at' = IF intno \in handled THEN "schedule" ELSE "hang"
      /\ p_registers' = [p_registers EXCEPT ![current] = Frame]
      /\ runnable' \subseteq runnable
      /\ UNCHANGED <<cpu, stack, vector, current, writes>>
  BY DEF Interrupt, machineVars, deviceVars
<1>2. /\ current \in Apps /\ runnable \subseteq Apps
      /\ p_registers \in [Apps -> [DOMAIN registers_t -> Int]]
      /\ stack \in Seq(Int)
  BY <1>1 DEF MachineInv, TypeOK
<1>3. intno \in handled => Len(stack) = 17
  <2>1. intno \in handled => vector \in Numbered
    BY <1>1, NumberRead
       DEF Numbered, INT_CLOCK, INT_HARDWARE, INT_SYS_YIELD, INT_SYS_SET_LOTTERY
  <2> QED
    BY <1>1, <2>1 DEF MachineInv
<1> HIDE DEF intno, handled
<1>4. Frame \in [DOMAIN registers_t -> Int]
  BY FrameWords
<1>5. TypeOK'
  <2>1. p_registers' \in [Apps -> [DOMAIN registers_t -> Int]]
    BY <1>1, <1>2, <1>4
  <2> QED
    BY <1>1, <1>2, <2>1 DEF MachineInv, TypeOK
<1>o. \A n \in Kept :
        LET word == Underway(stack, cpu, "interrupt")[registers_t[n]]
        IN  /\ n > 12 => word = stack[Len(stack) - 17 + n]
            /\ n <= 12 => word = stack[n]
  <2>1. Len(stack) \in Nat
    BY <1>2
  <2> QED
    BY <2>1, InterruptedWords
<1>6. intno \in handled => Saved(Frame) = Underway(stack, cpu, "interrupt")
  <2> DEFINE new == Saved(Frame)
             old == Underway(stack, cpu, "interrupt")
  <2> SUFFICES ASSUME Len(stack) = 17
               PROVE  new = old
    BY <1>3
  <2>1. /\ new = [name \in RegisterNames |-> new[name]]
        /\ old = [name \in RegisterNames |-> old[name]]
    BY DEF Underway, Saved
  <2> HIDE DEF new, old
  <2>2. ASSUME NEW n \in Kept
        PROVE  new[registers_t[n]] = old[registers_t[n]]
    <3>1. n \in 1 .. 17 /\ Len(stack) \in Nat /\ Len(stack) - 17 + n = n
      BY DEF Kept
    <3>2. new[registers_t[n]] = stack[n]
      BY <3>1, SavedWords, FrameWords DEF new
    <3>3. /\ n > 12 => old[registers_t[n]] = stack[Len(stack) - 17 + n]
          /\ n <= 12 => old[registers_t[n]] = stack[n]
      BY <1>o DEF old
    <3> QED
      BY <3>1, <3>2, <3>3
  <2> QED
    BY <2>1, <2>2, SameRegisters
<1>7. Underway(stack, cpu, "hang") = Underway(stack, cpu, "interrupt")
  BY DEF Underway
<1>8. ASSUME NEW p \in Apps
      PROVE  (ContextOf(p))' = ContextOf(p)
  <2>1. /\ (ContextOf(p))' =
             ContextIn(p, at', cpu', stack', p_registers'[p], current')
        /\ ContextOf(p) = ContextIn(p, at, cpu, stack, p_registers[p], current)
    BY DEF ContextOf, ContextIn, Interrupted, Underway, Saved
  <2>2. p_registers'[p] = IF p = current THEN Frame ELSE p_registers[p]
    BY <1>1, <1>2
  <2> QED
    BY <1>1, <1>6, <1>7, <2>1, <2>2 DEF ContextIn
<1>9. (\A p \in Apps : ForApp(ContextOf(p)))'
  BY <1>1, <1>8 DEF MachineInv
<1>10. at' \in {"schedule", "hang"} /\ (~ Interruptible)' /\ ForKernel(cpu')
  BY <1>1 DEF MachineInv, Interruptible
<1> QED
  BY <1>1, <1>2, <1>5, <1>8, <1>9, <1>10 DEF MachineInv

(* schedule(), spinning and requests change nothing that matters here.     *)
LEMMA ScheduleKeeps ==
  ASSUME MachineInv,
         UNCHANGED <<machineVars, processVars, writes>>,
         at' = at \/ (at = "schedule" /\ at' \in {"search", "run"})
  PROVE  MachineInv' /\ \A p \in Apps : (ContextOf(p))' = ContextOf(p)
<1>1. UNCHANGED <<cpu, stack, vector, p_registers, runnable, current, writes>>
  BY DEF machineVars, processVars
<1>2. ASSUME NEW p \in Apps
      PROVE  (ContextOf(p))' = ContextOf(p)
  <2>1. /\ (ContextOf(p))' =
             ContextIn(p, at', cpu', stack', p_registers'[p], current')
        /\ ContextOf(p) = ContextIn(p, at, cpu, stack, p_registers[p], current)
    BY DEF ContextOf, ContextIn, Interrupted, Underway, Saved
  <2> QED
    BY <1>1, <2>1 DEF ContextIn
<1>3. TypeOK'
  BY <1>1 DEF MachineInv, TypeOK
<1>4. (Interruptible)' = Interruptible
  BY <1>1 DEF Interruptible
<1>5. at # "devices" => (\A p \in Apps : ForApp(ContextOf(p)))'
  BY <1>2 DEF MachineInv
<1>6. CASE at' = at
  BY <1>1, <1>2, <1>3, <1>4, <1>5, <1>6 DEF MachineInv
<1>7. CASE at = "schedule" /\ at' \in {"search", "run"}
  BY <1>1, <1>2, <1>3, <1>4, <1>5, <1>7 DEF MachineInv
<1> QED
  BY <1>6, <1>7

(* run()                                                                   *)
LEMMA RunKeeps ==
  ASSUME MachineInv, NEW p \in Apps, Run(p)
  PROVE  MachineInv' /\ \A q \in Apps : (ContextOf(q))' = ContextOf(q)
<1>1. /\ at = "run" /\ at' = "app" /\ p \in runnable /\ current' = p
      /\ cpu' = Restored(p_registers[p])
      /\ UNCHANGED <<stack, vector, p_registers, runnable, writes>>
  BY DEF Run, Restored, deviceVars
<1>2. p_registers[p] \in [DOMAIN registers_t -> Int]
  BY DEF MachineInv, TypeOK
<1>3. cpu' = Saved(p_registers[p])
  <2> DEFINE new == Restored(p_registers[p])
             old == Saved(p_registers[p])
  <2>1. /\ new = [name \in RegisterNames |-> new[name]]
        /\ old = [name \in RegisterNames |-> old[name]]
    BY DEF Restored, Saved
  <2>2. \A n \in Kept : new[registers_t[n]] = old[registers_t[n]]
    BY SavedWords
  <2> HIDE DEF new, old
  <2>3. new = old
    BY <2>1, <2>2, SameRegisters
  <2> QED
    BY <1>1, <2>3 DEF new, old
<1>4. cpu' \in RegisterSets
  <2>1. \A n \in Kept : Saved(p_registers[p])[registers_t[n]] \in Int
    BY <1>2, SavedWords, Words DEF Kept
  <2>2. RegisterNames = {registers_t[n] : n \in Kept}
    BY Names DEF Kept
  <2>3. \A name \in RegisterNames : Saved(p_registers[p])[name] \in Int
    BY <2>1, <2>2
  <2>4. Saved(p_registers[p]) =
          [name \in RegisterNames |-> Saved(p_registers[p])[name]]
    BY DEF Saved
  <2> QED
    BY <1>3, <2>3, <2>4 DEF RegisterSets
<1>5. ASSUME NEW q \in Apps
      PROVE  (ContextOf(q))' = ContextOf(q)
  <2>1. /\ (ContextOf(q))' =
             ContextIn(q, at', cpu', stack', p_registers'[q], current')
        /\ ContextOf(q) = ContextIn(q, at, cpu, stack, p_registers[q], current)
    BY DEF ContextOf, ContextIn, Interrupted, Underway, Saved
  <2> QED
    BY <1>1, <1>3, <2>1 DEF ContextIn
<1>6. TypeOK'
  BY <1>1, <1>4 DEF MachineInv, TypeOK, Apps, Pids
<1>7. (\A q \in Apps : ForApp(ContextOf(q)))'
  BY <1>1, <1>5 DEF MachineInv
<1> QED
  BY <1>1, <1>5, <1>6, <1>7 DEF MachineInv

(* start() gives each process its first registers.                         *)
LEMMA CreateKeeps ==
  ASSUME MachineInv, CreateProcesses
  PROVE  MachineInv'
<1>1. /\ at = "devices" /\ at' = "run" /\ writes = <<>> /\ runnable' = Apps
      /\ p_registers' = [p \in Apps |->
           special_registers_init(p, PROC1_START + (p - 1) * PROC_SIZE)]
      /\ UNCHANGED <<cpu, stack, vector, current, writes>>
  BY DEF CreateProcesses, machineVars, deviceVars
<1>2. ASSUME NEW p \in Apps
      PROVE  /\ p_registers'[p] \in [DOMAIN registers_t -> Int]
             /\ p_registers'[p][14] = SEGSEL_APP_CODE + 3
             /\ p_registers'[p][10] = SEGSEL_APP_DATA + 3
             /\ p_registers'[p][9] = SEGSEL_APP_DATA + 3
             /\ p_registers'[p][17] = SEGSEL_APP_DATA + 3
             /\ p_registers'[p][15] = EFLAGS_IF
  <2> DEFINE entry == PROC1_START + (p - 1) * PROC_SIZE
             top == PROC1_START + p * PROC_SIZE
             first == special_registers_init(p, entry)
  <2>1. entry \in Int /\ top \in Int
    BY NPROCSAssumption, SMT DEF Apps, PROC1_START, PROC_SIZE
  <2>2. p_registers'[p] = first
    BY <1>1
  <2> HIDE DEF entry
  <2>3. first = [n \in 1 .. 17 |->
          CASE registers_t[n] = "cs" -> SEGSEL_APP_CODE + 3
            [] registers_t[n] \in {"ds", "es", "ss"} -> SEGSEL_APP_DATA + 3
            [] registers_t[n] = "eflags" -> EFLAGS_IF
            [] registers_t[n] = "esp" -> top
            [] registers_t[n] = "eip" -> entry
            [] OTHER -> 0]
    BY Words, Zenon DEF special_registers_init
  <2> HIDE DEF first, top
  <2>4. /\ first[14] = SEGSEL_APP_CODE + 3
        /\ first[10] = SEGSEL_APP_DATA + 3
        /\ first[9] = SEGSEL_APP_DATA + 3
        /\ first[17] = SEGSEL_APP_DATA + 3
        /\ first[15] = EFLAGS_IF
    BY <2>3, OtherWords
  <2>5. /\ first[16] = top /\ first[13] = entry /\ first[12] = 0 /\ first[11] = 0
    BY <2>3, OtherWords
  <2>6. \A n \in 1 .. 8 : first[n] = 0
    <3>1. \A n \in 1 .. 8 :
            registers_t[n] \notin {"cs", "ds", "es", "ss", "eflags", "esp", "eip"}
      BY GeneralWords
    <3> QED
      BY <2>3, <3>1
  <2>7. /\ SEGSEL_APP_CODE + 3 \in Int /\ SEGSEL_APP_DATA + 3 \in Int
        /\ EFLAGS_IF \in Int
    BY DEF SEGSEL_APP_CODE, SEGSEL_APP_DATA, EFLAGS_IF
  <2>8. \A n \in 1 .. 17 : first[n] \in Int
    BY <2>1, <2>4, <2>5, <2>6, <2>7
  <2>9. first \in [DOMAIN registers_t -> Int]
    BY <2>3, <2>8, Words
  <2> QED
    BY <2>2, <2>4, <2>9
<1>3. ASSUME NEW p \in Apps
      PROVE  ForApp((ContextOf(p))')
  <2> DEFINE saved == Saved(p_registers'[p])
  <2>1. (ContextOf(p))' = saved
    BY <1>1 DEF ContextOf, Saved
  <2>2. \A n \in Kept : saved[registers_t[n]] = p_registers'[p][n]
    BY SavedWords
  <2> HIDE DEF saved
  <2>3. /\ saved["cs"] = p_registers'[p][14] /\ saved["ds"] = p_registers'[p][10]
        /\ saved["es"] = p_registers'[p][9] /\ saved["ss"] = p_registers'[p][17]
        /\ saved["eflags"] = p_registers'[p][15]
    BY <2>2, SelectorWords
  <2>4. EFLAGS_IF \in Int
    BY DEF EFLAGS_IF
  <2> QED
    BY <1>2, <2>1, <2>3, <2>4, FlagCleared DEF ForApp
<1>4. TypeOK'
  <2>1. p_registers' \in [Apps -> [DOMAIN registers_t -> Int]]
    BY <1>1, <1>2
  <2> QED
    BY <1>1, <2>1 DEF MachineInv, TypeOK
<1>5. ForKernel(cpu') /\ (~ Interruptible)'
  BY <1>1 DEF MachineInv, Interruptible
<1>6. (\A p \in Apps : ForApp(ContextOf(p)))'
  BY <1>3
<1> QED
  BY <1>1, <1>4, <1>5, <1>6 DEF MachineInv

(* An application computes.                                                *)
LEMMA ComputeKeeps ==
  ASSUME MachineInv, NEW k \in {1, 2}, Compute(k)
  PROVE  /\ MachineInv'
         /\ \A p \in Apps : p # current => (ContextOf(p))' = ContextOf(p)
<1>1. /\ at = "app" /\ at' = "app"
      /\ UNCHANGED <<stack, vector, p_registers, runnable, current, writes>>
  BY DEF Compute, processVars, deviceVars
<1>2. cpu \in [RegisterNames -> Int] /\ ForApp(cpu) /\ current \in Apps
  BY <1>1 DEF MachineInv, TypeOK, RegisterSets, ContextOf
<1>3. current \in Int
  BY <1>2, NPROCSAssumption DEF Apps
<1> DEFINE general(name) == 100 * current + 10 * k + Place(GeneralRegisters, name)
           esp == PROC1_START + current * PROC_SIZE - 4 * k
           eip == PROC1_START + (current - 1) * PROC_SIZE + k
<1>4. cpu' = [name \in RegisterNames |->
       CASE name \in Range(GeneralRegisters) -> general(name)
         [] name = "esp" -> esp
         [] name = "eip" -> eip
         [] name = "eflags" -> EFLAGS_IF + k
         [] OTHER -> cpu[name]]
  BY DEF Compute
<1>5. \A name \in Range(GeneralRegisters) : general(name) \in Int
  <2>1. \A n \in 1 .. 8 : Place(GeneralRegisters, registers_t[n]) = n
    BY Places
  <2>2. \A name \in Range(GeneralRegisters) : Place(GeneralRegisters, name) \in Int
    BY <2>1, Names
  <2> QED
    BY <1>3, <2>2
<1>6. esp \in Int /\ eip \in Int
  BY <1>3, SMT DEF PROC1_START, PROC_SIZE
<1> HIDE DEF general, esp, eip
<1>7. Range(GeneralRegisters) =
        {"edi", "esi", "ebp", "original_esp", "ebx", "edx", "ecx", "eax"}
  BY DEF Range, GeneralRegisters
<1>8. EFLAGS_IF + k \in Int /\ InterruptFlag(EFLAGS_IF + k)
  BY DEF EFLAGS_IF, InterruptFlag
<1>9. cpu' \in RegisterSets
  <2>1. \A name \in RegisterNames : cpu'[name] \in Int
    BY <1>2, <1>4, <1>5, <1>6, <1>8
  <2> QED
    BY <1>4, <2>1 DEF RegisterSets
<1>10. ForApp(cpu')
  <2>1. /\ cpu'["cs"] = cpu["cs"] /\ cpu'["ds"] = cpu["ds"]
        /\ cpu'["es"] = cpu["es"] /\ cpu'["ss"] = cpu["ss"]
    BY <1>4, <1>7, NameFacts
  <2>2. cpu'["eflags"] = EFLAGS_IF + k
    BY <1>4, <1>7, NameFacts
  <2> QED
    BY <1>2, <1>8, <2>1, <2>2 DEF ForApp
<1>11. ASSUME NEW p \in Apps
       PROVE  (ContextOf(p))' = IF p = current THEN cpu' ELSE ContextOf(p)
  <2>1. /\ (ContextOf(p))' =
             ContextIn(p, at', cpu', stack', p_registers'[p], current')
        /\ ContextOf(p) = ContextIn(p, at, cpu, stack, p_registers[p], current)
    BY DEF ContextOf, ContextIn, Interrupted, Underway, Saved
  <2> QED
    BY <1>1, <2>1 DEF ContextIn
<1>12. (\A p \in Apps : ForApp(ContextOf(p)))'
  BY <1>1, <1>10, <1>11 DEF MachineInv
<1>13. TypeOK'
  BY <1>1, <1>9 DEF MachineInv, TypeOK
<1> QED
  BY <1>1, <1>2, <1>11, <1>12, <1>13 DEF MachineInv

(* An int instruction and an exception are taken as numbers other than the *)
(* clock's, the interrupt of a line as the clock's.                        *)
LEMMA EntryKeeps ==
  ASSUME IInv,
         \/ \E v \in Calls : Call(v)
         \/ \E v \in Exceptions : Exception(v)
         \/ \E line \in Lines : HardwareInterrupt(line)
  PROVE  /\ IInv'
         /\ \A p \in Apps : (ContextOf(p))' = ContextOf(p)
         /\ at = "app" /\ at' = "entry" /\ UNCHANGED current
         /\ vector' = INT_CLOCK <=> 0 \in requests \ requests'
<1>1. ASSUME at = "app", NEW v \in 0 .. 255, NEW code \in Seq(Int),
             Len(code) = IF HasErrorCode(v) THEN 1 ELSE 0,
             Take(v, code), UNCHANGED deviceVars, v # INT_CLOCK
      PROVE  /\ IInv'
             /\ \A p \in Apps : (ContextOf(p))' = ContextOf(p)
             /\ at = "app" /\ at' = "entry" /\ UNCHANGED current
             /\ vector' = INT_CLOCK <=> 0 \in requests \ requests'
  <2>1. UNCHANGED <<allow_clock_interrupt, writes, pics, timer, requests>>
    BY <1>1 DEF deviceVars
  <2>2. DevicesInv'
    <3>1. Made' = Made
      BY <2>1 DEF Made
    <3> QED
      BY <2>1, <3>1 DEF IInv, DevicesInv, BytesLeft
  <2>3. MachineInv' /\ \A p \in Apps : (ContextOf(p))' = ContextOf(p)
    BY <1>1, <2>1, TakeKeeps DEF IInv
  <2>4. at' = "entry" /\ UNCHANGED current /\ vector' = v
    BY <1>1 DEF Take, processVars
  <2> QED
    BY <1>1, <2>1, <2>2, <2>3, <2>4 DEF IInv
<1>2. ASSUME at = "app", NEW v \in 0 .. 255, NEW code \in Int,
             Raise(v, code), UNCHANGED deviceVars, v # INT_CLOCK
      PROVE  /\ IInv'
             /\ \A p \in Apps : (ContextOf(p))' = ContextOf(p)
             /\ at = "app" /\ at' = "entry" /\ UNCHANGED current
             /\ vector' = INT_CLOCK <=> 0 \in requests \ requests'
  <2>1. CASE HasErrorCode(v)
    <3>1. Take(v, <<code>>) /\ <<code>> \in Seq(Int) /\ Len(<<code>>) = 1
      BY <1>2, <2>1 DEF Raise
    <3> DEFINE words == <<code>>
    <3> HIDE DEF words
    <3>2. Take(v, words) /\ words \in Seq(Int) /\ Len(words) = 1
      BY <3>1 DEF words
    <3> QED
      BY <1>1, <1>2, <2>1, <3>2
  <2>2. CASE ~ HasErrorCode(v)
    <3>0. Take(v, <<>>) /\ <<>> \in Seq(Int) /\ Len(<<>>) = 0
      BY <1>2, <2>2 DEF Raise
    <3>1. PICK none \in Seq(Int) : Take(v, none) /\ Len(none) = 0
      BY <3>0
    <3> QED
      BY <1>1, <1>2, <2>2, <3>1
  <2> QED
    BY <2>1, <2>2
<1>3. ASSUME NEW v \in Calls, Call(v)
      PROVE  /\ IInv'
             /\ \A p \in Apps : (ContextOf(p))' = ContextOf(p)
             /\ at = "app" /\ at' = "entry" /\ UNCHANGED current
             /\ vector' = INT_CLOCK <=> 0 \in requests \ requests'
  <2>1. v \in 0 .. 255 /\ at = "app" /\ UNCHANGED deviceVars
    BY <1>3, InterruptsAssumption DEF Call
  <2>2. CPL = 3
    <3>1. ForApp(cpu)
      BY <2>1 DEF IInv, MachineInv, TypeOK, ContextOf
    <3> QED
      BY <3>1 DEF ForApp, CPL, RPL, SEGSEL_APP_CODE
  <2>3. CASE v \in INT_SYS_YIELD .. INT_SYS_YIELD + 9
    <3>1. Gate(v).dpl = 3
      BY <2>3, Gates
    <3>0. Take(v, <<>>) /\ <<>> \in Seq(Int) /\ Len(<<>>) = 0
      BY <1>3, <2>2, <3>1 DEF Call
    <3>2. PICK none \in Seq(Int) : Take(v, none) /\ Len(none) = 0
      BY <3>0
    <3>3. v # INT_CLOCK /\ ~ HasErrorCode(v)
      BY <2>3 DEF INT_CLOCK, INT_HARDWARE, INT_SYS_YIELD, HasErrorCode
    <3> QED
      BY <1>1, <2>1, <3>2, <3>3
  <2>4. CASE v \notin INT_SYS_YIELD .. INT_SYS_YIELD + 9
    <3>0. Gate(v).dpl = 0
      BY <2>4, Gates
    <3>1. Raise(GeneralProtection, 8 * v + 2)
      BY <1>3, <2>2, <3>0 DEF Call
    <3>2. /\ GeneralProtection \in 0 .. 255 /\ GeneralProtection # INT_CLOCK
          /\ 8 * v + 2 \in Int
      BY <2>1 DEF GeneralProtection, INT_CLOCK, INT_HARDWARE
    <3> QED
      BY <1>2, <2>1, <3>1, <3>2
  <2> QED
    BY <2>3, <2>4
<1>4. ASSUME NEW v \in Exceptions, Exception(v)
      PROVE  /\ IInv'
             /\ \A p \in Apps : (ContextOf(p))' = ContextOf(p)
             /\ at = "app" /\ at' = "entry" /\ UNCHANGED current
             /\ vector' = INT_CLOCK <=> 0 \in requests \ requests'
  <2>1. v \in 0 .. 255 /\ v # INT_CLOCK /\ 0 \in Int
    BY InterruptsAssumption DEF INT_CLOCK, INT_HARDWARE
  <2>2. at = "app" /\ Raise(v, 0) /\ UNCHANGED deviceVars
    BY <1>4 DEF Exception
  <2> QED
    BY <1>2, <2>1, <2>2
<1>5. ASSUME NEW line \in Lines, HardwareInterrupt(line)
      PROVE  /\ IInv'
             /\ \A p \in Apps : (ContextOf(p))' = ContextOf(p)
             /\ at = "app" /\ at' = "entry" /\ UNCHANGED current
             /\ vector' = INT_CLOCK <=> 0 \in requests \ requests'
  <2>1. /\ at = "app" /\ writes = <<>>
    BY <1>5 DEF HardwareInterrupt, IInv, MachineInv
  <2>2. /\ Acknowledge(line) /\ Take(VectorOf(line), <<>>)
        /\ Unmasked(line) /\ line \in requests
        /\ requests' = requests \ {line} /\ writes' = writes
    BY <1>5 DEF HardwareInterrupt, Acknowledge, Pending
  <2>3. line = 0 /\ VectorOf(line) = INT_CLOCK
    <3>1. line \in 0 .. 15
      BY LinesAssumption
    <3> QED
      BY <2>1, <2>2, <3>1, OnlyTheClock DEF IInv
  <2>4. DevicesInv'
    BY <2>2, RequestKeepsDevices DEF IInv
  <2>5. /\ INT_CLOCK \in 0 .. 255 /\ ~ HasErrorCode(INT_CLOCK)
        /\ <<>> \in Seq(Int) /\ Len(<<>>) = 0
    BY DEF INT_CLOCK, INT_HARDWARE, HasErrorCode
  <2>6. MachineInv' /\ \A p \in Apps : (ContextOf(p))' = ContextOf(p)
    <3>1. PICK v \in 0 .. 255, code \in Seq(Int) :
            Take(v, code) /\ Len(code) = 0 /\ ~ HasErrorCode(v)
      BY <2>2, <2>3, <2>5
    <3> QED
      BY <2>1, <2>2, <3>1, TakeKeeps DEF IInv
  <2>7. at' = "entry" /\ UNCHANGED current /\ vector' = INT_CLOCK
    BY <2>2, <2>3 DEF Take, processVars
  <2> QED
    BY <2>1, <2>2, <2>3, <2>4, <2>6, <2>7 DEF IInv
<1> QED
  BY <1>3, <1>4, <1>5

-----------------------------------------------------------------------------

(* Every step keeps the invariant: one case per action.                    *)
LEMMA NextKeeps ==
  ASSUME IInv, [Next]_vars
  PROVE  IInv'
<1>d. UNCHANGED deviceVars => DevicesInv'
  <2> SUFFICES ASSUME UNCHANGED deviceVars PROVE DevicesInv'
    OBVIOUS
  <2>1. UNCHANGED <<allow_clock_interrupt, writes, pics, timer>>
    BY DEF deviceVars
  <2>2. Made' = Made
    BY <2>1 DEF Made
  <2> QED
    BY <2>1, <2>2 DEF IInv, DevicesInv, BytesLeft
<1>1. CASE ProgramDevices
  <2>1. DevicesInv'
    BY <1>1, OutBKeepsDevices DEF ProgramDevices, IInv
  <2>2. at = "devices"
        /\ UNCHANGED <<at, cpu, stack, vector, p_registers, runnable, current>>
    BY <1>1 DEF ProgramDevices, machineVars, processVars
  <2>3. MachineInv'
    BY <2>2 DEF IInv, MachineInv, TypeOK, Interruptible
  <2> QED
    BY <2>1, <2>3 DEF IInv
<1>2. CASE CreateProcesses
  BY <1>2, <1>d, CreateKeeps DEF CreateProcesses, IInv
<1>3. ASSUME NEW k \in {1, 2}, Compute(k)
      PROVE  IInv'
  BY <1>3, <1>d, ComputeKeeps DEF Compute, IInv
<1>4. CASE \/ \E v \in Calls : Call(v)
           \/ \E v \in Exceptions : Exception(v)
           \/ \E line \in Lines : HardwareInterrupt(line)
  BY <1>4, EntryKeeps
<1>5. CASE GenericIntHandler
  BY <1>5, <1>d, HandlerKeeps DEF GenericIntHandler, IInv
<1>6. CASE Interrupt
  BY <1>6, <1>d, InterruptKeeps DEF Interrupt, IInv
<1>7. CASE Schedule
  <2>1. UNCHANGED writes
    BY <1>7 DEF Schedule, deviceVars
  <2> QED
    BY <1>7, <1>d, <2>1, ScheduleKeeps DEF Schedule, IInv
<1>8. ASSUME NEW p \in Apps, Run(p)
      PROVE  IInv'
  BY <1>8, <1>d, RunKeeps DEF Run, IInv
<1>9. CASE Spin \/ UNCHANGED vars
  <2>1. UNCHANGED <<at, machineVars, processVars, deviceVars>> /\ UNCHANGED writes
    BY <1>9 DEF Spin, vars, deviceVars
  <2> QED
    BY <1>d, <2>1, ScheduleKeeps DEF IInv
<1>10. ASSUME NEW line \in Lines, DeviceRequest(line)
       PROVE  IInv'
  <2>1. Request(line) /\ UNCHANGED <<at, machineVars, processVars>> /\ UNCHANGED writes
    BY <1>10 DEF DeviceRequest, Request
  <2> QED
    BY <2>1, RequestKeepsDevices, ScheduleKeeps DEF IInv
<1> QED
  BY <1>1, <1>2, <1>3, <1>4, <1>5, <1>6, <1>7, <1>8, <1>9, <1>10 DEF Next

(* Every reachable state satisfies it.                                     *)
LEMMA Invariant == Spec => []IInv
<1>1. Init => IInv
  BY MachineInit
<1>2. IInv /\ [Next]_vars => IInv'
  BY NextKeeps
<1> QED
  BY <1>1, <1>2, PTL DEF Spec

(* Every variable holds what it should.                                    *)
THEOREM TypeCorrect == Spec => []TypeOK
<1>1. IInv => TypeOK
  BY DEF IInv, MachineInv
<1> QED
  BY Invariant, <1>1, PTL

(* interrupt() takes nothing but the clock and the system calls for them,  *)
(* whatever the applications execute and cause.                            *)
THEOREM NumberIsRight == Spec => []TrapNumber
<1>1. IInv => TrapNumber
  BY NumberRead DEF IInv, TrapNumber, Numbered
<1> QED
  BY Invariant, <1>1, PTL

(* The segment registers fit the privilege level on every step of the way. *)
THEOREM SegmentsAlwaysFit == Spec => []SegmentsFit
<1>1. IInv => SegmentsFit
  <2> SUFFICES ASSUME IInv PROVE SegmentsFit
    OBVIOUS
  <2> DEFINE IsCode(seg) == seg.type >= STA_X
             IsData(seg) == seg.type < STA_X /\ seg.type % 4 >= STA_W
  <2>1. /\ Fits(SEGSEL_KERN_CODE, IsCode, 0) /\ Fits(SEGSEL_KERN_DATA, IsData, 0)
        /\ Fits(SEGSEL_APP_CODE + 3, IsCode, 3) /\ Fits(SEGSEL_APP_DATA + 3, IsData, 3)
    BY DEF Fits, segments, SegmentOf, SEG, RPL, STA_X, STA_R, STA_W,
           SEGSEL_KERN_CODE, SEGSEL_KERN_DATA, SEGSEL_APP_CODE, SEGSEL_APP_DATA
  <2> HIDE DEF IsCode, IsData
  <2>2. CASE at = "app"
    <3>1. ForApp(cpu)
      BY <2>2 DEF IInv, MachineInv, ContextOf
    <3> QED
      BY <2>1, <2>2, <3>1 DEF ForApp, SegmentsFit, IsCode, IsData
  <2>3. CASE at = "entry"
    BY <2>1, <2>3 DEF IInv, MachineInv, SegmentsFit, IsCode, IsData
  <2>4. CASE at \notin {"app", "entry"}
    <3>1. ForKernel(cpu)
      BY <2>4 DEF IInv, MachineInv
    <3> QED
      BY <2>1, <2>4, <3>1 DEF ForKernel, SegmentsFit, IsCode, IsData
  <2> QED
    BY <2>2, <2>3, <2>4
<1> QED
  BY Invariant, <1>1, PTL

(* No application runs before the devices are programmed as they should.   *)
THEOREM ControllerIsReady == Spec => []ControllerReady
<1>1. IInv => ControllerReady
  <2> SUFFICES ASSUME IInv, at = "app" PROVE ControllerReady
    BY DEF ControllerReady
  <2>1. DevicesInv /\ writes = <<>>
    BY DEF IInv, MachineInv
  <2>2. /\ {line \in 0 .. 15 : Unmasked(line)} =
             IF allow_clock_interrupt THEN {0} ELSE {}
        /\ VectorOf(0) = INT_CLOCK
    BY <2>1, OnlyTheClock
  <2>3. ASSUME allow_clock_interrupt
        PROVE  timer[1] = 52 /\ timer[2] = 142 /\ timer[3] = 1
    <3>1. allow_clock_interrupt \in BOOLEAN
      BY <2>1 DEF DevicesInv, BytesLeft
    <3>2. Made = 19
      <4>1. Len(Writes(allow_clock_interrupt)) = 19
        BY <2>3, <3>1, Bytes, ZenonT(30)
      <4>2. Len(writes) = 0
        BY <2>1
      <4> QED
        BY <4>1, <4>2 DEF Made
    <3> QED
      BY <2>1, <3>2 DEF DevicesInv
  <2>4. LET count == 142 + 256 * 1
        IN  2 * count * HZ - 2 * TIMER_FREQ \in -HZ .. HZ
    BY SMT DEF HZ, TIMER_FREQ
  <2> QED
    BY <2>2, <2>3, <2>4, SMT DEF ControllerReady
<1> QED
  BY Invariant, <1>1, PTL

(* The kernel is entered from applications only, and as the clock for the  *)
(* clock only.                                                             *)
THEOREM EnteredFromApplications == Spec => KernelEntered
<1> DEFINE Entered == at' = "entry" /\ stack' # stack =>
                        /\ at = "app"
                        /\ vector' = INT_CLOCK <=> 0 \in requests \ requests'
<1>1. ASSUME IInv, [Next]_vars
      PROVE  [Entered]_vars
  <2> SUFFICES ASSUME at' = "entry", stack' # stack, Next
               PROVE  /\ at = "app"
                      /\ vector' = INT_CLOCK <=> 0 \in requests \ requests'
    BY <1>1 DEF vars, machineVars
  <2>1. CASE \/ \E v \in Calls : Call(v)
             \/ \E v \in Exceptions : Exception(v)
             \/ \E line \in Lines : HardwareInterrupt(line)
    BY <1>1, <2>1, EntryKeeps
  <2>2. CASE \/ ProgramDevices \/ CreateProcesses \/ \E k \in {1, 2} : Compute(k)
             \/ Interrupt \/ Schedule \/ \E p \in Apps : Run(p)
             \/ Spin \/ \E line \in Lines : DeviceRequest(line)
    BY <2>2 DEF ProgramDevices, CreateProcesses, Compute, Interrupt, Schedule, Run,
                Spin, DeviceRequest, machineVars, vars
  <2>3. CASE GenericIntHandler
    BY <2>3 DEF GenericIntHandler
  <2> QED
    BY <2>1, <2>2, <2>3 DEF Next
<1> QED
  BY Invariant, <1>1, PTL DEF Spec, KernelEntered

-----------------------------------------------------------------------------

(* A descriptor's words make a register set.                               *)
LEMMA SavedType ==
  ASSUME NEW words \in [DOMAIN registers_t -> Int]
  PROVE  Saved(words) \in RegisterSets
<1>1. \A n \in Kept : Saved(words)[registers_t[n]] \in Int
  BY SavedWords, Words DEF Kept
<1>2. RegisterNames = {registers_t[n] : n \in Kept}
  BY Names DEF Kept
<1>3. \A name \in RegisterNames : Saved(words)[name] \in Int
  BY <1>1, <1>2
<1>4. Saved(words) = [name \in RegisterNames |-> Saved(words)[name]]
  BY DEF Saved
<1> QED
  BY <1>3, <1>4 DEF RegisterSets

(* Every step of the way into the kernel and out of it is one that         *)
(* Contexts allows: each application keeps its registers.                  *)
THEOREM ContextsAreKept == Spec => ImplementsContexts
<1> DEFINE regs == [p \in Apps |-> ContextOf(p)]
           mode == IF at = "app" THEN "app" ELSE "kernel"
<1>1. Init => C!Init
  <2> SUFFICES ASSUME Init PROVE C!Init
    OBVIOUS
  <2>1. at = "devices" /\ current = 0 /\ TypeOK
    BY MachineInit DEF IInv, MachineInv, Init
  <2>2. ASSUME NEW p \in Apps
        PROVE  ContextOf(p) \in RegisterSets
    <3>1. ContextOf(p) = Saved(p_registers[p])
      BY <2>1 DEF ContextOf, Saved
    <3> QED
      BY <2>1, <3>1, SavedType DEF TypeOK
  <2> QED
    BY <2>1, <2>2 DEF C!Init, C!Apps, Apps
<1>2. ASSUME IInv, IInv', [Next]_vars
      PROVE  [C!Next]_C!vars
  <2>1. ASSUME \A p \in Apps : (ContextOf(p))' = ContextOf(p)
        PROVE  regs' = regs
    BY <2>1
  <2>2. ASSUME regs' = regs, current' = current,
               at' = "app" <=> at = "app"
        PROVE  UNCHANGED C!vars
    BY <2>2 DEF C!vars
  <2>3. CASE ProgramDevices
    <3>1. UNCHANGED <<at, cpu, stack, vector, p_registers, runnable, current>>
      BY <2>3 DEF ProgramDevices, machineVars, processVars
    <3>2. \A p \in Apps : (ContextOf(p))' = ContextOf(p)
      BY <3>1 DEF ContextOf, Interrupted
    <3> QED
      BY <2>1, <2>2, <3>1, <3>2
  <2>4. CASE CreateProcesses
    <3>1. /\ at = "devices" /\ at' = "run" /\ current' = current /\ current = 0
      BY <1>2, <2>4 DEF CreateProcesses, IInv, MachineInv
    <3>2. ASSUME NEW p \in Apps
          PROVE  (ContextOf(p))' \in RegisterSets
      <4>1. (ContextOf(p))' = Saved(p_registers'[p])
        BY <3>1 DEF ContextOf, Saved
      <4>2. p_registers'[p] \in [DOMAIN registers_t -> Int]
        BY <1>2 DEF IInv, MachineInv, TypeOK
      <4> QED
        BY <4>1, <4>2, SavedType
    <3>3. regs' \in [Apps -> RegisterSets]
      BY <3>2
    <3>4. C!Create
      BY <3>1, <3>3 DEF C!Create, C!Apps, Apps
    <3> QED
      BY <3>4 DEF C!Next
  <2>5. ASSUME NEW k \in {1, 2}, Compute(k)
        PROVE  C!Next
    <3>1. /\ at = "app" /\ at' = "app" /\ current' = current /\ current \in Apps
      BY <1>2, <2>5 DEF Compute, processVars, IInv, MachineInv
    <3>2. \A p \in Apps : p # current => (ContextOf(p))' = ContextOf(p)
      BY <1>2, <2>5, ComputeKeeps DEF IInv
    <3>3. PICK m \in Apps : m = current
      BY <3>1
    <3>4. (ContextOf(m))' \in RegisterSets
      <4>1. (ContextOf(m))' = cpu'
        BY <3>1, <3>3 DEF ContextOf
      <4> QED
        BY <1>2, <4>1 DEF IInv, MachineInv, TypeOK
    <3>5. /\ regs'[m] \in RegisterSets
          /\ regs' = [regs EXCEPT ![m] = regs'[m]]
      BY <3>2, <3>3, <3>4
    <3> HIDE DEF regs
    <3>6. C!Work
      BY <3>1, <3>3, <3>5 DEF C!Work, regs
    <3> QED
      BY <3>6 DEF C!Next
  <2>6. CASE \/ \E v \in Calls : Call(v)
             \/ \E v \in Exceptions : Exception(v)
             \/ \E line \in Lines : HardwareInterrupt(line)
    <3>1. /\ \A p \in Apps : (ContextOf(p))' = ContextOf(p)
          /\ at = "app" /\ at' = "entry" /\ UNCHANGED current
      BY <1>2, <2>6, EntryKeeps
    <3>2. C!Enter
      BY <3>1 DEF C!Enter
    <3> QED
      BY <3>2 DEF C!Next
  <2>7. CASE GenericIntHandler
    <3>1. \A p \in Apps : (ContextOf(p))' = ContextOf(p)
      BY <1>2, <2>7, HandlerKeeps DEF IInv
    <3>2. current' = current /\ at = "entry" /\ at' = "interrupt"
      BY <2>7 DEF GenericIntHandler, processVars
    <3> QED
      BY <2>1, <2>2, <3>1, <3>2
  <2>8. CASE Interrupt
    <3>1. \A p \in Apps : (ContextOf(p))' = ContextOf(p)
      BY <1>2, <2>8, InterruptKeeps DEF IInv
    <3>2. current' = current /\ at = "interrupt" /\ at' \in {"schedule", "hang"}
      BY <2>8 DEF Interrupt
    <3> QED
      BY <2>1, <2>2, <3>1, <3>2
  <2>9. CASE Schedule
    <3>1. UNCHANGED writes /\ at = "schedule" /\ at' \in {"search", "run"}
          /\ UNCHANGED <<machineVars, processVars>> /\ current' = current
      BY <2>9 DEF Schedule, deviceVars, processVars
    <3>2. \A p \in Apps : (ContextOf(p))' = ContextOf(p)
      BY <1>2, <3>1, ScheduleKeeps DEF IInv
    <3> QED
      BY <2>1, <2>2, <3>1, <3>2
  <2>10. ASSUME NEW p \in Apps, Run(p)
         PROVE  C!Next
    <3>1. \A q \in Apps : (ContextOf(q))' = ContextOf(q)
      BY <1>2, <2>10, RunKeeps DEF IInv
    <3>2. at = "run" /\ at' = "app" /\ current' = p
      BY <2>10 DEF Run
    <3>3. C!Run(p)
      BY <2>1, <3>1, <3>2 DEF C!Run
    <3> QED
      BY <3>3 DEF C!Next, C!Apps, Apps
  <2>11. CASE \/ Spin \/ UNCHANGED vars \/ \E line \in Lines : DeviceRequest(line)
    <3>1. UNCHANGED <<at, machineVars, processVars>> /\ UNCHANGED writes
          /\ current' = current
      BY <2>11 DEF Spin, vars, DeviceRequest, Request, deviceVars, processVars
    <3>2. \A p \in Apps : (ContextOf(p))' = ContextOf(p)
      BY <1>2, <3>1, ScheduleKeeps DEF IInv
    <3> QED
      BY <2>1, <2>2, <3>1, <3>2
  <2> QED
    BY <1>2, <2>3, <2>4, <2>5, <2>6, <2>7, <2>8, <2>9, <2>10, <2>11 DEF Next
<1> QED
  BY Invariant, <1>1, <1>2, PTL DEF Spec, ImplementsContexts, C!Spec

=============================================================================
