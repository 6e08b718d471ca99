--------------------------- MODULE ConsolePrintf ----------------------------
(***************************************************************************)
(* console_printf of lib.c: the fields it formats and where they go on a   *)
(* console that is written round and round.                                *)
(*                                                                         *)
(* A format is a sequence of directives, as the parser of console_vprintf  *)
(* delivers them, each with its argument; an ordinary character is the     *)
(* directive %c with that character.  Width and precision are -1 if they   *)
(* are not given.                                                          *)
(***************************************************************************)
EXTENDS Integers, Sequences, SequencesExt

CONSTANTS
  COLS, ROWS,       \* of the console: 80 and 25
  WORD,             \* an int has WORD values: 2^32
  Words             \* the text of "Unknown scheduling algorithm "

ASSUME ConsolePrintfAssumption ==
  /\ COLS \in Nat \ {0} /\ ROWS \in Nat \ {0}
  /\ WORD \in Nat /\ WORD % 2 = 0
  /\ Words \in Seq(STRING)

VARIABLES
  cursor,       \* a cell, counted from CONSOLE_BEGIN
  cells,        \* the cells that have been written
  color,
  format,       \* the directives still to be printed
  field,        \* what the present one has still to print
  start,        \* history: where the cursor was, and what has been put since
  put

consoleVars == <<cursor, cells, color, format, field, start, put>>

CONSOLE_END == COLS * ROWS
SPACE == " "
NEWLINE == "newline"

-----------------------------------------------------------------------------

(* The cells once a cell has been copied to the places.                    *)
Written(screen, places, cell) ==
  [n \in places \cup DOMAIN screen |-> IF n \in places THEN cell ELSE screen[n]]

(* Mutant of console_putc: wraps one cell too late.                        *)
console_putc_late(console, c, attribute) ==
  LET from == IF console.cursor > CONSOLE_END THEN 0 ELSE console.cursor
      to   == IF c = NEWLINE THEN from + COLS - (from % COLS) ELSE from + 1
      cell == <<IF c = NEWLINE THEN SPACE ELSE c, attribute>>
  IN  [cursor |-> to, cells |-> Written(console.cells, from .. to - 1, cell)]

(* Mutant of console_putc: a newline leaves the rest of the row as it is.  *)
console_putc_unblanked(console, c, attribute) ==
  LET from == IF console.cursor >= CONSOLE_END THEN 0 ELSE console.cursor
  IN  IF c = NEWLINE THEN [console EXCEPT !.cursor = from + COLS - (from % COLS)]
      ELSE [cursor |-> from + 1, cells |-> Written(console.cells, {from}, <<c, attribute>>)]

(* A newline fills the row with spaces.                                    *)
console_putc(console, c, attribute) ==
  LET from == IF console.cursor >= CONSOLE_END THEN 0 ELSE console.cursor
      to   == IF c = NEWLINE THEN from + COLS - (from % COLS) ELSE from + 1
      cell == <<IF c = NEWLINE THEN SPACE ELSE c, attribute>>
  IN  [cursor |-> to, cells |-> Written(console.cells, from .. to - 1, cell)]

(* Formatting.                                                             *)

lower_digits == <<"0", "1", "2", "3", "4", "5", "6", "7", "8", "9",
                  "a", "b", "c", "d", "e", "f">>
upper_digits == <<"0", "1", "2", "3", "4", "5", "6", "7", "8", "9",
                  "A", "B", "C", "D", "E", "F">>

fill_numbuf(value, base, digits, precision) ==
  LET numeral[val \in Nat] ==
        IF val < base THEN <<digits[val + 1]>>
        ELSE Append(numeral[val \div base], digits[(val % base) + 1])
  IN  IF precision # 0 \/ value # 0 THEN numeral[value] ELSE <<>>

strnlen(data, maxlen) == IF Len(data) < maxlen THEN Len(data) ELSE maxlen

Directive(conversion, argument, flags, width, precision) ==
  [conv |-> conversion, arg |-> argument, flags |-> flags, width |-> width,
   precision |-> precision]

Plain(conversion, argument) == Directive(conversion, argument, {}, -1, -1)

Numeric(d) == d.conv \in {"d", "u", "x", "X"}
Negative(d) == d.conv = "d" /\ d.arg < 0

(* `x > 0 ? x : -x', which for the smallest int overflows to the right     *)
(* unsigned number.                                                        *)
Magnitude(x) == IF x > 0 THEN x ELSE (-x) % WORD

Data(d) ==
  CASE d.conv = "d" -> fill_numbuf(Magnitude(d.arg), 10, upper_digits, d.precision)
    [] d.conv = "u" -> fill_numbuf(d.arg, 10, upper_digits, d.precision)
    [] d.conv = "x" -> fill_numbuf(d.arg, 16, lower_digits, d.precision)
    [] d.conv = "X" -> fill_numbuf(d.arg, 16, upper_digits, d.precision)
    [] d.conv = "s" -> d.arg
    [] d.conv = "c" -> <<d.arg>>

Sign(d) ==
  IF Negative(d) THEN <<"-">>
  ELSE IF "+" \in d.flags THEN <<"+">>
  ELSE IF " " \in d.flags THEN <<" ">> ELSE <<>>

(* Mutant of Zeros: no room is left for the sign.                          *)
ZerosForSign(d, len) ==
  IF Numeric(d) /\ d.precision > len THEN d.precision - len
  ELSE IF /\ "0" \in d.flags /\ "-" \notin d.flags
          /\ Numeric(d) /\ d.precision < 0 /\ len < d.width
  THEN d.width - len ELSE 0

(* Zeros between the sign and len digits.                                  *)
Zeros(d, len) ==
  LET signed == len + Len(Sign(d))
  IN  IF Numeric(d) /\ d.precision > len THEN d.precision - len
      ELSE IF /\ "0" \in d.flags /\ "-" \notin d.flags
              /\ Numeric(d) /\ d.precision < 0 /\ signed < d.width
      THEN d.width - signed ELSE 0

(* The loops that count zeros and width down to 0.                         *)
Times(n, c) == [k \in 1 .. Max({0, n}) |-> c]

(* What one directive prints.                                              *)
Field(d) ==
  LET data   == Data(d)
      len    == IF d.precision >= 0 THEN strnlen(data, d.precision) ELSE Len(data)
      body   == Sign(d) \o Times(Zeros(d, len), "0") \o SubSeq(data, 1, len)
      blanks == Times(d.width - Len(body), SPACE)
  IN  IF "-" \in d.flags THEN body \o blanks ELSE blanks \o body

-----------------------------------------------------------------------------

(* console_printf is called.                                               *)
console_printf(attribute, directives) ==
  /\ color' = attribute
  /\ format' = directives
  /\ UNCHANGED <<cursor, cells, field, start, put>>

(* One round of console_vprintf's loop, up to its console_putc()s.         *)
Convert ==
  /\ field = <<>>
  /\ format # <<>>
  /\ IF Head(format).conv = "C"
     THEN color' = Head(format).arg /\ UNCHANGED field
     ELSE field' = Field(Head(format)) /\ UNCHANGED color
  /\ format' = Tail(format)
  /\ UNCHANGED <<cursor, cells, start, put>>

Put ==
  /\ field # <<>>
  /\ LET console == console_putc([cursor |-> cursor, cells |-> cells],
                                 Head(field), color)
     IN  cursor' = console.cursor /\ cells' = console.cells
  /\ put' = Append(put, <<Head(field), color>>)
  /\ field' = Tail(field)
  /\ UNCHANGED <<color, format, start>>

(* An empty part of the console is printed on, from any cell.              *)
ConsoleInit ==
  /\ start \in 0 .. CONSOLE_END
  /\ cursor = start
  /\ cells = <<>>
  /\ color = 0
  /\ format = <<>>
  /\ field = <<>>
  /\ put = <<>>

-----------------------------------------------------------------------------

(* The cursor stays on the console or just behind it, and nothing is       *)
(* written elsewhere: though console_putc looks for the end only before it *)
(* writes, and a newline writes up to a row.                               *)
CursorInConsole ==
  /\ cursor \in 0 .. CONSOLE_END
  /\ DOMAIN cells \subseteq 0 .. CONSOLE_END - 1

(* On a console without an end, the n-th character put would lie from      *)
(* Position[n - 1] up to Position[n].                                      *)
Position ==
  LET position[n \in 0 .. Len(put)] ==
        IF n = 0 THEN start
        ELSE IF put[n][1] = NEWLINE THEN (position[n - 1] \div COLS + 1) * COLS
        ELSE position[n - 1] + 1
  IN  position

(* What is on the console is that console wound round it, the later over   *)
(* the earlier, newlines as blanks in their color.                         *)
PrintedRight ==
  LET position == Position
      Covers(n, cell) == \E p \in position[n - 1] .. position[n] - 1 :
                           p % CONSOLE_END = cell
  IN  /\ cursor % CONSOLE_END = position[Len(put)] % CONSOLE_END
      /\ \A cell \in 0 .. CONSOLE_END - 1 :
           LET n == Max({0} \cup {m \in DOMAIN put : Covers(m, cell)})
           IN  IF n = 0 THEN cell \notin DOMAIN cells
               ELSE /\ cell \in DOMAIN cells
                    /\ cells[cell] = <<IF put[n][1] = NEWLINE THEN SPACE ELSE put[n][1],
                                       put[n][2]>>

(* text is the number v, written without superfluous zeros.                *)
IsNumeral(text, v, digits, base) ==
  LET Digit(c) == CHOOSE k \in 0 .. base - 1 : digits[k + 1] = c
  IN  /\ \A k \in DOMAIN text : \E n \in 1 .. base : text[k] = digits[n]
      /\ FoldLeft(LAMBDA sum, c : base * sum + Digit(c), 0, text) = v
      /\ Len(text) > 1 => text[1] # "0"

(* s is what C's printf prints for d: blanks on one side, sign, zeros, the *)
(* digits or the text; as wide as the width asks for and no wider than it  *)
(* must be; digits as many as the precision asks for.                      *)
IsField(d, s) ==
  \E blanks, zeros \in 0 .. Len(s) :
    LET sign == IF Negative(d) THEN "-"
                ELSE IF "+" \in d.flags THEN "+"
                ELSE IF " " \in d.flags THEN " " ELSE ""
        left == IF "-" \in d.flags THEN 0 ELSE blanks
        head == left + (IF sign = "" THEN 0 ELSE 1) + zeros
        tail == Len(s) - (blanks - left)
        text == SubSeq(s, head + 1, tail)
    IN  /\ \A k \in (1 .. left) \cup (tail + 1 .. Len(s)) : s[k] = SPACE
        /\ sign # "" => left < Len(s) /\ s[left + 1] = sign
        /\ head <= tail
        /\ \A k \in head - zeros + 1 .. head : s[k] = "0"
        /\ d.width <= Len(s)
        /\ blanks > 0 => Len(s) = d.width
        /\ IF Numeric(d)
           THEN /\ IF d.conv \in {"d", "u"}
                   THEN IsNumeral(text, IF d.arg < 0 THEN -d.arg ELSE d.arg,
                                  upper_digits, 10)
                   ELSE IsNumeral(text, d.arg,
                                  IF d.conv = "x" THEN lower_digits ELSE upper_digits, 16)
                /\ text = <<>> <=> d.arg = 0 /\ d.precision = 0
                /\ d.precision >= 0 =>
                     zeros + Len(text) = Max({d.precision, Len(text)})
                /\ d.precision < 0 /\ zeros > 0 =>
                     "0" \in d.flags /\ blanks = 0 /\ Len(s) = d.width
                /\ d.precision < 0 /\ {"0", "-"} \cap d.flags = {"0"} => blanks = 0
           ELSE zeros = 0 /\ text = Data(d)

(* Every field is formatted as C's printf would, with every combination of *)
(* flags, width and precision lib.h offers.                                *)
FieldRight ==
  format # <<>> /\ Head(format).conv # "C" =>
    IsField(Head(format), Field(Head(format)))

Ints == -(WORD \div 2) .. WORD \div 2 - 1

(* A directive that C gives a meaning, with an argument of its type, and   *)
(* whose precision is not smaller than the text is long.                   *)
Legal(d) ==
  \/ d.conv = "C"
  \/ /\ d.width \in Nat \cup {-1} /\ d.precision \in Nat \cup {-1}
     /\ d.flags \subseteq {"0", "-", " ", "+"}
     /\ \/ d.conv = "d" /\ d.arg \in Ints
        \/ d.conv \in {"u", "x", "X"} /\ d.arg \in 0 .. WORD - 1
        \/ d.conv = "s" /\ d.arg \in Seq(STRING)
        \/ d.conv = "c"
     /\ d.conv # "d" => {" ", "+"} \cap d.flags = {}
     /\ ~ Numeric(d) => "0" \notin d.flags
     /\ d.precision < 0 \/ Len(Data(d)) <= d.precision

=============================================================================
