------------------------- MODULE ConfigurationImage -------------------------
(***************************************************************************)
(* The text image a backup writes into File 1 "Ivory" and a restore parses *)
(* (main.cpp: BuildConfigurationImage, ParseConfigurationImage):           *)
(*                                                                         *)
(*     B-AEC configuration 1                                               *)
(*     analog-value 100 42.5                                               *)
(*                                                                         *)
(* The file is a sequence of cells.  The header line is one cell,          *)
(* "analog-value <instance> " is one cell, a number is one cell per digit  *)
(* and one for its exponent, and the newline and the NUL octet are cells.  *)
(* Cutting an image between two cells gives every outcome the parser tells *)
(* apart: a text cut inside the header or inside an instance is refused    *)
(* just as one cut before it is.                                           *)
(***************************************************************************)
EXTENDS Integers, Sequences, FiniteSetsExt

CONSTANTS
    MaxAnalogValues,    \* MAX_CREATED_ANALOG_VALUES
    SignificantDigits   \* the 6 of the format "%.6g"

ASSUME ImageAssumption ==
    /\ MaxAnalogValues \in Nat \ {0}
    /\ SignificantDigits \in Nat \ {0}

Header    == <<"header", 0>>
Av(i)     == <<"analog-value", i>>
Digit(d)  == <<"digit", d>>
Exponent(e) == <<"exponent", e>>
Newline   == <<"newline", 0>>
ZeroOctet == <<"zero", 0>>

Kind(cell) == cell[1]

\* A loop over s that keeps the elements at the indices in I, in their order.
Picked(s, I) ==
    LET picked[i \in 0..Len(s)] ==
            IF i = 0 THEN << >>
            ELSE IF i \in I THEN Append(picked[i-1], s[i])
                            ELSE picked[i-1]
    IN  picked[Len(s)]

-----------------------------------------------------------------------------
(***************************************************************************)
(* "%.6g" on a non-negative whole number: at most SignificantDigits        *)
(* significant digits are kept, the number being rounded to them (half to  *)
(* even); a longer number is printed with an exponent, so the text never   *)
(* grows past SignificantDigits + 1 cells.                                 *)
(***************************************************************************)
TenTo[n \in Nat] == IF n = 0 THEN 1 ELSE 10 * TenTo[n - 1]

NumberOfDigits(v) == CHOOSE n \in 1..(v + 1) : v < TenTo[n] /\ (n = 1 \/ TenTo[n - 1] <= v)

\* v in units of 10^d, rounded half to even.
Nearest(v, d) ==
    LET unit == TenTo[d]
        q == v \div unit
        r == v % unit
    IN  IF 2*r > unit \/ (2*r = unit /\ q % 2 = 1) THEN q + 1 ELSE q

\* How many digits of v are dropped, one more if what is left rounds up to a digit too
\* many, and what is left after rounding.
Dropped(v) ==
    LET n == NumberOfDigits(v)
        d == IF n > SignificantDigits THEN n - SignificantDigits ELSE 0
    IN  IF Nearest(v, d) = TenTo[SignificantDigits] THEN d + 1 ELSE d
Mantissa(v) == Nearest(v, Dropped(v))

\* The number that is printed, and the cells it is printed as.
Rounded(v) == Mantissa(v) * TenTo[Dropped(v)]
Printed(v) ==
    LET m == Mantissa(v)
        n == NumberOfDigits(m)
    IN  [k \in 1..n |-> Digit((m \div TenTo[n - k]) % 10)]
          \o (IF Dropped(v) = 0 THEN << >> ELSE <<Exponent(Dropped(v))>>)

\* strtod on the cells of a number.
Number(cells) ==
    LET number[k \in 0..Len(cells)] ==
            IF k = 0 THEN 0
            ELSE IF Kind(cells[k]) = "digit" THEN 10 * number[k-1] + cells[k][2]
                                             ELSE number[k-1] * TenTo[cells[k][2]]
    IN  number[Len(cells)]

\* Mutant: the line is not ended.
UnendedLine(av) == <<Av(av.instance)>> \o Printed(av.value)

\* One line of the image, for one created Analog Value.
Line(av) == <<Av(av.instance)>> \o Printed(av.value) \o <<Newline>>

\* BuildConfigurationImage: the header, then the objects in use in table order.
Image(avs) ==
    LET image[k \in 0..Len(avs)] ==
            IF k = 0 THEN <<Header>> ELSE image[k-1] \o Line(avs[k])
    IN  image[Len(avs)]

-----------------------------------------------------------------------------
(***************************************************************************)
(* ParseConfigurationImage.                                                *)
(***************************************************************************)

\* Where the non-empty lines after the header start.
LineStarts(image) ==
    Picked([i \in 1..Len(image) |-> i],
           {i \in 2..Len(image) : /\ Kind(image[i]) # "newline"
                                  /\ i = 2 \/ Kind(image[i-1]) = "newline"})

\* The last cell of the line that starts at i; the last line needs no newline.
LineEnd(image, i) ==
    Min({j \in i..Len(image) : Kind(image[j]) = "newline"} \cup {Len(image) + 1}) - 1

\* The last cell of the number that follows the cell at i: digits, then perhaps
\* an exponent.  (A digit written behind an exponent would join it; the
\* writes of the model never put one there.)
NumberEnd(image, i) ==
    LET digits == Min({j \in (i+1)..LineEnd(image, i) : Kind(image[j]) # "digit"}
                        \cup {LineEnd(image, i) + 1}) - 1
    IN  IF digits > i /\ digits < LineEnd(image, i) /\ Kind(image[digits + 1]) = "exponent"
        THEN digits + 1 ELSE digits

\* The line starting at i reads as an Analog Value: its type, its instance and a
\* number with nothing after it (line.c_str() ends at a NUL octet).
ReadableLine(image, i) ==
    LET last == NumberEnd(image, i)
    IN  /\ Kind(image[i]) = "analog-value"
        /\ last > i
        /\ last = LineEnd(image, i) \/ Kind(image[last + 1]) = "zero"

Entry(image, i) ==
    [instance |-> image[i][2], value |-> Number(SubSeq(image, i + 1, NumberEnd(image, i)))]

HasHeader(image) == image # << >> /\ image[1] = Header

\* How many lines are read before the parser gives up or reaches the end.
LinesRead(image) ==
    LET starts == LineStarts(image)
    IN  Min({k \in 0..(Len(starts) - 1) : k >= MaxAnalogValues \/ ~ReadableLine(image, starts[k+1])}
              \cup {Len(starts)})

\* The image is accepted, and what it then holds, in the order of its lines.
Accepted(image) == HasHeader(image) /\ LinesRead(image) = Len(LineStarts(image))
Entries(image) == [k \in 1..LinesRead(image) |-> Entry(image, LineStarts(image)[k])]

\* The parser stores every line it reads into the staging array at once, so an
\* image it then rejects has already overwritten the first entries.
StagedBy(image, staged) ==
    IF ~HasHeader(image) THEN staged
    ELSE [k \in 1..MaxAnalogValues |->
            IF k <= LinesRead(image) THEN Entries(image)[k] ELSE staged[k]]
=============================================================================
