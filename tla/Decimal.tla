------------------------------- MODULE Decimal -------------------------------
(***************************************************************************)
(* DECIMAL and NUMERIC values between Go and the wire: exact decimal texts, *)
(* packed decimal (two digits a byte, a sign in the last nibble) and zoned *)
(* decimal (a digit a byte, the sign in the zone of the last).             *)
(*                                                                         *)
(* A text is its sign and the characters before and after the point; a     *)
(* byte is its two nibbles.                                                *)
(***************************************************************************)
EXTENDS Naturals, Sequences, SequencesExt

Digit == 0 .. 9
NoDigit == 10   \* any other character of a text

Signs == {"", "+", "-"}

Reject == [ok |-> FALSE]   \* an error

Zeros(n) == [i \in 1 .. n |-> 0]
AllZero(d) == \A i \in DOMAIN d : d[i] = 0
Take(d, n) == SubSeq(d, 1, n)
Drop(d, n) == SubSeq(d, n + 1, Len(d))

\* strings.TrimLeft(d, "0")
TrimLeft(d) ==
    Drop(d, CHOOSE n \in 0 .. Len(d) :
                AllZero(Take(d, n)) /\ (n = Len(d) \/ d[n + 1] # 0))

\* Mutant: what does not fit the scale is cut off.
LosesNoFraction(frac, scale) == FALSE

LosesFraction(frac, scale) == Len(frac) > scale /\ ~AllZero(Drop(frac, scale))

LosesInteger(int, precision, scale) == Len(TrimLeft(int)) > precision - scale

\* scaleToDigits: `precision` digits with an implied point, or an error.
ScaleToDigits(t, precision, scale) ==
    IF \/ t.int = << >> /\ t.frac = << >>
       \/ NoDigit \in Range(t.int) \union Range(t.frac)
       \/ LosesFraction(t.frac, scale)
       \/ LosesInteger(t.int, precision, scale)
    THEN Reject
    ELSE LET int == TrimLeft(t.int)
             frac == IF Len(t.frac) > scale THEN Take(t.frac, scale)
                     ELSE t.frac \o Zeros(scale - Len(t.frac))
             digits == Zeros(precision - scale - Len(int)) \o int \o frac
         IN  [ok |-> TRUE, digits |-> digits, negative |-> t.sign = "-" /\ ~AllZero(digits)]

\* scaleDigits and formatDecimal: the text of digits with an implied point.
FormatDecimal(digits, scale, negative) ==
    LET padded == IF Len(digits) <= scale THEN Zeros(scale + 1 - Len(digits)) \o digits ELSE digits
        int == TrimLeft(Take(padded, Len(padded) - scale))
    IN  [ok |-> TRUE,
         sign |-> IF negative /\ ~AllZero(padded) THEN "-" ELSE "",
         int |-> IF int = << >> THEN <<0>> ELSE int,
         frac |-> Drop(padded, Len(padded) - scale)]

-----------------------------------------------------------------------------
Pair(nibbles) == [i \in 1 .. Len(nibbles) \div 2 |-> <<nibbles[2 * i - 1], nibbles[2 * i]>>]

\* Mutant: they are not padded.
PackedDigitsUnpadded(digits) == digits

\* An even number of digits is padded so that they and the sign fill whole bytes.
PackedDigits(digits) == IF Len(digits) % 2 = 0 THEN <<0>> \o digits ELSE digits

EncodePacked(length, digits, negative) ==
    IF length # Len(digits) \div 2 + 1 THEN Reject
    ELSE [ok |-> TRUE,
          bytes |-> Pair(PackedDigits(digits) \o <<IF negative THEN 13 ELSE 15>>)]

EncodeZoned(length, digits, negative) ==
    IF length # Len(digits) THEN Reject
    ELSE [ok |-> TRUE,
          bytes |-> [i \in 1 .. length |->
                        <<IF i = length /\ negative THEN 13 ELSE 15, digits[i]>>]]

\* Mutant: of the two negative signs only the one this client sends is known.
NegativeD(sign) == sign = 13

Negative(sign) == sign \in {11, 13}

DecodePacked(bytes, precision, scale) ==
    LET nibbles == FlattenSeq(bytes)
        digits == Take(nibbles, Len(nibbles) - 1)
    IN  IF Len(bytes) # precision \div 2 + 1 \/ \E i \in DOMAIN digits : digits[i] > 9 THEN Reject
        ELSE FormatDecimal(digits, scale, Negative(Last(nibbles)))

DecodeZoned(bytes, precision, scale) ==
    IF Len(bytes) # precision \/ \E i \in DOMAIN bytes : bytes[i][2] > 9 THEN Reject
    ELSE FormatDecimal([i \in DOMAIN bytes |-> bytes[i][2]], scale, Negative(Last(bytes)[1]))
=============================================================================
