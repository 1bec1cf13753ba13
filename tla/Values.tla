------------------------------- MODULE Values -------------------------------
(***************************************************************************)
(* encodeValue and decodeValue: a parameter on its way to a field of the   *)
(* server and back, and a field the server has filled, read, given back as *)
(* a parameter, and read again.                                            *)
(***************************************************************************)
EXTENDS Integers, Decimal

CONSTANTS
    Kinds,         \* the kinds of field, a subset of AllKinds
    Digits,        \* the digits texts and fields are made of
    MaxDigits,     \* before and after a text's point
    MaxPrecision,
    ByteBits,      \* 8
    MaxLength,     \* bytes of character or binary data
    ClockDigits    \* fractional digits of a time.Time, 9

Decimals == {"packed", "zoned"}
Fixed == {"char", "graphic"}                         \* character data of fixed length
Varying == {"varchar", "vargraphic", "clob", "dbclob"}  \* after a length prefix
\* Data of CCSID 65535 whose length prefix counts two-byte units.
Binary == {"vargraphicBinary", "dbclobBinary"}
AllKinds == Decimals \union {"integer"} \union Fixed \union Varying \union Binary \union {"timestamp"}

ASSUME ValuesAssumption ==
    /\ Kinds \subseteq AllKinds
    /\ Digits \subseteq Digit /\ 0 \in Digits
    /\ MaxDigits \in Nat /\ MaxPrecision \in Nat /\ MaxLength \in Nat /\ ClockDigits \in Nat
    /\ ByteBits \in Nat \ {0}

VARIABLES
    field,  \* type, length in bytes, precision and scale
    value,  \* the Go value
    wire,   \* the field's bytes, as far as the kind tells them apart
    read,   \* the value a field filled by the server was read as, or <<>>
    stage
vars == <<field, value, wire, read, stage>>

\* b to the nth: a recursive function, which the provers can reason about.
Power(b, n) == LET p[i \in 0 .. n] == IF i = 0 THEN 1 ELSE b * p[i - 1] IN p[n]

Seqs(S, n) == UNION {[1 .. m -> S] : m \in 0 .. n}

Texts == [sign : Signs, int : Seqs(Digits \union {NoDigit}, MaxDigits),
          frac : Seqs(Digits \union {NoDigit}, MaxDigits)]

\* The integers of a field of so many bytes.
MinInt(bytes) == -Power(2, bytes * ByteBits - 1)
MaxInt(bytes) == Power(2, bytes * ByteBits - 1) - 1
IntegerSizes == {2, 4, 8}

PrefixSize(kind) == IF kind \in Fixed THEN 0 ELSE
                    IF kind \in {"clob", "dbclob", "dbclobBinary"} THEN 4 ELSE 2
\* Bytes per unit of the length prefix, and of the data itself.
UnitSize(kind) == IF kind \in {"char", "varchar", "clob"} THEN 1 ELSE 2
DataUnit(kind) == IF kind \in Binary THEN 1 ELSE UnitSize(kind)

Blank == 0   \* a byte of a blank; those of the data are 1
Data(n) == [i \in 1 .. n |-> 1]

Field(kind, length, p, s) == [kind |-> kind, length |-> length, precision |-> p, scale |-> s]

DecimalFields(kind) ==
    {Field(kind, IF kind = "packed" THEN ps[1] \div 2 + 1 ELSE ps[1], ps[1], ps[2]) :
        ps \in {ps \in (1 .. MaxPrecision) \X (0 .. MaxPrecision) : ps[2] <= ps[1]}}

\* Parameter markers of a kind and values for them: integers at the edges of the
\* widths, and data from empty to too long.
Parameters(kind) ==
    CASE kind \in Decimals -> DecimalFields(kind) \X Texts
      [] kind = "integer" ->
            {Field(kind, n, 0, 0) : n \in IntegerSizes}
            \X UNION {{MinInt(n), -1, 0, 1, MaxInt(n)} \union
                      (IF n < 8 THEN {MinInt(n) - 1, MaxInt(n) + 1} ELSE {}) : n \in IntegerSizes}
      [] kind \in Fixed \union Varying \union Binary ->
            {Field(kind, PrefixSize(kind) + UnitSize(kind) * n, 0, 0) : n \in 0 .. MaxLength}
            \X {Data(DataUnit(kind) * n) : n \in 0 .. MaxLength}
      [] kind = "timestamp" ->
            {Field(kind, n, 0, 0) : n \in 0 .. ClockDigits} \X [1 .. ClockDigits -> Digits]

\* What a server may have filled a decimal field with: any sign nibble, and
\* negative zeros too.
Fillings(f) ==
    IF f.kind = "packed"
    THEN {Pair((IF f.precision % 2 = 0 THEN <<0>> ELSE << >>) \o d \o <<sign>>) :
            d \in [1 .. f.precision -> Digits], sign \in 10 .. 15}
    ELSE {[i \in 1 .. f.length |-> <<IF i < f.length THEN 15 ELSE sign, d[i]>>] :
            d \in [1 .. f.precision -> Digits], sign \in 10 .. 15}

Init ==
    /\ \/ \E kind \in Kinds : \E p \in Parameters(kind) :
            field = p[1] /\ value = p[2] /\ wire = << >> /\ stage = "given"
       \/ \E kind \in Kinds \intersect Decimals : \E f \in DecimalFields(kind) : \E w \in Fillings(f) :
            field = f /\ value = << >> /\ wire = w /\ stage = "filled"
    /\ read = << >>

-----------------------------------------------------------------------------
\* Mutant: the range of a width is taken to be symmetric.
IntegerFitsSymmetric(n, bytes) == bytes = 8 \/ n \in -MaxInt(bytes) .. MaxInt(bytes)

IntegerFits(n, bytes) == bytes = 8 \/ n \in MinInt(bytes) .. MaxInt(bytes)

EncodeInteger(bytes, n) ==
    IF IntegerFits(n, bytes) THEN [ok |-> TRUE, bytes |-> n % Power(2, bytes * ByteBits)] ELSE Reject

DecodeInteger(bytes, w) ==
    [ok |-> TRUE, int |-> IF w > MaxInt(bytes) THEN w - Power(2, bytes * ByteBits) ELSE w]

\* padText: blanks as wide as the character set's fill the rest of the field.
PadText(f, data) ==
    IF Len(data) > f.length THEN Reject
    ELSE [ok |-> TRUE, bytes |-> data \o [i \in 1 .. f.length - Len(data) |-> Blank]]

\* A prefix that counts units, and the data in a field of zeros.
EncodeVarying(f, data) ==
    IF PrefixSize(f.kind) + Len(data) > f.length THEN Reject
    ELSE [ok |-> TRUE,
          bytes |-> [units |-> Len(data) \div UnitSize(f.kind),
                     data |-> data \o Zeros(f.length - PrefixSize(f.kind) - Len(data))]]

\* varData and lobData
DecodeVarying(f, w) ==
    LET bytes == w.units * UnitSize(f.kind) IN
    IF bytes > Len(w.data) THEN Reject ELSE [ok |-> TRUE, data |-> Take(w.data, bytes)]

\* The fraction of a time.Time is formatted to the digits the field has.
FormatFraction(f, fraction) == [ok |-> TRUE, bytes |-> Take(fraction, f.length)]

EncodeDecimal(f, t) ==
    LET scaled == ScaleToDigits(t, f.precision, f.scale) IN
    IF ~scaled.ok THEN Reject
    ELSE IF f.kind = "packed" THEN EncodePacked(f.length, scaled.digits, scaled.negative)
    ELSE EncodeZoned(f.length, scaled.digits, scaled.negative)

EncodeValue(f, v) ==
    CASE f.kind \in Decimals -> EncodeDecimal(f, v)
      [] f.kind = "integer" -> EncodeInteger(f.length, v)
      [] f.kind \in Fixed -> PadText(f, v)
      [] f.kind \in Varying \union Binary -> EncodeVarying(f, v)
      [] f.kind = "timestamp" -> FormatFraction(f, v)

DecodeValue(f, w) ==
    CASE f.kind = "packed" -> DecodePacked(w, f.precision, f.scale)
      [] f.kind = "zoned" -> DecodeZoned(w, f.precision, f.scale)
      [] f.kind = "integer" -> DecodeInteger(f.length, w)
      [] f.kind \in Fixed -> [ok |-> TRUE, data |-> w]
      [] f.kind \in Varying \union Binary -> DecodeVarying(f, w)
      [] f.kind = "timestamp" -> [ok |-> TRUE, fraction |-> w]

-----------------------------------------------------------------------------
\* The server's field is read, and what was read is given as a parameter.
Read ==
    /\ stage = "filled"
    /\ read' = DecodeValue(field, wire)
    /\ value' = read'
    /\ stage' = IF read'.ok THEN "given" ELSE "rejected"
    /\ UNCHANGED <<field, wire>>

Encode ==
    /\ stage = "given"
    /\ LET encoded == EncodeValue(field, value) IN
       \/ /\ encoded.ok
          /\ wire' = encoded.bytes
          /\ stage' = "sent"
       \/ /\ ~encoded.ok
          /\ stage' = "rejected"
          /\ UNCHANGED wire
    /\ UNCHANGED <<field, value, read>>

\* The server stores the field as it is; it is read again.
Decode ==
    /\ stage = "sent"
    /\ value' = [given |-> value, back |-> DecodeValue(field, wire)]
    /\ stage' = "back"
    /\ UNCHANGED <<field, wire, read>>

Next == Read \/ Encode \/ Decode

Spec == Init /\ [][Next]_vars

-----------------------------------------------------------------------------
(***************************************************************************)
(* What the conversions are compared with.  A text stands for its number   *)
(* of units of 10 ^ -MaxUnits; it has no number if it is malformed.        *)
(***************************************************************************)
Number(d) == LET v[i \in 0 .. Len(d)] == IF i = 0 THEN 0 ELSE 10 * v[i - 1] + d[i] IN v[Len(d)]

MaxUnits == MaxDigits + MaxPrecision
Wellformed(t) == t.int \o t.frac # << >> /\ NoDigit \notin Range(t.int \o t.frac)
Units(t) ==
    LET magnitude == Number(t.int \o t.frac) * Power(10, MaxUnits - Len(t.frac))
    IN  IF t.sign = "-" THEN -magnitude ELSE magnitude

\* The number in a decimal field: 11 and 13 are its negative signs.
Meaning(f, w) ==
    LET digits == IF f.kind = "packed" THEN Front(FlattenSeq(w)) ELSE [i \in DOMAIN w |-> w[i][2]]
        sign == IF f.kind = "packed" THEN Last(w)[2] ELSE Last(w)[1]
    IN  Units([sign |-> IF sign \in {11, 13} THEN "-" ELSE "",
               int |-> Take(digits, Len(digits) - f.scale), frac |-> Drop(digits, Len(digits) - f.scale)])

StripZeros(d) == Take(d, CHOOSE n \in 0 .. Len(d) : AllZero(Drop(d, n)) /\ (n = 0 \/ d[n] # 0))

\* Whether the field can hold the value, and whether what came back is it.
Representable(f, v) ==
    CASE f.kind \in Decimals ->
            /\ Wellformed(v)
            /\ Units(v) % Power(10, MaxUnits - f.scale) = 0
            /\ Units(v) \div Power(10, MaxUnits - f.scale)
                  \in (1 - Power(10, f.precision)) .. (Power(10, f.precision) - 1)
      [] f.kind = "integer" -> v \in MinInt(f.length) .. MaxInt(f.length)
      [] f.kind \in Fixed \union Varying \union Binary -> PrefixSize(f.kind) + Len(v) <= f.length
      [] f.kind = "timestamp" -> Len(StripZeros(v)) <= f.length

Same(f, v, back) ==
    /\ back.ok
    /\ CASE f.kind \in Decimals -> Units(back) = Units(v)
         [] f.kind = "integer" -> back.int = v
         [] f.kind \in Fixed -> Take(back.data, Len(v)) = v /\ AllZero(Drop(back.data, Len(v)))
         [] f.kind \in Varying \union Binary -> back.data = v
         [] f.kind = "timestamp" -> StripZeros(back.fraction) = StripZeros(v)

\* A parameter that is sent is stored unchanged: "values that cannot be
\* represented without loss [...] are errors, never silently truncated or
\* rounded" (value.go, encodeValue).
Lossless == stage = "back" => Same(field, value.given, value.back)

\* Only what the field cannot hold is refused.
RejectsOnlyLoss == stage = "rejected" => ~Representable(field, value)

\* A text read from a decimal field, whatever its sign nibble, is its number,
\* written the one way: no leading zeros, no negative zero, as many digits after
\* the point as its scale.  It can be given back, and reads the same once more.
ReadsExact ==
    /\ stage = "given" /\ read # << >> =>
          /\ Units(read) = Meaning(field, wire)
          /\ Len(read.frac) = field.scale
          /\ Len(read.int) > 1 => read.int[1] # 0
          /\ read.int # << >>
          /\ read.sign = "-" => Units(read) # 0
    /\ read # << >> => stage # "rejected"
    /\ read # << >> /\ stage = "back" => value.back = read

\* What is sent fills its field and no more: the fields of a row are found by
\* the sum of the lengths before them.
FillsField ==
    stage = "sent" /\ field.kind # "timestamp" /\ field.kind # "integer" =>
        field.length = IF field.kind \in Decimals \union Fixed THEN Len(wire)
                       ELSE PrefixSize(field.kind) + Len(wire.data)
=============================================================================
