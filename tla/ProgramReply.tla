---------------------------- MODULE ProgramReply ----------------------------
(***************************************************************************)
(* What rmtcmd reads from a reply: run-length encoded data, the output     *)
(* parameters of a called program, and the message list in its three       *)
(* formats.  Bodies are sequences of cells (see Params); a reply starts    *)
(* with the return code and the number of messages.                        *)
(***************************************************************************)
EXTENDS Naturals, SequencesExt

CONSTANTS
    Escape,   \* rleEscape, 16r1B
    ByteSize  \* values of a byte, 256

ASSUME ByteAssumption == ByteSize \in Nat /\ Escape \in 0 .. ByteSize - 1

ReplyHead == 2
EntryHead == 4   \* an output parameter's length, code point, declared length and usage
Compressed == {22, 23}

-----------------------------------------------------------------------------
(***************************************************************************)
(* Run-length encoding.                                                    *)
(***************************************************************************)
Truncated == [ok |-> FALSE, data |-> << >>]

Pairs(b1, b2, count) == FlattenSeq([i \in 1 .. count |-> <<b1, b2>>])

\* Mutant: an escaped escape is taken for the start of a repeater.
RecordAtNoLiteral(s, i) ==
    IF s[i] # Escape THEN [cells |-> 1, data |-> <<s[i]>>]
    ELSE IF i + 4 > Len(s) THEN [cells |-> 0, data |-> << >>]
    ELSE [cells |-> 5, data |-> Pairs(s[i + 1], s[i + 2], s[i + 3] * ByteSize + s[i + 4])]

\* The record at i of compressed data: how many cells it takes, none if it is
\* truncated, and what it stands for.
RecordAt(s, i) ==
    IF s[i] # Escape THEN [cells |-> 1, data |-> <<s[i]>>]
    ELSE IF i + 1 > Len(s) THEN [cells |-> 0, data |-> << >>]
    ELSE IF s[i + 1] = Escape THEN [cells |-> 2, data |-> <<Escape>>]
    ELSE IF i + 4 > Len(s) THEN [cells |-> 0, data |-> << >>]
    ELSE [cells |-> 5, data |-> Pairs(s[i + 1], s[i + 2], s[i + 3] * ByteSize + s[i + 4])]

\* decompressRLE: the declared length is only the capacity of the buffer.
Decompress(s) ==
    LET from[i \in 1 .. Len(s) + 1] ==
            IF i > Len(s) THEN [ok |-> TRUE, data |-> << >>]
            ELSE LET r == RecordAt(s, i)
                     rest == from[i + r.cells]
                 IN  IF r.cells = 0 \/ ~rest.ok THEN Truncated
                     ELSE [ok |-> TRUE, data |-> r.data \o rest.data]
    IN from[1]

-----------------------------------------------------------------------------
(***************************************************************************)
(* Output parameters.                                                      *)
(***************************************************************************)
\* The parameters the reply has an entry for.
HasEntry(p) == p.usage \in {"output", "inout"} /\ p.max > 0

\* Mutant: data that does not decompress is kept as it came.
EntryAtLenient(body, off) ==
    IF off + EntryHead > Len(body) THEN [cells |-> 0, data |-> << >>]
    ELSE LET ll == body[off + 1] IN
         IF ll < EntryHead \/ off + ll > Len(body)
         THEN [cells |-> 0, data |-> << >>]
         ELSE [cells |-> ll, data |-> SubSeq(body, off + EntryHead + 1, off + ll)]

\* The entry behind the first off cells: its length, 0 if it cannot be read, and its data.
EntryAt(body, off) ==
    IF off + EntryHead > Len(body) THEN [cells |-> 0, data |-> << >>]
    ELSE LET ll == body[off + 1]
             raw == SubSeq(body, off + EntryHead + 1, off + ll)
         IN  IF ll < EntryHead \/ off + ll > Len(body) THEN [cells |-> 0, data |-> << >>]
             ELSE IF body[off + 4] \notin Compressed THEN [cells |-> ll, data |-> raw]
             ELSE LET d == Decompress(raw) IN
                  [cells |-> IF d.ok THEN ll ELSE 0, data |-> d.data]

\* A parameter's turn, after those before it: its output is filled if all is well.
WithOutput(body, p, acc) ==
    LET e == EntryAt(body, acc.off)
        fills == acc.ok /\ HasEntry(p) /\ e.cells # 0
    IN  [ok |-> acc.ok /\ (HasEntry(p) => e.cells # 0),
         off |-> IF fills THEN acc.off + e.cells ELSE acc.off,
         params |-> Append(acc.params, IF fills THEN [p EXCEPT !.output = e.data] ELSE p)]

\* parseCallProgramOutput: the outputs are filled one after the other, up to
\* the first entry that cannot be read.
ReadOutputs(body, params) ==
    LET upTo[n \in 0 .. Len(params)] ==
            IF n = 0 THEN [ok |-> TRUE, off |-> ReplyHead, params |-> << >>]
            ELSE WithOutput(body, params[n], upTo[n - 1])
    IN  upTo[Len(params)]

-----------------------------------------------------------------------------
(***************************************************************************)
(* Messages.                                                               *)
(***************************************************************************)
MessageFields == {"sev", "id", "type", "file", "lib", "text", "sub", "help"}
NoMessage == [f \in MessageFields |-> << >>]

\* Those that the classic format gives a fixed size: one cell.
FixedFields == {"id", "type", "sev", "file", "lib"}

\* The order of the length-prefixed fields of formats 6 and 7.
Fields06 == <<"type", "id", "file", "lib", "text", "sub", "help">>
Fields07 == <<"sev", "id", "type", "key", "file", "libAsked", "lib">>
            \o [i \in 1 .. 16 |-> "unread"] \o <<"sub", "text", "help">>

\* Mutant: a field that does not fit leaves the reader where it is.
ReaderStays(off, end) == off
\* fieldReader.bytes: after a field that does not fit nothing is read.
ReaderAfter(off, end) == end

\* fieldReader.bytes and lenPrefixed: the next n cells, and the next field.
ReadCells(body, off, n) ==
    IF off + n > Len(body) THEN [off |-> ReaderAfter(off, Len(body)), data |-> << >>]
    ELSE [off |-> off + n, data |-> SubSeq(body, off + 1, off + n)]
ReadField(body, off) ==
    LET ll == ReadCells(body, off, 1) IN
    IF ll.data = << >> THEN ll ELSE ReadCells(body, ll.off, ll.data[1])

\* A message with the fields read one by one; those without a place in it are skipped.
WithFields(m, body, off, fields) ==
    LET upTo[n \in 0 .. Len(fields)] ==
            IF n = 0 THEN [off |-> off, m |-> m]
            ELSE LET acc == upTo[n - 1]
                     r == ReadField(body, acc.off)
                 IN  [off |-> r.off,
                      m |-> IF fields[n] \in MessageFields
                            THEN [acc.m EXCEPT ![fields[n]] = r.data] ELSE acc.m]
    IN  upTo[Len(fields)].m

\* parseMessage06: two CCSIDs and the severity, of fixed size, come first.
Message06(body, off) ==
    LET sev == ReadCells(body, ReadCells(body, ReadCells(body, off, 1).off, 1).off, 1) IN
    WithFields([NoMessage EXCEPT !["sev"] = sev.data], body, sev.off, Fields06)

Message07(body, off) == WithFields(NoMessage, body, off, Fields07)

\* parseMessageClassic: five fields of fixed size, two lengths, the data.
MessageClassic(body, off) ==
    LET cell(i) == IF off + 5 <= Len(body) THEN <<body[off + i]>> ELSE << >>
        lengths == off + 7 <= Len(body)
        subEnd == off + 7 + body[off + 6]
        textEnd == subEnd + body[off + 7]
        slice(i, j) == IF j <= Len(body) THEN SubSeq(body, i + 1, j) ELSE << >>
    IN  [NoMessage EXCEPT
            !["id"] = cell(1), !["type"] = cell(2), !["sev"] = cell(3),
            !["file"] = cell(4), !["lib"] = cell(5),
            !["sub"] = IF lengths THEN slice(off + 7, subEnd) ELSE << >>,
            !["text"] = IF lengths THEN slice(subEnd, textEnd) ELSE << >>]

MessageHead == 3   \* length, a reserved cell, format

MessageAt(body, off) ==
    CASE body[off + 3] = 6 -> Message06(body, off + MessageHead)
      [] body[off + 3] = 7 -> Message07(body, off + MessageHead)
      [] OTHER -> MessageClassic(body, off + MessageHead)

\* parseMessages: entries up to the count, the end of the body or an entry
\* without length.
ParseMessages(body) ==
    LET upTo[n \in 0 .. body[2]] ==
            IF n = 0 THEN [off |-> ReplyHead, list |-> << >>, more |-> TRUE]
            ELSE LET acc == upTo[n - 1] IN
                 IF ~acc.more \/ acc.off + MessageHead > Len(body) THEN acc
                 ELSE [off |-> acc.off + body[acc.off + 1],
                       list |-> Append(acc.list, MessageAt(body, acc.off)),
                       more |-> body[acc.off + 1] # 0]
    IN IF Len(body) < ReplyHead THEN << >> ELSE upTo[body[2]].list
=============================================================================
