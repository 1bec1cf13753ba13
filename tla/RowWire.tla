------------------------------- MODULE RowWire -------------------------------
(***************************************************************************)
(* How as-database carries the description of a statement, its arguments   *)
(* and its rows (database/wire.go, format.go): Prepare reads the formats   *)
(* of columns and markers, bind lays out the arguments, Next finds each    *)
(* column of a row.  Bodies are sequences of cells (see Params); what a    *)
(* field's cells mean is in Values, and what becomes of cursors and        *)
(* handles in RowCursor and DatabaseConn.                                  *)
(***************************************************************************)
EXTENDS Params

CONSTANTS
    Statements,  \* what the server prepares: the fields of columns and markers
    CellValues,  \* what a cell of a value may be
    MaxRows,     \* in a block
    MaxRuns      \* of a statement

\* A column or a marker; its name is a sequence of cells.
Descriptions == [type : Nat, length : Nat, name : Seq(Nat)]

ASSUME RowWireAssumption ==
    /\ MaxRows \in Nat /\ MaxRuns \in Nat
    /\ Statements \subseteq [columns : Seq(Descriptions), markers : Seq(Descriptions)]

VARIABLES
    phase,     \* of the Stmt and its Rows
    statement, \* as the server prepared it
    columns, markers, \* Stmt.columns and Stmt.params
    descriptor,       \* the format the server has for the arguments, none at first
    args, arrived,    \* the arguments of the latest run, and what the server takes them for
    query,     \* the request on its way: its descriptor, if any, and its data
    answer,    \* the body of a reply on its way, if any
    block,     \* the rows the server sent, each column's indicator and cells
    data,      \* Rows.block: the parsed block
    got,       \* what Next has returned
    runs

rowVars == <<phase, statement, columns, markers, descriptor, args, arrived, query, answer,
             block, data, got, runs>>

Null == << >>
NoData == << >>

\* Code points and other numbers of the formats.
ExtendedFormat == 14348       \* 16r380C
ExtendedParmFormat == 14349   \* 16r380D
ExtendedData == 14350         \* 16r380E
SuperExtFormat == 14354       \* 16r3812
SuperExtParmFormat == 14355   \* 16r3813
OriginalFormat == 14341       \* 16r3805
MessageText == 14338          \* 16r3802, whatever its text
NameEntry == 14400            \* 16r3840
OtherEntry == 14401
IsNull == 65535               \* the indicator -1
Unmapped == 65534             \* -2, a data mapping error
FormatHead == 3   \* token, number of fields, record size
DataHead == 5     \* token, rows, columns, indicator size, row size
NameRoom == 2     \* cells for a name in an extended format

-----------------------------------------------------------------------------
(***************************************************************************)
(* Formats.                                                                *)
(***************************************************************************)
Column(type, length, name) == [type |-> type, length |-> length, name |-> name]

\* field.nullable and encodeParameterFormat's sqlType|1.
Nullable(type) == IF type % 2 = 0 THEN type + 1 ELSE type

\* parseDataFormat: a name lies in its field's own description.
PlainName(d, base) ==
    LET n == d[base + 3] IN IF n \in 1 .. NameRoom THEN SubSeq(d, base + 4, base + 3 + n) ELSE << >>

\* parseSuperExtendedFormat: a name is one of the entries behind all the
\* descriptions, at an offset from its field's.
SuperName(d, base) ==
    LET end == d[base + 4]
        from[pos \in Nat] ==
            LET entry == base + d[base + 3] + pos IN
            IF pos + 3 > end \/ entry + 3 > Len(d) THEN << >>
            ELSE LET ll == d[entry + 1] IN
                 IF ll < 3 \/ entry + ll > Len(d) THEN << >>
                 ELSE IF d[entry + 2] = NameEntry THEN SubSeq(d, entry + 4, entry + ll)
                 ELSE from[pos + ll]
    IN from[0]

PlainCells == 3 + NameRoom
SuperCells == 4

\* The fields of a format, whose descriptions are those of an extended format or
\* of a super-extended one.
FieldsOf(d, plain) ==
    LET cells == IF plain THEN PlainCells ELSE SuperCells
        Name(base) == IF plain THEN PlainName(d, base) ELSE SuperName(d, base)
    IN  IF Len(d) < FormatHead \/ FormatHead + d[2] * cells > Len(d) THEN [ok |-> FALSE, fields |-> << >>]
        ELSE [ok |-> TRUE,
              fields |-> [i \in 1 .. d[2] |->
                            LET base == FormatHead + (i - 1) * cells IN
                            Column(d[base + 1], d[base + 2], Name(base))]]

ParseFormat(p) == FieldsOf(p.data, p.cp \in {ExtendedFormat, ExtendedParmFormat})

\* Where in a row a field is, and how long the row.
PlaceOf(fields, i) ==
    LET place[k \in 1 .. Len(fields) + 1] ==
            IF k = 1 THEN 0 ELSE place[k - 1] + fields[k - 1].length
    IN  place[i]
RecordSize(fields) == PlaceOf(fields, Len(fields) + 1)

\* encodeParameterFormat: every field nullable and without a name.
ParameterFormat(fields) ==
    <<1, Len(fields), RecordSize(fields)>>
    \o FlattenSeq([i \in DOMAIN fields |-> <<Nullable(fields[i].type), fields[i].length, 0, 0, 0>>])

\* Mutant: a null takes no room in the row.
CellsOfValue(f, value) == value

CellsOf(f, value) == IF value = Null THEN [k \in 1 .. f.length |-> 0] ELSE value

\* encodeParameterData: one row, in which a null leaves zeros.
ParameterData(fields, values) ==
    <<1, 1, Len(fields), 1, RecordSize(fields)>>
    \o [i \in DOMAIN fields |-> IF values[i] = Null THEN IsNull ELSE 0]
    \o FlattenSeq([i \in DOMAIN fields |-> CellsOf(fields[i], values[i])])

-----------------------------------------------------------------------------
(***************************************************************************)
(* Result data.                                                            *)
(***************************************************************************)
\* parseResultData: the block must hold all the rows it declares.
ParseData(d) ==
    IF Len(d) < DataHead \/ DataHead + d[2] * (d[3] * d[4] + d[5]) > Len(d) THEN [ok |-> FALSE]
    ELSE [ok |-> TRUE, raw |-> d, rows |-> d[2], columns |-> d[3], indicator |-> d[4], size |-> d[5]]

\* resultData.indicator and row, of the row after the first n.
Indicator(b, n, col) == IF b.indicator = 0 THEN 0 ELSE b.raw[DataHead + n * b.columns + col]

\* Mutant: the rows start behind the indicators of one.
RowStartOfOne(b, n) == DataHead + b.columns * b.indicator + n * b.size

RowStart(b, n) == DataHead + b.rows * b.columns * b.indicator + n * b.size

\* parseReply: one pass over the parameters; any of them may fail it.
NothingRead == [ok |-> TRUE, columns |-> << >>, markers |-> << >>, data |-> NoData]
ReadParam(acc, p) ==
    IF ~acc.ok \/ p.data = << >> THEN acc
    ELSE CASE p.cp \in {ExtendedFormat, SuperExtFormat} ->
                [acc EXCEPT !.ok = ParseFormat(p).ok, !.columns = ParseFormat(p).fields]
           [] p.cp \in {ExtendedParmFormat, SuperExtParmFormat} ->
                [acc EXCEPT !.ok = ParseFormat(p).ok, !.markers = ParseFormat(p).fields]
           [] p.cp = ExtendedData ->
                [acc EXCEPT !.ok = ParseData(p.data).ok, !.data = <<ParseData(p.data)>>]
           [] p.cp = OriginalFormat -> [acc EXCEPT !.ok = FALSE]
           [] OTHER -> acc
ParseReply(body) ==
    LET ps == DecodeParams(body)
        upTo[n \in 0 .. Len(ps.params)] ==
            IF n = 0 THEN NothingRead ELSE ReadParam(upTo[n - 1], ps.params[n])
    IN  IF ps.ok THEN upTo[Len(ps.params)] ELSE [NothingRead EXCEPT !.ok = FALSE]

-----------------------------------------------------------------------------
(***************************************************************************)
(* The client.                                                             *)
(***************************************************************************)
RowInit ==
    /\ phase = "preparing"
    /\ statement \in Statements
    /\ columns = << >> /\ markers = << >>
    /\ descriptor = << >>
    /\ args = << >> /\ arrived = << >>
    /\ query = << >> /\ answer = << >>
    /\ block = << >> /\ data = NoData /\ got = << >>
    /\ runs = 0

\* The end of Conn.Prepare.
Prepared ==
    /\ phase = "preparing" /\ answer # << >>
    /\ answer' = << >>
    /\ LET r == ParseReply(Head(answer)) IN
       IF r.ok THEN phase' = "prepared" /\ columns' = r.columns /\ markers' = r.markers
       ELSE phase' = "failed" /\ UNCHANGED <<columns, markers>>
    /\ UNCHANGED <<statement, descriptor, args, arrived, query, block, data, got, runs>>

ValuesOf(f) == {Null} \union [1 .. f.length -> CellValues]

\* Stmt.bind and the request of Query or Exec; an earlier Rows is closed.  A
\* Stmt that has the server's descriptor sends it no more.
Run ==
    /\ phase \in {"prepared", "rows"}
    /\ runs < MaxRuns
    /\ runs' = runs + 1
    /\ phase' = "running"
    /\ args' \in {v \in [DOMAIN markers -> UNION {ValuesOf(markers[i]) : i \in DOMAIN markers}] :
                     \A i \in DOMAIN markers : v[i] \in ValuesOf(markers[i])}
    /\ query' = IF markers = << >> THEN <<[format |-> << >>, data |-> << >>]>>
                ELSE <<[format |-> IF runs = 0 THEN ParameterFormat(markers) ELSE << >>,
                        data |-> ParameterData(markers, args')]>>
    /\ got' = << >> /\ data' = NoData
    /\ arrived' = << >> /\ block' = << >>
    /\ UNCHANGED <<statement, columns, markers, descriptor, answer>>

\* The rest of queryValues or exec.
Opened ==
    /\ phase = "running" /\ answer # << >>
    /\ answer' = << >>
    /\ LET r == ParseReply(Head(answer)) IN
       IF r.ok THEN phase' = "rows" /\ data' = r.data
       ELSE phase' = "failed" /\ UNCHANGED data
    /\ UNCHANGED <<statement, columns, markers, descriptor, args, arrived, query, block, got, runs>>

\* Rows.Next on a block with rows left: a row of the wrong shape, or with a
\* column that could not be mapped, is an error.
RowOf(b, n) ==
    LET start(i) == PlaceOf(columns, i)
        end(i) == start(i) + columns[i].length
    IN  IF \/ b.columns # Len(columns)
           \/ \E i \in DOMAIN columns : end(i) > b.size \/ Indicator(b, n, i) = Unmapped
        THEN [ok |-> FALSE]
        ELSE [ok |-> TRUE,
              row |-> [i \in DOMAIN columns |->
                         IF Indicator(b, n, i) = IsNull THEN Null
                         ELSE SubSeq(b.raw, RowStart(b, n) + start(i) + 1, RowStart(b, n) + end(i))]]
NextRow ==
    /\ phase = "rows" /\ data # NoData
    /\ Len(got) < Head(data).rows
    /\ LET r == RowOf(Head(data), Len(got)) IN
       IF r.ok THEN got' = Append(got, r.row) /\ UNCHANGED phase
       ELSE phase' = "failed" /\ UNCHANGED got
    /\ UNCHANGED <<statement, columns, markers, descriptor, args, arrived, query, answer, block, data, runs>>

-----------------------------------------------------------------------------
(***************************************************************************)
(* The server (not part of the repository).                                *)
(***************************************************************************)
Filled(name) == name \o [i \in 1 .. NameRoom - Len(name) |-> 0]
PlainFormat(fields) ==
    <<1, Len(fields), 0>>
    \o FlattenSeq([i \in DOMAIN fields |->
          <<fields[i].type, fields[i].length, Len(fields[i].name)>> \o Filled(fields[i].name)])

\* An entry the client does not look for, and the name.
EntriesOf(f) == <<4, OtherEntry, 37, 0>> \o <<3 + Len(f.name), NameEntry, 37>> \o f.name
SuperFormat(fields) ==
    LET before(i) == FlattenSeq([j \in 1 .. i - 1 |-> EntriesOf(fields[j])])
        offset(i) == (Len(fields) - (i - 1)) * SuperCells + Len(before(i))
    IN  <<1, Len(fields), 0>>
        \o FlattenSeq([i \in DOMAIN fields |->
              <<fields[i].type, fields[i].length, offset(i), Len(EntriesOf(fields[i]))>>])
        \o before(Len(fields) + 1)

\* A format of either kind; a long name needs the second.
FormatParams(fields, plain, super) ==
    {Param(super, SuperFormat(fields))}
    \union IF \A i \in DOMAIN fields : Len(fields[i].name) <= NameRoom
           THEN {Param(plain, PlainFormat(fields))} ELSE {}

\* A reply may hold parameters the client skips, and may be cut short.
Sends(params) ==
    \E order \in SetToSeqs(params \union {Param(MessageText, <<37>>)}) :
        answer' \in {<<EncodeParams(order)>>, <<Front(EncodeParams(order))>>}

Describe ==
    /\ phase = "preparing" /\ answer = << >>
    /\ \/ \E c \in FormatParams(statement.columns, ExtendedFormat, SuperExtFormat) :
          \E m \in FormatParams(statement.markers, ExtendedParmFormat, SuperExtParmFormat) :
              Sends({c, m})
       \/ Sends({Param(OriginalFormat, <<1>>)})
    /\ UNCHANGED <<phase, statement, columns, markers, descriptor, args, arrived, query, block, data, got, runs>>

\* The arguments by the descriptor of this statement.
Taken(format, d) ==
    LET length(i) == format[FormatHead + (i - 1) * PlainCells + 2]
        from[i \in 1 .. d[3] + 1] ==
            IF i = 1 THEN DataHead + d[3] ELSE from[i - 1] + length(i - 1)
    IN  [i \in 1 .. d[3] |->
            [type |-> format[FormatHead + (i - 1) * PlainCells + 1],
             cells |-> IF d[DataHead + i] = IsNull THEN Null
                       ELSE [k \in 1 .. length(i) |->
                               IF from[i] + k <= Len(d) THEN d[from[i] + k] ELSE 0]]]

\* A row as the server has it: each column null, not mapped, or its cells.
Cells(f) ==
    [ind : {0}, cells : [1 .. f.length -> CellValues]]
    \union [ind : IF f.type % 2 = 1 THEN {IsNull, Unmapped} ELSE {}, cells : {[i \in 1 .. f.length |-> 0]}]
RowsFor(fields) ==
    {r \in [DOMAIN fields -> UNION {Cells(fields[i]) : i \in DOMAIN fields}] :
        \A i \in DOMAIN fields : r[i] \in Cells(fields[i])}
Blocks(fields) == UNION {[1 .. n -> RowsFor(fields)] : n \in 0 .. MaxRows}

\* Indicators are left out where no column is null; rows may be longer than
\* their columns, the data longer than the rows.
DataOf(fields, rows, indicators, pad) ==
    LET indicatorsOf(r) == [i \in DOMAIN fields |-> r[i].ind]
        cellsOf(r) == FlattenSeq([i \in DOMAIN fields |-> r[i].cells]) \o [i \in 1 .. pad |-> 9]
    IN  <<1, Len(rows), Len(fields), IF indicators THEN 1 ELSE 0, Len(cellsOf(rows[1]))>>
        \o (IF indicators THEN FlattenSeq([n \in DOMAIN rows |-> indicatorsOf(rows[n])]) ELSE << >>)
        \o FlattenSeq([n \in DOMAIN rows |-> cellsOf(rows[n])])

Answers ==
    /\ phase = "running" /\ query # << >>
    /\ query' = << >>
    /\ LET q == Head(query) IN
       /\ descriptor' = IF q.format = << >> THEN descriptor ELSE q.format
       /\ arrived' = IF q.data = << >> THEN << >> ELSE Taken(descriptor', q.data)
    /\ \E rows \in Blocks(statement.columns) : \E indicators \in BOOLEAN : \E pad \in {0, 1} :
          /\ indicators \/ \A n \in DOMAIN rows : \A i \in DOMAIN rows[n] : rows[n][i].ind = 0
          /\ block' = rows
          /\ IF rows = << >> THEN Sends({})
             ELSE Sends({Param(ExtendedData, DataOf(statement.columns, rows, indicators, pad))})
    /\ UNCHANGED <<phase, statement, columns, markers, args, data, got, runs>>

-----------------------------------------------------------------------------
RowNext == Prepared \/ Run \/ Opened \/ NextRow \/ Describe \/ Answers

-----------------------------------------------------------------------------
\* The server takes the arguments of every run for what the caller gave, null
\* for null and each in its own field, by the descriptor of the first run.
BoundTrue ==
    arrived # << >> /\ query = << >> =>
        /\ Len(arrived) = Len(statement.markers)
        /\ \A i \in DOMAIN arrived :
              /\ arrived[i].cells = args[i]
              /\ arrived[i].type = Nullable(statement.markers[i].type)

\* Rows are read as the server wrote them, each under its own columns' names and
\* types, whichever formats, order of parameters and indicators it chose; one
\* with a column that could not be mapped is never given to the caller.
RowsTrue ==
    /\ phase \in {"prepared", "running", "rows"} =>
          columns = statement.columns /\ markers = statement.markers
    /\ \A n \in DOMAIN got : \A i \in DOMAIN statement.columns :
          LET sent == block[n][i] IN
          got[n][i] = (IF sent.ind = IsNull THEN Null ELSE sent.cells) /\ sent.ind # Unmapped
=============================================================================
