------------------------------ MODULE RowCursor ------------------------------
(***************************************************************************)
(* database.Rows: a Stmt's result set, read in blocks from the server's    *)
(* cursor.  The cursor belongs to the RPB handle and not to the Rows, so   *)
(* whoever fetches on a handle gets the rows of the handle's latest run.   *)
(* A run is a Query of a Stmt, or of another Stmt that was given the same  *)
(* handle after the first was closed.  The calls of a Conn are made one at *)
(* a time; Rows.Next is a loop and its iterations are steps here.          *)
(***************************************************************************)
EXTENDS Naturals, Sequences

CONSTANTS
    MaxRuns,     \* runs of the handle are numbered 1 .. MaxRuns
    MaxRows,     \* rows in a result set
    BlockSize,   \* Options.BlockSize
    RowLengths,  \* row lengths a statement may describe
    MaxFactor    \* 32767 in the code

ASSUME RowCursorAssumption ==
    /\ MaxRuns \in Nat /\ MaxRows \in Nat
    /\ BlockSize \in Nat \ {0} /\ MaxFactor \in Nat \ {0}
    /\ RowLengths \subseteq Nat

Runs == 1 .. MaxRuns
NoRun == 0

VARIABLES
    total,      \* rows in the result set of each run
    rowLength,
    run,        \* the number of runs so far
    current,    \* Stmt.rows: the run whose Rows the Stmt has, or NoRun
    rows,       \* the Rows of each run
    stmtClosed, \* Stmt.closed
    broken,     \* Conn.broken
    calling,    \* the run whose Rows.Next is in progress, or NoRun
    asked,      \* blocks this Next has asked for
    cursor,     \* the server's cursor on the handle: its run, NoRun when closed, and the rows sent
    got, ended  \* what the callers have received

client == <<run, current, rows, stmtClosed, broken, calling, asked>>
received == <<got, ended>>
vars == <<total, rowLength, client, cursor, received>>

\* A block: rows first + 1 .. first + count of a run.
Block == [run : Runs, first : Nat, count : Nat]
Rows == [block : Block, next : Nat, eof : BOOLEAN, cursorOpen : BOOLEAN, closed : BOOLEAN]

\* No Rows yet is as good as a closed one.
NoRows(r) == [block |-> [run |-> r, first |-> 0, count |-> 0], next |-> 0,
              eof |-> FALSE, cursorOpen |-> FALSE, closed |-> TRUE]

Init ==
    /\ total \in [Runs -> 0 .. MaxRows]
    /\ rowLength \in RowLengths
    /\ run = 0
    /\ current = NoRun /\ calling = NoRun
    /\ rows = [r \in Runs |-> NoRows(r)]
    /\ stmtClosed = FALSE /\ broken = FALSE
    /\ asked = 0
    /\ cursor = [run |-> NoRun, sent |-> 0]
    /\ got = [r \in Runs |-> << >>]
    /\ ended = [r \in Runs |-> FALSE]

-----------------------------------------------------------------------------
\* Mutant: a row longer than the block asks for no rows.
BlockingFactorUnclamped ==
    IF rowLength = 0 THEN 1 ELSE
    IF BlockSize \div rowLength > MaxFactor THEN MaxFactor ELSE BlockSize \div rowLength

\* The rows to ask for: as many as fit a block, between 1 and MaxFactor.
BlockingFactor ==
    IF rowLength = 0 \/ BlockSize < rowLength THEN 1 ELSE
    IF BlockSize \div rowLength > MaxFactor THEN MaxFactor ELSE BlockSize \div rowLength

TypeOK ==
    /\ total \in [Runs -> 0 .. MaxRows]
    /\ rowLength \in RowLengths /\ BlockingFactor \in 1 .. MaxFactor
    /\ run \in 0 .. MaxRuns
    /\ current \in Runs \union {NoRun} /\ calling \in Runs \union {NoRun}
    /\ rows \in [Runs -> Rows]
    /\ stmtClosed \in BOOLEAN /\ broken \in BOOLEAN
    /\ asked \in Nat
    /\ cursor \in [run : Runs \union {NoRun}, sent : Nat]
    /\ got \in [Runs -> Seq(Runs \X Nat)]
    /\ ended \in [Runs -> BOOLEAN]

\* What the server may answer to a fetch, with `left` rows to come: some of
\* them, as many as were asked for at most, and whether that is the end, with
\* the cursor left open (+100, 701) or closed by the server (700).  It need not
\* say so with the last row, nor after it; it sends no row only when none is
\* left.
Answers(left) ==
    {a \in [count : 0 .. left, end : {"no", "open", "closed"}] :
        /\ a.count <= BlockingFactor
        /\ a.count = 0 => left = 0 \/ BlockingFactor = 0
        /\ a.end # "no" => a.count = left}

\* A refused or unsent OPEN leaves no Rows; an answered one may also come
\* without its first block.
FirstAnswers(left) == Answers(left) \union {[count |-> 0, end |-> "no"]}

CursorAfter(r, sent, a) ==
    IF a.end = "closed" THEN [run |-> NoRun, sent |-> 0] ELSE [run |-> r, sent |-> sent + a.count]

\* Mutant: the end must be said.
AtEndIfSaid(a) == a.end # "no"

\* Whether a fetched block is the last: the reply says so (absorbEnd), or it is
\* empty.
AtEnd(a) == a.end # "no" \/ a.count = 0

\* Mutant: Rows.close does not mark the Rows.
ClosedNever(rs) == [rs EXCEPT !.cursorOpen = FALSE]

\* Rows.close marks the Rows whatever becomes of its CLOSE.
Closed(rs) == [rs EXCEPT !.closed = TRUE, !.cursorOpen = rs.cursorOpen /\ broken]

\* The Rows after Stmt.closeRows, which marks the current one closed ...
AfterClose == [r \in Runs |-> IF r = current THEN Closed(rows[r]) ELSE rows[r]]

\* ... and sends a CLOSE if the server's cursor is still open.
SendsClose == current # NoRun /\ rows[current].cursorOpen /\ ~broken

NoCursor == [run |-> NoRun, sent |-> 0]

-----------------------------------------------------------------------------
Idle == calling = NoRun

\* Stmt.Query: the previous Rows is closed, and if the new run's OPEN is
\* answered there is a new one.
Query ==
    /\ Idle /\ ~stmtClosed /\ ~broken
    /\ \/ \* a request or an argument fails, or the server refuses the OPEN
          /\ rows' = AfterClose
          /\ current' = NoRun
          /\ broken' \in BOOLEAN
          /\ cursor' = IF SendsClose THEN NoCursor ELSE cursor
          /\ UNCHANGED run
       \/ /\ run < MaxRuns
          /\ run' = run + 1
          /\ current' = run'
          /\ \E a \in FirstAnswers(total[run']) :
                /\ rows' = [AfterClose EXCEPT ![run'] =
                      [block |-> [run |-> run', first |-> 0, count |-> a.count], next |-> 0,
                       eof |-> a.end # "no", cursorOpen |-> a.end # "closed", closed |-> FALSE]]
                /\ cursor' = CursorAfter(run', 0, a)
          /\ UNCHANGED broken
    /\ UNCHANGED <<total, rowLength, stmtClosed, calling, asked, received>>

\* Rows.Close of the Stmt's Rows
CloseRows ==
    /\ Idle /\ current # NoRun
    /\ rows' = AfterClose
    /\ current' = NoRun
    /\ IF SendsClose THEN broken' \in BOOLEAN /\ cursor' = NoCursor ELSE UNCHANGED <<broken, cursor>>
    /\ UNCHANGED <<total, rowLength, run, stmtClosed, calling, asked, received>>

\* Stmt.Close, also at the end of a one-off Rows (Conn.Query): on a broken
\* connection the Rows is left as it is.
CloseStmt ==
    /\ Idle /\ ~stmtClosed
    /\ stmtClosed' = TRUE
    /\ IF broken THEN UNCHANGED <<rows, current, broken, cursor>>
       ELSE /\ rows' = AfterClose
            /\ current' = NoRun
            /\ broken' \in BOOLEAN
            /\ cursor' = IF SendsClose THEN NoCursor ELSE cursor
    /\ UNCHANGED <<total, rowLength, run, calling, asked, received>>

\* Another Stmt gets the handle.
Prepare ==
    /\ Idle /\ stmtClosed /\ ~broken
    /\ stmtClosed' = FALSE
    /\ rowLength' \in RowLengths
    /\ UNCHANGED <<total, run, current, rows, broken, calling, asked, cursor, received>>

-----------------------------------------------------------------------------
(***************************************************************************)
(* Rows.Next.  A closed Rows answers ErrClosed and changes nothing.        *)
(***************************************************************************)
BeginNext(r) ==
    /\ Idle
    /\ ~rows[r].closed
    /\ calling' = r
    /\ asked' = 0
    /\ UNCHANGED <<total, rowLength, run, current, rows, stmtClosed, broken, cursor, received>>

BlockLeft == rows[calling].next < rows[calling].block.count

\* Mutant: the row is counted before it is decoded.
NextAfterBadRow(rs) == [rs EXCEPT !.next = @ + 1]

\* A row that cannot be decoded stays the next one.
AfterBadRow(rs) == rs

\* The next row of the block, if it can be decoded.
NextRow ==
    /\ calling # NoRun /\ BlockLeft
    /\ LET rs == rows[calling] IN
       \/ /\ got' = [got EXCEPT ![calling] = Append(@, <<rs.block.run, rs.block.first + rs.next + 1>>)]
          /\ rows' = [rows EXCEPT ![calling] = [rs EXCEPT !.next = rs.next + 1]]
       \/ /\ rows' = [rows EXCEPT ![calling] = AfterBadRow(rs)]
          /\ UNCHANGED got
    /\ calling' = NoRun
    /\ UNCHANGED <<total, rowLength, run, current, stmtClosed, broken, asked, cursor, ended>>

NextEOF ==
    /\ calling # NoRun /\ ~BlockLeft
    /\ rows[calling].eof
    /\ ended' = [ended EXCEPT ![calling] = TRUE]
    /\ calling' = NoRun
    /\ UNCHANGED <<total, rowLength, run, current, rows, stmtClosed, broken, asked, cursor, got>>

\* The Rows with a block from the cursor.
Fetched(rs, a) ==
    [rs EXCEPT !.block = [run |-> cursor.run, first |-> cursor.sent, count |-> a.count],
               !.next = 0,
               !.eof = AtEnd(a),
               !.cursorOpen = rs.cursorOpen /\ a.end # "closed"]

\* Rows.fetch, and round the loop again; or its error, ErrConnBroken included.
Fetch ==
    /\ calling # NoRun /\ ~BlockLeft
    /\ ~rows[calling].eof
    /\ asked' = asked + 1
    /\ \/ /\ ~broken /\ cursor.run # NoRun
          /\ \E a \in Answers(total[cursor.run] - cursor.sent) :
                /\ rows' = [rows EXCEPT ![calling] = Fetched(rows[calling], a)]
                /\ cursor' = CursorAfter(cursor.run, cursor.sent, a)
          /\ UNCHANGED <<calling, broken>>
       \/ /\ calling' = NoRun
          /\ broken' \in {broken, TRUE}
          /\ UNCHANGED <<rows, cursor>>
    /\ UNCHANGED <<total, rowLength, run, current, stmtClosed, received>>

-----------------------------------------------------------------------------
Next ==
    \/ Query \/ CloseRows \/ CloseStmt \/ Prepare
    \/ \E r \in Runs : BeginNext(r)
    \/ NextRow \/ NextEOF \/ Fetch

Spec == Init /\ [][Next]_vars

-----------------------------------------------------------------------------
\* An open Rows that would fetch more does so from its own run's cursor, never
\* from that of a later run on its handle nor after the server closed it.
FetchesOwn ==
    \A r \in Runs : ~rows[r].closed /\ ~rows[r].eof /\ ~broken => cursor.run = r

\* Next goes to the server at most once, whatever the server sends: "a
\* non-final block with no rows would loop forever" (stmt.go, Rows.fetch).
OneFetchPerNext == asked <= 1

\* What the caller sees is what RowStream promises, whatever the blocks, the
\* errors in between and the runs that follow on the same handle.
Stream == INSTANCE RowStream WITH
    status <- [r \in Runs |-> IF r > run THEN "none" ELSE
                              IF rows[r].closed THEN "closed" ELSE "open"]

Streams == Stream!Spec
=============================================================================
