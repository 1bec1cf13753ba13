----------------------------- MODULE DriverProofs -----------------------------
(***************************************************************************)
(* Theorems about what database/sql sees of the driver: RowCursor, for any *)
(* number of runs and rows, any block size and any row lengths, and        *)
(* SqlPool, for any number of calls and connections, any limit of the pool *)
(* and any number of retries.                                              *)
(***************************************************************************)
EXTENDS RowCursor, SqlPool, Integers, SequenceTheorems, TLAPS

Open(r) == ~rows[r].closed

\* Only the Rows of the latest run may be open, and runs to come are untouched.
OneOpen ==
    /\ current <= run /\ cursor.run <= run
    /\ \A r \in Runs : Open(r) => r = current
    /\ \A r \in Runs : r > run => ~Open(r) /\ got[r] = << >> /\ ~ended[r]
    /\ calling # NoRun => Open(calling)

\* What the caller of an open Rows has got ends at its place in a block of its
\* own run; the last block ends with the run's last row.
InBlock ==
    \A r \in Runs : Open(r) =>
        LET rs == rows[r] IN
        /\ rs.block.run = r
        /\ rs.next <= rs.block.count
        /\ rs.block.first + rs.next = Len(got[r])
        /\ rs.block.first + rs.block.count <= total[r]
        /\ rs.eof => rs.block.first + rs.block.count = total[r]

\* The server goes on where the block of an open Rows ends.
CursorFollows ==
    \A r \in Runs : Open(r) /\ ~rows[r].eof /\ ~broken =>
        /\ cursor.run = r
        /\ cursor.sent = rows[r].block.first + rows[r].block.count

\* A Next that has asked for a block has one with rows, or the last.
AskedEnough ==
    /\ asked <= 1
    /\ calling # NoRun /\ asked # 0 => BlockLeft \/ rows[calling].eof

CursorInv == OneOpen /\ InBlock /\ CursorFollows /\ AskedEnough

-----------------------------------------------------------------------------
LEMMA Quotient ==
    ASSUME NEW a \in Nat, NEW b \in Nat \ {0}
    PROVE  a \div b \in Nat /\ (a >= b => a \div b >= 1)
OBVIOUS

\* Every fetch asks for a row at least, whatever the length of the rows.
LEMMA FactorInRange ==
    ASSUME NEW l \in RowLengths
    PROVE  (IF l = 0 \/ BlockSize < l THEN 1 ELSE
            IF BlockSize \div l > MaxFactor THEN MaxFactor ELSE BlockSize \div l) \in 1 .. MaxFactor
<1>1. l \in Nat /\ BlockSize \in Nat /\ MaxFactor \in Nat \ {0}
  BY RowCursorAssumption
<1>2. l # 0 => BlockSize \div l \in Nat /\ (BlockSize >= l => BlockSize \div l >= 1)
  BY <1>1, Quotient
<1> QED
  BY <1>1, <1>2

LEMMA ClosedRows ==
    ASSUME NEW rs \in Rows, broken \in BOOLEAN
    PROVE  /\ Closed(rs) \in Rows
           /\ Closed(rs).closed = TRUE
           /\ Closed(rs).block = rs.block /\ Closed(rs).next = rs.next /\ Closed(rs).eof = rs.eof
<1>1. (rs.cursorOpen /\ broken) \in BOOLEAN
  OBVIOUS
<1> QED
  BY <1>1 DEF Closed, Rows

\* Closing a Stmt's Rows marks them closed and leaves the others alone.
LEMMA ClosingRows ==
    ASSUME TypeOK
    PROVE  /\ AfterClose \in [Runs -> Rows]
           /\ \A r \in Runs : AfterClose[r].closed = (r = current \/ rows[r].closed)
           /\ \A r \in Runs : /\ AfterClose[r].block = rows[r].block
                              /\ AfterClose[r].next = rows[r].next
                              /\ AfterClose[r].eof = rows[r].eof
<1>1. \A r \in Runs : rows[r] \in Rows /\ rows[r].closed \in BOOLEAN
  BY DEF TypeOK, Rows
<1>2. broken \in BOOLEAN
  BY DEF TypeOK
<1>3. \A r \in Runs : AfterClose[r] = IF r = current THEN Closed(rows[r]) ELSE rows[r]
  BY DEF AfterClose
<1>4. ASSUME NEW r \in Runs
      PROVE  /\ AfterClose[r] \in Rows
             /\ AfterClose[r].closed = (r = current \/ rows[r].closed)
             /\ AfterClose[r].block = rows[r].block
             /\ AfterClose[r].next = rows[r].next
             /\ AfterClose[r].eof = rows[r].eof
  <2>1. CASE r = current
    BY <1>1, <1>2, <1>3, <2>1, ClosedRows
  <2>2. CASE r # current
    BY <1>1, <1>3, <2>2
  <2> QED
    BY <2>1, <2>2
<1> QED
  BY <1>4 DEF AfterClose

Answer == [count : Nat, end : {"no", "open", "closed"}]

\* What the server's answers have in common, and what those to a fetch add.
LEMMA AnswerFacts ==
    ASSUME rowLength \in RowLengths, NEW left \in Int
    PROVE  /\ \A a \in Answers(left) :
                 /\ a \in Answer /\ a.count <= left
                 /\ a.end # "no" => a.count = left
                 /\ a.count = 0 => left = 0
           /\ left >= 0 => \A a \in FirstAnswers(left) :
                 /\ a \in Answer /\ a.count <= left
                 /\ a.end # "no" => a.count = left
<1>1. BlockingFactor \in 1 .. MaxFactor
  BY FactorInRange DEF BlockingFactor
<1>2. \A a \in Answers(left) :
         /\ a \in Answer /\ a.count <= left
         /\ a.end # "no" => a.count = left
         /\ a.count = 0 => left = 0
  BY <1>1 DEF Answers, Answer
<1>3. ASSUME left >= 0, NEW a \in FirstAnswers(left), a \notin Answers(left)
      PROVE  a = [count |-> 0, end |-> "no"]
  BY <1>3 DEF FirstAnswers
<1> QED
  BY <1>2, <1>3 DEF Answer

\* The cursor after a block.
LEMMA CursorType ==
    ASSUME NEW r \in Runs, NEW sent \in Nat, NEW a \in Answer
    PROVE  /\ CursorAfter(r, sent, a) \in [run : Runs \union {NoRun}, sent : Nat]
           /\ a.end # "closed" => /\ CursorAfter(r, sent, a).run = r
                                  /\ CursorAfter(r, sent, a).sent = sent + a.count
           /\ CursorAfter(r, sent, a).run \in {r, NoRun}
BY DEF CursorAfter, Answer

LEMMA FetchedRows ==
    ASSUME NEW rs \in Rows, NEW a \in Answer, cursor.run \in Runs, cursor.sent \in Nat
    PROVE  /\ Fetched(rs, a) \in Rows
           /\ Fetched(rs, a).block = [run |-> cursor.run, first |-> cursor.sent, count |-> a.count]
           /\ Fetched(rs, a).next = 0
           /\ Fetched(rs, a).eof = AtEnd(a)
           /\ Fetched(rs, a).closed = rs.closed
<1>1. [run |-> cursor.run, first |-> cursor.sent, count |-> a.count] \in Block
  BY DEF Block, Answer
<1>2. AtEnd(a) \in BOOLEAN /\ (rs.cursorOpen /\ a.end # "closed") \in BOOLEAN
  BY DEF AtEnd
<1> QED
  BY <1>1, <1>2 DEF Fetched, Rows

LEMMA AdvancedRows ==
    ASSUME NEW rs \in Rows
    PROVE  /\ [rs EXCEPT !.next = rs.next + 1] \in Rows
           /\ [rs EXCEPT !.next = rs.next + 1].next = rs.next + 1
           /\ [rs EXCEPT !.next = rs.next + 1].block = rs.block
           /\ [rs EXCEPT !.next = rs.next + 1].eof = rs.eof
           /\ [rs EXCEPT !.next = rs.next + 1].closed = rs.closed
BY DEF Rows

-----------------------------------------------------------------------------
\* Every variable keeps its type: what the Conn asks the server for is between
\* one row and MaxFactor, whatever the length of its rows.
THEOREM CursorTypesCorrect == Spec => []TypeOK
<1>1. Init => TypeOK
  <2> SUFFICES ASSUME Init PROVE TypeOK
    OBVIOUS
  <2>1. rows \in [Runs -> Rows]
    <3>1. \A r \in Runs : NoRows(r) \in Rows
      BY DEF NoRows, Rows, Block
    <3> QED
      BY <3>1 DEF Init
  <2>2. BlockingFactor \in 1 .. MaxFactor
    BY FactorInRange DEF Init, BlockingFactor
  <2>3. got \in [Runs -> Seq(Runs \X Nat)]
    <3>1. << >> \in Seq(Runs \X Nat)
      OBVIOUS
    <3> QED
      BY <3>1 DEF Init
  <2>4. cursor \in [run : Runs \union {NoRun}, sent : Nat]
    BY DEF Init, NoRun
  <2>5. run \in 0 .. MaxRuns /\ asked \in Nat
    BY RowCursorAssumption DEF Init
  <2> QED
    BY <2>1, <2>2, <2>3, <2>4, <2>5 DEF Init, TypeOK
<1>2. TypeOK /\ [Next]_vars => TypeOK'
  <2> SUFFICES ASSUME TypeOK, [Next]_vars PROVE TypeOK'
    OBVIOUS
  <2>1. rowLength' \in RowLengths => BlockingFactor' \in 1 .. MaxFactor
    BY FactorInRange DEF BlockingFactor
  <2>2. NoCursor \in [run : Runs \union {NoRun}, sent : Nat]
    BY DEF NoCursor, NoRun
  <2>3. CASE Query
    <3>1. CASE /\ rows' = AfterClose /\ current' = NoRun /\ broken' \in BOOLEAN
               /\ cursor' = (IF SendsClose THEN NoCursor ELSE cursor) /\ UNCHANGED run
      BY <2>1, <2>2, <2>3, <3>1, ClosingRows DEF Query, TypeOK, received
    <3>2. ASSUME run < MaxRuns, run' = run + 1, current' = run', UNCHANGED broken,
                 NEW a \in FirstAnswers(total[run']),
                 rows' = [AfterClose EXCEPT ![run'] =
                    [block |-> [run |-> run', first |-> 0, count |-> a.count], next |-> 0,
                     eof |-> a.end # "no", cursorOpen |-> a.end # "closed", closed |-> FALSE]],
                 cursor' = CursorAfter(run', 0, a)
          PROVE  TypeOK'
      <4>1. run' \in Runs /\ run' \in 0 .. MaxRuns
        BY <3>2, RowCursorAssumption DEF TypeOK, Runs
      <4>2. total[run'] \in Nat
        BY <4>1, RowCursorAssumption DEF TypeOK
      <4>3. a \in Answer /\ a.count \in Nat
        BY <4>2, <3>2, AnswerFacts DEF TypeOK, Answer
      <4>4. [block |-> [run |-> run', first |-> 0, count |-> a.count], next |-> 0,
             eof |-> a.end # "no", cursorOpen |-> a.end # "closed", closed |-> FALSE] \in Rows
        BY <4>1, <4>3 DEF Rows, Block
      <4>5. rows' \in [Runs -> Rows]
        BY <3>2, <4>4, ClosingRows
      <4>6. cursor' \in [run : Runs \union {NoRun}, sent : Nat]
        BY <3>2, <4>1, <4>3, CursorType
      <4> QED
        BY <2>1, <2>3, <3>2, <4>1, <4>5, <4>6 DEF Query, TypeOK, received
    <3> QED
      BY <2>3, <3>1, <3>2 DEF Query
  <2>4. CASE CloseRows
    BY <2>1, <2>2, <2>4, ClosingRows DEF CloseRows, TypeOK, received
  <2>5. CASE CloseStmt
    BY <2>1, <2>2, <2>5, ClosingRows DEF CloseStmt, TypeOK, received
  <2>6. CASE Prepare
    BY <2>1, <2>6 DEF Prepare, TypeOK, received
  <2>7. ASSUME NEW r \in Runs, BeginNext(r) PROVE TypeOK'
    BY <2>1, <2>7 DEF BeginNext, TypeOK, received
  <2>8. CASE NextRow
    <3> DEFINE rs == rows[calling]
    <3>1. calling \in Runs /\ rs \in Rows
      BY <2>8 DEF NextRow, TypeOK
    <3>2. rs.block.run \in Runs /\ rs.block.first + rs.next + 1 \in Nat
      BY <3>1 DEF Rows, Block
    <3>3. <<rs.block.run, rs.block.first + rs.next + 1>> \in Runs \X Nat
      BY <3>2
    <3>4. Append(got[calling], <<rs.block.run, rs.block.first + rs.next + 1>>) \in Seq(Runs \X Nat)
      BY <3>1, <3>3, AppendProperties DEF TypeOK
    <3>5. got' \in [Runs -> Seq(Runs \X Nat)]
      BY <2>8, <3>1, <3>4 DEF NextRow, TypeOK
    <3>6. [rs EXCEPT !.next = rs.next + 1] \in Rows
      BY <3>1, AdvancedRows
    <3>7. rows' \in [Runs -> Rows]
      BY <2>8, <3>1, <3>6 DEF NextRow, TypeOK, AfterBadRow
    <3> QED
      BY <2>1, <2>8, <3>5, <3>7 DEF NextRow, TypeOK
  <2>9. CASE NextEOF
    BY <2>1, <2>9 DEF NextEOF, TypeOK
  <2>10. CASE Fetch
    <3>1. CASE UNCHANGED <<rows, cursor>>
      <4>1. calling' \in {calling, NoRun} /\ broken' \in {broken, TRUE}
        BY <2>10 DEF Fetch
      <4>2. asked' = asked + 1 /\ UNCHANGED <<total, rowLength, run, current, stmtClosed, got, ended>>
        BY <2>10 DEF Fetch, received
      <4>3. broken' \in BOOLEAN /\ calling' \in Runs \union {NoRun}
        BY <4>1 DEF TypeOK
      <4>4. asked' \in Nat
        BY <4>2 DEF TypeOK
      <4> QED
        BY <2>1, <3>1, <4>2, <4>3, <4>4 DEF TypeOK
    <3>2. CASE ~UNCHANGED <<rows, cursor>>
      <4>1. /\ cursor.run # NoRun /\ UNCHANGED <<calling, broken>>
            /\ \E a \in Answers(total[cursor.run] - cursor.sent) :
                  /\ rows' = [rows EXCEPT ![calling] = Fetched(rows[calling], a)]
                  /\ cursor' = CursorAfter(cursor.run, cursor.sent, a)
        BY <2>10, <3>2 DEF Fetch
      <4>2. PICK a \in Answers(total[cursor.run] - cursor.sent) :
                  /\ rows' = [rows EXCEPT ![calling] = Fetched(rows[calling], a)]
                  /\ cursor' = CursorAfter(cursor.run, cursor.sent, a)
        BY <4>1
      <4>3. cursor.run \in Runs /\ cursor.sent \in Nat /\ calling \in Runs /\ rows[calling] \in Rows
        BY <2>10, <4>1 DEF Fetch, TypeOK
      <4>4. total[cursor.run] - cursor.sent \in Int
        BY <4>3, RowCursorAssumption DEF TypeOK
      <4>5. a \in Answer
        BY <4>4, AnswerFacts DEF TypeOK
      <4>6. cursor' \in [run : Runs \union {NoRun}, sent : Nat]
        BY <4>2, <4>3, <4>5, CursorType
      <4>7. rows' \in [Runs -> Rows]
        BY <4>2, <4>3, <4>5, FetchedRows DEF TypeOK
      <4> QED
        BY <2>1, <2>10, <4>1, <4>6, <4>7 DEF Fetch, TypeOK, received
    <3> QED
      BY <3>1, <3>2
  <2>11. CASE UNCHANGED vars
    BY <2>1, <2>11 DEF vars, client, received, TypeOK
  <2> QED
    BY <2>3, <2>4, <2>5, <2>6, <2>7, <2>8, <2>9, <2>10, <2>11 DEF Next
<1> QED
  BY <1>1, <1>2, PTL DEF Spec

-----------------------------------------------------------------------------
LEMMA InitCursorInv == Init => CursorInv
<1> SUFFICES ASSUME Init PROVE CursorInv
  OBVIOUS
<1>1. \A r \in Runs : ~Open(r) /\ got[r] = << >> /\ ~ended[r]
  BY DEF Init, Open, NoRows
<1>2. current = 0 /\ run = 0 /\ cursor.run = 0 /\ calling = NoRun /\ asked = 0
  BY DEF Init, NoRun
<1> QED
  BY <1>1, <1>2 DEF CursorInv, OneOpen, InBlock, CursorFollows, AskedEnough

\* A step that changes nothing the invariant speaks of.
LEMMA Untouched ==
    ASSUME CursorInv, UNCHANGED <<total, run, current, rows, broken, calling, asked, cursor, got, ended>>
    PROVE  CursorInv'
BY DEF CursorInv, OneOpen, InBlock, CursorFollows, AskedEnough, Open, BlockLeft

\* Closing the Stmt's Rows leaves no Rows open.
LEMMA NoneOpen ==
    ASSUME TypeOK, CursorInv
    PROVE  \A r \in Runs : AfterClose[r].closed
BY ClosingRows DEF CursorInv, OneOpen, Open

LEMMA Closing ==
    ASSUME TypeOK, CursorInv, Idle,
           rows' = AfterClose, current' = NoRun, cursor' \in {NoCursor, cursor},
           UNCHANGED <<run, calling, asked, got, ended>>
    PROVE  CursorInv'
<1>1. \A r \in Runs : ~Open(r)'
  BY NoneOpen DEF Open
<1>2. current' <= run' /\ cursor'.run <= run'
  BY DEF CursorInv, OneOpen, NoRun, NoCursor, TypeOK
<1>3. calling' = NoRun /\ asked' <= 1
  BY DEF CursorInv, AskedEnough, Idle
<1>4. OneOpen'
  BY <1>1, <1>2, <1>3 DEF CursorInv, OneOpen
<1> QED
  BY <1>1, <1>3, <1>4 DEF CursorInv, InBlock, CursorFollows, AskedEnough

NewRows(a) ==
    [block |-> [run |-> run + 1, first |-> 0, count |-> a.count], next |-> 0,
     eof |-> a.end # "no", cursorOpen |-> a.end # "closed", closed |-> FALSE]

LEMMA NewRowsFields ==
    ASSUME NEW a \in Answer
    PROVE  /\ NewRows(a).block.run = run + 1 /\ NewRows(a).block.first = 0
           /\ NewRows(a).block.count = a.count /\ NewRows(a).next = 0
           /\ NewRows(a).eof => a.end # "no"
           /\ a.end # "no" => NewRows(a).eof
<1>1. NewRows(a).eof = (a.end # "no")
  BY DEF NewRows
<1>2. /\ NewRows(a).block.run = run + 1 /\ NewRows(a).block.first = 0
      /\ NewRows(a).block.count = a.count /\ NewRows(a).next = 0
  BY DEF NewRows
<1> QED
  BY <1>1, <1>2

\* The Rows of an answered OPEN is the only one, and at its first block.
LEMMA Opening ==
    ASSUME TypeOK, CursorInv, Idle, run < MaxRuns,
           run' = run + 1, current' = run + 1,
           NEW a \in FirstAnswers(total[run + 1]),
           rows' = [AfterClose EXCEPT ![run + 1] = NewRows(a)],
           cursor' = CursorAfter(run + 1, 0, a),
           UNCHANGED <<total, calling, asked, got, ended>>
    PROVE  CursorInv'
<1> DEFINE new == run + 1
<1>1. new \in Runs /\ run \in Nat /\ new # NoRun
  BY RowCursorAssumption DEF TypeOK, Runs, NoRun
<1>2. total[new] \in Nat /\ total[new] >= 0
  BY <1>1, RowCursorAssumption DEF TypeOK
<1>3. /\ a \in Answer /\ a.count \in Nat /\ a.count <= total[new]
      /\ a.end # "no" => a.count = total[new]
  BY <1>2, AnswerFacts DEF TypeOK, Answer
<1>4. \A r \in Runs : r # new => rows'[r] = AfterClose[r] /\ ~Open(r)'
  BY <1>1, NoneOpen, ClosingRows DEF Open
<1>5. rows'[new] = NewRows(a)
  BY <1>1, ClosingRows
<1>6. got[new] = << >> /\ ~ended[new]
  BY <1>1 DEF CursorInv, OneOpen
<1>7. cursor'.run \in {new, 0} /\ (a.end = "no" => cursor'.run = new /\ cursor'.sent = a.count)
  BY <1>1, <1>3, CursorType DEF NoRun
<1>8. OneOpen'
  <2>1. current' <= run' /\ cursor'.run <= run'
    BY <1>1, <1>7
  <2>2. \A r \in Runs : Open(r)' => r = current'
    BY <1>4
  <2>3. \A r \in Runs : r > run' => ~Open(r)' /\ got'[r] = << >> /\ ~ended'[r]
    BY <1>1, <1>4 DEF CursorInv, OneOpen, Runs
  <2> QED
    BY <2>1, <2>2, <2>3 DEF OneOpen, Idle
<1>9. InBlock'
  <2>1. /\ rows'[new].block.run = new
        /\ rows'[new].next = 0 /\ rows'[new].block.first = 0
        /\ rows'[new].block.count = a.count /\ (rows'[new].eof => a.end # "no")
    BY <1>3, <1>5, NewRowsFields
  <2>2. Len(got'[new]) = 0 /\ total'[new] = total[new]
    BY <1>6
  <2>3. \A r \in Runs : Open(r)' => r = new
    BY <1>4
  <2>4. /\ rows'[new].block.run = new
        /\ rows'[new].next <= rows'[new].block.count
        /\ rows'[new].block.first + rows'[new].next = Len(got'[new])
        /\ rows'[new].block.first + rows'[new].block.count <= total'[new]
        /\ rows'[new].eof => rows'[new].block.first + rows'[new].block.count = total'[new]
    BY <1>3, <2>1, <2>2
  <2> HIDE DEF new
  <2> QED
    BY <2>3, <2>4 DEF InBlock
<1>10. CursorFollows'
  <2>1. rows'[new].block.first = 0 /\ rows'[new].block.count = a.count
        /\ (a.end # "no" => rows'[new].eof)
    BY <1>3, <1>5, NewRowsFields
  <2>2. ~rows'[new].eof =>
           cursor'.run = new /\ cursor'.sent = rows'[new].block.first + rows'[new].block.count
    <3>1. rows'[new].block.first + rows'[new].block.count = a.count
      BY <1>3, <2>1
    <3>2. ~rows'[new].eof => a.end = "no"
      BY <2>1
    <3> HIDE DEF new
    <3> QED
      BY <1>7, <3>1, <3>2
  <2>3. \A r \in Runs : Open(r)' => r = new
    BY <1>4
  <2> HIDE DEF new
  <2> QED
    BY <2>2, <2>3 DEF CursorFollows
<1>11. AskedEnough'
  BY DEF CursorInv, AskedEnough, Idle
<1> QED
  BY <1>8, <1>9, <1>10, <1>11 DEF CursorInv

\* A fetch gives the Rows the rows that follow its last block.
LEMMA Fetching ==
    ASSUME TypeOK, CursorInv, calling # NoRun, ~BlockLeft, ~rows[calling].eof, ~broken,
           NEW a \in Answers(total[cursor.run] - cursor.sent),
           rows' = [rows EXCEPT ![calling] = Fetched(rows[calling], a)],
           cursor' = CursorAfter(cursor.run, cursor.sent, a),
           asked' = asked + 1,
           UNCHANGED <<total, run, current, calling, broken, got, ended>>
    PROVE  CursorInv'
<1> DEFINE c == calling
           rs == rows[c]
           left == total[c] - cursor.sent
<1>1. c \in Runs /\ rs \in Rows /\ Open(c) /\ c <= run
  BY DEF TypeOK, CursorInv, OneOpen, Runs
<1>2. cursor.run = c /\ cursor.sent = rs.block.first + rs.block.count
  BY <1>1 DEF CursorInv, CursorFollows
<1>3. cursor.sent \in Nat /\ total[c] \in Nat /\ left \in Int
  BY <1>1, RowCursorAssumption DEF TypeOK
<1>4. /\ a \in Answer /\ a.count \in Nat /\ a.count <= left
      /\ a.end # "no" => a.count = left
      /\ a.count = 0 => left = 0
  BY <1>2, <1>3, AnswerFacts DEF TypeOK, Answer
<1>5. /\ rows'[c].block.run = c /\ rows'[c].block.first = cursor.sent
      /\ rows'[c].block.count = a.count /\ rows'[c].next = 0
      /\ rows'[c].eof = AtEnd(a) /\ rows'[c].closed = rs.closed
  <2>1. rows'[c] = Fetched(rs, a)
    BY <1>1 DEF TypeOK
  <2>2. cursor.run \in Runs
    BY <1>1, <1>2
  <2>3. /\ Fetched(rs, a).block = [run |-> cursor.run, first |-> cursor.sent, count |-> a.count]
        /\ Fetched(rs, a).next = 0 /\ Fetched(rs, a).eof = AtEnd(a)
        /\ Fetched(rs, a).closed = rs.closed
    BY <1>1, <1>3, <1>4, <2>2, FetchedRows
  <2> QED
    BY <1>2, <2>1, <2>3
<1>6. \A r \in Runs : r # c => rows'[r] = rows[r] /\ ~Open(r)
  BY <1>1 DEF TypeOK, CursorInv, OneOpen
<1>7. \A r \in Runs : Open(r)' <=> r = c
  BY <1>1, <1>5, <1>6 DEF Open
<1>8. cursor'.run \in {c, 0} /\ (a.end # "closed" => cursor'.run = c /\ cursor'.sent = cursor.sent + a.count)
  BY <1>1, <1>2, <1>3, <1>4, CursorType DEF NoRun
<1>9. OneOpen'
  <2>1. cursor'.run <= run
    BY <1>1, <1>8 DEF TypeOK, Runs
  <2>2. \A r \in Runs : r > run => ~Open(r)'
    BY <1>1, <1>7 DEF TypeOK, Runs
  <2>3. c = current
    BY <1>1 DEF CursorInv, OneOpen
  <2> QED
    BY <1>1, <1>7, <2>1, <2>2, <2>3 DEF CursorInv, OneOpen
<1>10. InBlock'
  <2>1. rs.block.first + rs.next = Len(got[c]) /\ rs.next <= rs.block.count /\ ~(rs.next < rs.block.count)
    BY <1>1 DEF CursorInv, InBlock, BlockLeft
  <2>2. rs.next = rs.block.count
    BY <1>1, <2>1 DEF Rows, Block
  <2>3. cursor.sent = Len(got[c])
    BY <1>2, <2>1, <2>2
  <2>4. AtEnd(a) => a.count = left
    BY <1>4 DEF AtEnd
  <2>5. /\ rows'[c].block.run = c
        /\ rows'[c].next <= rows'[c].block.count
        /\ rows'[c].block.first + rows'[c].next = Len(got'[c])
        /\ rows'[c].block.first + rows'[c].block.count <= total'[c]
        /\ rows'[c].eof => rows'[c].block.first + rows'[c].block.count = total'[c]
    BY <1>3, <1>4, <1>5, <2>3, <2>4
  <2> QED
    BY <1>7, <2>5 DEF InBlock
<1>11. CursorFollows'
  <2>1. ~rows'[c].eof => a.end # "closed"
    BY <1>5 DEF AtEnd
  <2>2. rows'[c].block.first + rows'[c].block.count = cursor.sent + a.count
    BY <1>5
  <2> QED
    BY <1>7, <1>8, <2>1, <2>2 DEF CursorFollows
<1>12. AskedEnough'
  <2>1. asked = 0
    BY DEF CursorInv, AskedEnough, TypeOK
  <2>2. a.count # 0 => BlockLeft'
    BY <1>4, <1>5 DEF BlockLeft
  <2>3. a.count = 0 => rows'[c].eof
    BY <1>5 DEF AtEnd
  <2> QED
    BY <2>1, <2>2, <2>3 DEF AskedEnough
<1> QED
  BY <1>9, <1>10, <1>11, <1>12 DEF CursorInv

\* The caller gets the row after the last it got, and Next is over.
LEMMA Delivering ==
    ASSUME TypeOK, CursorInv, NextRow
    PROVE  CursorInv'
<1> DEFINE c == calling
           rs == rows[c]
<1>1. c \in Runs /\ rs \in Rows /\ Open(c) /\ rs.next < rs.block.count
  BY DEF NextRow, TypeOK, CursorInv, OneOpen, BlockLeft
<1>2. \A r \in Runs : r # c => rows'[r] = rows[r] /\ got'[r] = got[r]
  BY <1>1 DEF NextRow, TypeOK
<1>3. /\ rows'[c].closed = rs.closed /\ rows'[c].block = rs.block /\ rows'[c].eof = rs.eof
      /\ \/ rows'[c].next = rs.next + 1 /\ Len(got'[c]) = Len(got[c]) + 1
         \/ rows'[c].next = rs.next /\ got'[c] = got[c]
  <2>1. \/ /\ got' = [got EXCEPT ![c] = Append(got[c], <<rs.block.run, rs.block.first + rs.next + 1>>)]
           /\ rows' = [rows EXCEPT ![c] = [rs EXCEPT !.next = rs.next + 1]]
        \/ /\ rows' = [rows EXCEPT ![c] = rs]
           /\ UNCHANGED got
    BY DEF NextRow, AfterBadRow
  <2>2. Len(Append(got[c], <<rs.block.run, rs.block.first + rs.next + 1>>)) = Len(got[c]) + 1
    <3>1. got[c] \in Seq(Runs \X Nat)
      BY <1>1 DEF TypeOK
    <3>2. rs.block.run \in Runs /\ rs.block.first + rs.next + 1 \in Nat
      BY <1>1 DEF Rows, Block
    <3> QED
      BY <3>1, <3>2, AppendProperties
  <2>3. CASE /\ got' = [got EXCEPT ![c] = Append(got[c], <<rs.block.run, rs.block.first + rs.next + 1>>)]
             /\ rows' = [rows EXCEPT ![c] = [rs EXCEPT !.next = rs.next + 1]]
    BY <1>1, <2>2, <2>3, AdvancedRows DEF TypeOK
  <2>4. CASE rows' = [rows EXCEPT ![c] = rs] /\ UNCHANGED got
    BY <1>1, <2>4 DEF TypeOK
  <2> QED
    BY <2>1, <2>3, <2>4
<1>4. \A r \in Runs : Open(r)' <=> Open(r)
  BY <1>2, <1>3 DEF Open
<1>5. /\ UNCHANGED <<total, run, current, broken, asked, cursor, ended>>
      /\ calling' = NoRun
  BY DEF NextRow
<1>6. \A r \in Runs : r > run => r # c
  BY <1>1 DEF CursorInv, OneOpen
<1>7. OneOpen'
  BY <1>2, <1>4, <1>5, <1>6 DEF CursorInv, OneOpen
<1>8. InBlock'
  <2>1. ASSUME NEW r \in Runs, Open(r)'
        PROVE  /\ rows'[r].block.run = r
               /\ rows'[r].next <= rows'[r].block.count
               /\ rows'[r].block.first + rows'[r].next = Len(got'[r])
               /\ rows'[r].block.first + rows'[r].block.count <= total'[r]
               /\ rows'[r].eof => rows'[r].block.first + rows'[r].block.count = total'[r]
    <3>1. /\ rows[r].block.run = r
          /\ rows[r].next <= rows[r].block.count
          /\ rows[r].block.first + rows[r].next = Len(got[r])
          /\ rows[r].block.first + rows[r].block.count <= total[r]
          /\ rows[r].eof => rows[r].block.first + rows[r].block.count = total[r]
      BY <1>4, <2>1 DEF CursorInv, InBlock
    <3>2. CASE r = c
      <4>1. rs.next \in Nat /\ rs.block.count \in Nat /\ rs.block.first \in Nat
        BY <1>1 DEF Rows, Block
      <4>2. rows'[c].block = rs.block /\ total' = total /\ Len(got[c]) = rs.block.first + rs.next
        BY <1>3, <1>5, <3>1, <3>2
      <4>3. /\ rows'[c].next <= rs.block.count
            /\ rs.block.first + rows'[c].next = Len(got'[c])
        BY <1>1, <1>3, <3>1, <3>2, <4>1, <4>2
      <4> QED
        BY <1>3, <3>1, <3>2, <4>2, <4>3
    <3>3. CASE r # c
      BY <1>2, <1>5, <3>1, <3>3
    <3> QED
      BY <3>2, <3>3
  <2> QED
    BY <2>1 DEF InBlock
<1>9. CursorFollows'
  <2>1. \A r \in Runs : rows'[r].block = rows[r].block /\ rows'[r].eof = rows[r].eof
    BY <1>2, <1>3
  <2> QED
    BY <1>4, <1>5, <2>1 DEF CursorInv, CursorFollows
<1>10. AskedEnough'
  BY <1>5 DEF CursorInv, AskedEnough
<1> QED
  BY <1>7, <1>8, <1>9, <1>10 DEF CursorInv

LEMMA StepCursorInv == TypeOK /\ CursorInv /\ [Next]_vars => CursorInv'
<1> SUFFICES ASSUME TypeOK, CursorInv, [Next]_vars PROVE CursorInv'
  OBVIOUS
<1>1. CASE Query
  <2>1. Idle /\ UNCHANGED <<total, calling, asked, got, ended>>
    BY <1>1 DEF Query, received
  <2>2. CASE current' = NoRun
    <3>1. rows' = AfterClose /\ cursor' \in {NoCursor, cursor} /\ UNCHANGED run
      BY <1>1, <2>2, RowCursorAssumption DEF Query, TypeOK, NoRun
    <3> QED
      BY <2>1, <2>2, <3>1, Closing
  <2>3. CASE current' # NoRun
    <3>1. /\ run < MaxRuns /\ run' = run + 1 /\ current' = run + 1
          /\ \E a \in FirstAnswers(total[run + 1]) :
                /\ rows' = [AfterClose EXCEPT ![run + 1] = NewRows(a)]
                /\ cursor' = CursorAfter(run + 1, 0, a)
      <4>1. /\ run < MaxRuns /\ run' = run + 1 /\ current' = run'
            /\ \E a \in FirstAnswers(total[run']) :
                /\ rows' = [AfterClose EXCEPT ![run'] =
                      [block |-> [run |-> run', first |-> 0, count |-> a.count], next |-> 0,
                       eof |-> a.end # "no", cursorOpen |-> a.end # "closed", closed |-> FALSE]]
                /\ cursor' = CursorAfter(run', 0, a)
        BY <1>1, <2>3 DEF Query
      <4> QED
        BY <4>1 DEF NewRows
    <3> QED
      BY <2>1, <3>1, Opening
  <2> QED
    BY <2>2, <2>3
<1>2. CASE CloseRows
  <2>1. cursor' \in {NoCursor, cursor}
    BY <1>2 DEF CloseRows
  <2> QED
    BY <1>2, <2>1, Closing DEF CloseRows, received
<1>3. CASE CloseStmt
  <2>1. CASE broken
    BY <1>3, <2>1, Untouched DEF CloseStmt, received
  <2>2. CASE ~broken
    <3>1. rows' = AfterClose /\ current' = NoRun /\ cursor' \in {NoCursor, cursor}
      BY <1>3, <2>2 DEF CloseStmt
    <3> QED
      BY <1>3, <3>1, Closing DEF CloseStmt, received
  <2> QED
    BY <2>1, <2>2
<1>4. CASE Prepare
  BY <1>4, Untouched DEF Prepare, received
<1>5. ASSUME NEW r \in Runs, BeginNext(r) PROVE CursorInv'
  BY <1>5 DEF BeginNext, received, CursorInv, OneOpen, InBlock, CursorFollows, AskedEnough, Open
<1>6. CASE NextRow
  BY <1>6, Delivering
<1>7. CASE NextEOF
  <2>1. calling' = NoRun /\ UNCHANGED <<total, run, current, rows, broken, asked, cursor, got>>
    BY <1>7 DEF NextEOF
  <2>2. \A r \in Runs : r > run => ended'[r] = ended[r]
    BY <1>7 DEF NextEOF, TypeOK, CursorInv, OneOpen
  <2> QED
    BY <2>1, <2>2 DEF CursorInv, OneOpen, InBlock, CursorFollows, AskedEnough, Open
<1>8. CASE Fetch
  <2>1. /\ calling # NoRun /\ ~BlockLeft /\ ~rows[calling].eof /\ asked' = asked + 1
        /\ UNCHANGED <<total, run, current, got, ended>>
    BY <1>8 DEF Fetch, received
  <2>2. CASE calling' = NoRun
    <3>1. broken' \in {broken, TRUE} /\ UNCHANGED <<rows, cursor>>
      BY <1>8, <2>1, <2>2 DEF Fetch
    <3>2. asked' <= 1
      BY <2>1 DEF CursorInv, AskedEnough, TypeOK
    <3>3. ~broken' => ~broken
      BY <3>1
    <3> QED
      BY <2>1, <2>2, <3>1, <3>2, <3>3
      DEF CursorInv, OneOpen, InBlock, CursorFollows, AskedEnough, Open
  <2>3. CASE calling' # NoRun
    <3>1. /\ ~broken /\ UNCHANGED <<calling, broken>>
          /\ \E a \in Answers(total[cursor.run] - cursor.sent) :
                /\ rows' = [rows EXCEPT ![calling] = Fetched(rows[calling], a)]
                /\ cursor' = CursorAfter(cursor.run, cursor.sent, a)
      BY <1>8, <2>3 DEF Fetch
    <3> QED
      BY <2>1, <3>1, Fetching
  <2> QED
    BY <2>2, <2>3
<1>9. CASE UNCHANGED vars
  BY <1>9, Untouched DEF vars, client, received
<1> QED
  BY <1>1, <1>2, <1>3, <1>4, <1>5, <1>6, <1>7, <1>8, <1>9 DEF Next

THEOREM CursorInvCorrect == Spec => []CursorInv
<1> QED
  BY InitCursorInv, StepCursorInv, CursorTypesCorrect, PTL DEF Spec

-----------------------------------------------------------------------------
\* An open Rows that would fetch more finds its own run's cursor on the handle.
THEOREM OwnCursor == Spec => []FetchesOwn
<1>1. CursorInv => FetchesOwn
  BY DEF CursorInv, CursorFollows, FetchesOwn, Open
<1> QED
  BY <1>1, CursorInvCorrect, PTL

\* A Next asks the server for one block at most, whatever the blocks hold.
THEOREM OneFetch == Spec => []OneFetchPerNext
<1>1. CursorInv => OneFetchPerNext
  BY DEF CursorInv, AskedEnough, OneFetchPerNext
<1> QED
  BY <1>1, CursorInvCorrect, PTL

-----------------------------------------------------------------------------
(***************************************************************************)
(* The Rows of a handle implement RowStream.                               *)
(***************************************************************************)
StatusOf(r) == IF r > run THEN "none" ELSE IF rows[r].closed THEN "closed" ELSE "open"
Status == [r \in Runs |-> StatusOf(r)]

\* The step of RowStream, or the stutter, that a step here is.
Maps == Stream!Next \/ UNCHANGED <<total, Status, got, ended>>

LEMMA StreamStep ==
    ASSUME NEW r \in Runs, Stream!Open(r) \/ Stream!Deliver(r) \/ Stream!End(r) \/ Stream!Close(r)
    PROVE  Maps
<1>1. Stream!Next
  BY DEF Stream!Next
<1> QED
  BY <1>1 DEF Maps

LEMMA SameStatus ==
    ASSUME UNCHANGED <<run, total, got, ended>>, \A r \in Runs : rows'[r].closed = rows[r].closed
    PROVE  Maps
<1>1. Status' = Status
  BY DEF Status, StatusOf
<1> QED
  BY <1>1 DEF Maps

LEMMA ClosingMaps ==
    ASSUME TypeOK, CursorInv, rows' = AfterClose, UNCHANGED <<run, total, got, ended>>
    PROVE  Maps
<1>1. \A r \in Runs : rows'[r].closed = (r = current \/ rows[r].closed)
  BY ClosingRows
<1>2. ASSUME NEW c \in Runs, c = current, Open(c) PROVE Maps
  <2>1. \A r \in Runs : StatusOf(r)' = IF r = c THEN "closed" ELSE StatusOf(r)
    BY <1>1, <1>2 DEF StatusOf, CursorInv, OneOpen
  <2>2. StatusOf(c) = "open"
    BY <1>2 DEF StatusOf, CursorInv, OneOpen, Open, TypeOK, Runs
  <2>3. Status' = [Status EXCEPT ![c] = "closed"]
    BY <2>1 DEF Status
  <2>4. Stream!Close(c)
    BY <1>2, <2>2, <2>3 DEF Stream!Close, Status, StatusOf
  <2> QED
    BY <1>2, <2>4, StreamStep
<1>3. CASE ~(current \in Runs /\ Open(current))
  BY <1>1, <1>3, SameStatus DEF Open, TypeOK, Rows
<1> QED
  BY <1>2, <1>3

\* An answered OPEN opens its run's stream, and ends the one that was open.
LEMMA OpeningMaps ==
    ASSUME TypeOK, CursorInv, run < MaxRuns, run' = run + 1, NEW a,
           rows' = [AfterClose EXCEPT ![run + 1] = NewRows(a)],
           UNCHANGED <<total, got, ended>>
    PROVE  Maps
<1>1. PICK c \in Runs : c = run + 1
  BY RowCursorAssumption DEF TypeOK, Runs
<1>2. run \in Nat
  BY DEF TypeOK
<1>3. \A r \in Runs : r # c => rows'[r].closed
  BY <1>1, NoneOpen, ClosingRows
<1>4. ~rows'[c].closed
  BY <1>1, ClosingRows DEF NewRows
<1>5. StatusOf(c) = "none"
  BY <1>1, <1>2 DEF StatusOf
<1>6. ASSUME NEW r \in Runs
      PROVE  StatusOf(r)' = IF r = c THEN "open" ELSE
                            IF StatusOf(r) = "open" THEN "closed" ELSE StatusOf(r)
  <2>1. r = c => StatusOf(r)' = "open"
    BY <1>1, <1>2, <1>4 DEF StatusOf
  <2>2. r # c /\ r > run => StatusOf(r)' = "none" /\ StatusOf(r) = "none"
    BY <1>1, <1>2 DEF StatusOf, Runs
  <2>3. r # c /\ ~(r > run) => StatusOf(r)' = "closed" /\ StatusOf(r) \in {"open", "closed"}
    BY <1>1, <1>2, <1>3 DEF StatusOf, Runs
  <2> QED
    BY <2>1, <2>2, <2>3
<1>7. Status' = [q \in Runs |-> IF q = c THEN "open" ELSE
                                IF Status[q] = "open" THEN "closed" ELSE Status[q]]
  BY <1>6 DEF Status
<1>8. Stream!Open(c)
  BY <1>5, <1>7 DEF Stream!Open, Status, StatusOf
<1> QED
  BY <1>8, StreamStep

\* A row delivered is the next of its run's.
LEMMA DeliveringMaps ==
    ASSUME TypeOK, CursorInv, NextRow
    PROVE  Maps
<1>1. PICK c \in Runs : c = calling
  BY DEF NextRow, TypeOK
<1> DEFINE rs == rows[c]
<1>2. /\ Open(c) /\ c <= run /\ rs \in Rows /\ rs.next < rs.block.count
      /\ got[c] \in Seq(Runs \X Nat) /\ total[c] \in Nat
  BY <1>1, RowCursorAssumption DEF NextRow, TypeOK, CursorInv, OneOpen, BlockLeft, Runs
<1>3. UNCHANGED <<run, total, ended>>
  BY DEF NextRow
<1>4. \/ /\ got' = [got EXCEPT ![c] = Append(got[c], <<rs.block.run, rs.block.first + rs.next + 1>>)]
         /\ rows' = [rows EXCEPT ![c] = [rs EXCEPT !.next = rs.next + 1]]
      \/ /\ rows' = [rows EXCEPT ![c] = rs]
         /\ UNCHANGED got
  BY <1>1 DEF NextRow, AfterBadRow
<1>5. \A r \in Runs : rows'[r].closed = rows[r].closed
  BY <1>2, <1>4, AdvancedRows DEF TypeOK
<1>6. CASE UNCHANGED got
  BY <1>3, <1>5, <1>6, SameStatus
<1>7. CASE got' = [got EXCEPT ![c] = Append(got[c], <<rs.block.run, rs.block.first + rs.next + 1>>)]
  <2>1. /\ rs.block.run = c /\ rs.block.first + rs.next = Len(got[c])
        /\ rs.block.first + rs.block.count <= total[c]
    BY <1>2 DEF CursorInv, InBlock
  <2>2. Len(got[c]) < total[c]
    <3>1. rs.next \in Nat /\ rs.block.count \in Nat /\ rs.block.first \in Nat
      BY <1>2 DEF Rows, Block
    <3> QED
      BY <1>2, <2>1, <3>1
  <2>3. got' = [got EXCEPT ![c] = Append(got[c], <<c, Len(got[c]) + 1>>)]
    BY <1>7, <2>1
  <2>4. Status' = Status
    BY <1>3, <1>5 DEF Status, StatusOf
  <2>5. Status[c] = "open"
    BY <1>2 DEF Status, StatusOf, Open, TypeOK, Runs
  <2>6. Stream!Deliver(c)
    BY <1>3, <2>2, <2>3, <2>4, <2>5 DEF Stream!Deliver, Status, StatusOf
  <2> QED
    BY <2>6, StreamStep
<1> QED
  BY <1>4, <1>6, <1>7

\* io.EOF comes after the run's last row.
LEMMA EndingMaps ==
    ASSUME TypeOK, CursorInv, NextEOF
    PROVE  Maps
<1>1. PICK c \in Runs : c = calling
  BY DEF NextEOF, TypeOK
<1> DEFINE rs == rows[c]
<1>2. /\ Open(c) /\ c <= run /\ rs \in Rows /\ rs.eof /\ ~(rs.next < rs.block.count)
  BY <1>1 DEF NextEOF, TypeOK, CursorInv, OneOpen, BlockLeft, Runs
<1>3. Len(got[c]) = total[c]
  <2>1. rs.next \in Nat /\ rs.block.count \in Nat /\ rs.block.first \in Nat
    BY <1>2 DEF Rows, Block
  <2> QED
    BY <1>2, <2>1 DEF CursorInv, InBlock
<1>4. UNCHANGED <<run, total, rows, got>> /\ ended' = [ended EXCEPT ![c] = TRUE]
  BY <1>1 DEF NextEOF
<1>5. Status' = Status
  BY <1>4 DEF Status, StatusOf
<1>6. Status[c] = "open"
  BY <1>2 DEF Status, StatusOf, Open, TypeOK, Runs
<1>7. Stream!End(c)
  BY <1>3, <1>4, <1>5, <1>6 DEF Stream!End, Status, StatusOf
<1> QED
  BY <1>7, StreamStep

LEMMA StepMaps == TypeOK /\ CursorInv /\ [Next]_vars => Maps
<1> SUFFICES ASSUME TypeOK, CursorInv, [Next]_vars PROVE Maps
  OBVIOUS
<1>1. CASE Query
  <2>1. UNCHANGED <<total, got, ended>>
    BY <1>1 DEF Query, received
  <2>2. CASE current' = NoRun
    <3>1. rows' = AfterClose /\ UNCHANGED run
      BY <1>1, <2>2, RowCursorAssumption DEF Query, TypeOK, NoRun
    <3> QED
      BY <2>1, <3>1, ClosingMaps
  <2>3. CASE current' # NoRun
    <3>1. /\ run < MaxRuns /\ run' = run + 1
          /\ \E a \in FirstAnswers(total[run + 1]) :
                rows' = [AfterClose EXCEPT ![run + 1] = NewRows(a)]
      <4>1. /\ run < MaxRuns /\ run' = run + 1
            /\ \E a \in FirstAnswers(total[run']) :
                rows' = [AfterClose EXCEPT ![run'] =
                      [block |-> [run |-> run', first |-> 0, count |-> a.count], next |-> 0,
                       eof |-> a.end # "no", cursorOpen |-> a.end # "closed", closed |-> FALSE]]
        BY <1>1, <2>3 DEF Query
      <4> QED
        BY <4>1 DEF NewRows
    <3> QED
      BY <2>1, <3>1, OpeningMaps
  <2> QED
    BY <2>2, <2>3
<1>2. CASE CloseRows
  BY <1>2, ClosingMaps DEF CloseRows, received
<1>3. CASE CloseStmt
  <2>1. CASE broken
    BY <1>3, <2>1, SameStatus DEF CloseStmt, received
  <2>2. CASE ~broken
    <3>1. rows' = AfterClose
      BY <1>3, <2>2 DEF CloseStmt
    <3> QED
      BY <1>3, <3>1, ClosingMaps DEF CloseStmt, received
  <2> QED
    BY <2>1, <2>2
<1>4. CASE Prepare
  BY <1>4, SameStatus DEF Prepare, received
<1>5. ASSUME NEW r \in Runs, BeginNext(r) PROVE Maps
  BY <1>5, SameStatus DEF BeginNext, received
<1>6. CASE NextRow
  BY <1>6, DeliveringMaps
<1>7. CASE NextEOF
  BY <1>7, EndingMaps
<1>8. CASE Fetch
  <2>1. UNCHANGED <<run, total, got, ended>>
    BY <1>8 DEF Fetch, received
  <2>2. \A r \in Runs : rows'[r].closed = rows[r].closed
    <3>1. CASE UNCHANGED rows
      BY <3>1
    <3>2. CASE ~UNCHANGED rows
      <4>1. /\ cursor.run # NoRun
            /\ \E a \in Answers(total[cursor.run] - cursor.sent) :
                  rows' = [rows EXCEPT ![calling] = Fetched(rows[calling], a)]
        BY <1>8, <3>2 DEF Fetch
      <4>2. calling \in Runs /\ rows[calling] \in Rows
        BY <1>8 DEF Fetch, TypeOK
      <4>3. \A a : Fetched(rows[calling], a).closed = rows[calling].closed
        BY <4>2 DEF Fetched, Rows
      <4> QED
        BY <4>1, <4>2, <4>3 DEF TypeOK
    <3> QED
      BY <3>1, <3>2
  <2> QED
    BY <2>1, <2>2, SameStatus
<1>9. CASE UNCHANGED vars
  BY <1>9, SameStatus DEF vars, client, received
<1> QED
  BY <1>1, <1>2, <1>3, <1>4, <1>5, <1>6, <1>7, <1>8, <1>9 DEF Next

\* What the callers see of the Rows of a handle is what RowStream promises: the
\* rows of their own run, each once and in order, and io.EOF after the last.
THEOREM Implements == Spec => Streams
<1>1. Init => Stream!Init
  <2> SUFFICES ASSUME Init PROVE Stream!Init
    OBVIOUS
  <2>1. total \in [Runs -> Nat]
    BY RowCursorAssumption DEF Init
  <2>2. \A r \in Runs : r > run
    BY DEF Init, Runs
  <2> QED
    BY <2>1, <2>2 DEF Init, Stream!Init
<1>2. Maps => [Stream!Next]_<<total, Status, got, ended>>
  BY DEF Maps
<1> QED
  BY <1>1, <1>2, StepMaps, CursorTypesCorrect, CursorInvCorrect, PTL DEF Spec, Streams, Stream!Spec, Status, StatusOf

-----------------------------------------------------------------------------
(***************************************************************************)
(* SqlPool                                                                 *)
(***************************************************************************)
\* No transaction, and nothing done in one.
Clean == [autocommit |-> TRUE, pending |-> {}]

Holding(k) == call[k].stage \in {"begin", "prepare", "execute", "end", "release"}
Running(k) == call[k].stage \in {"prepare", "execute", "end"}

\* A call has its connection to itself.
Exclusive ==
    /\ \A k \in Calls : Holding(k) => call[k].conn \in Conns /\ conn[call[k].conn].place = "busy"
    /\ \A j, k \in Calls : Holding(j) /\ Holding(k) /\ call[j].conn = call[k].conn => j = k

\* Only a connection in use has a job that is not clean, and the driver knows
\* of it: the connection is broken or in its transaction.
Known ==
    \A c \in Conns :
        /\ conn[c].place = "unopened" => ~conn[c].broken /\ ~conn[c].inTx
        /\ conn[c].place = "idle" => ~conn[c].inTx
        /\ job[c] # Clean => conn[c].place = "busy" /\ (conn[c].broken \/ conn[c].inTx)

\* Pending work belongs to the call that has the connection.
PendingOwn ==
    \A c \in Conns : \A k \in job[c].pending : Holding(k) /\ call[k].conn = c

\* What a call may rely on while it has a connection.
Session ==
    \A k \in Calls :
        LET c == call[k].conn IN
        /\ call[k].stage = "begin" => call[k].tx /\ ~conn[c].broken
        /\ call[k].stage = "end" => call[k].tx
        /\ Holding(k) /\ ~call[k].tx => ~conn[c].inTx
        /\ Running(k) /\ call[k].tx /\ ~conn[c].dropped => ~job[c].autocommit
        /\ call[k].stage = "end" /\ call[k].commits /\ ~conn[c].dropped => k \in job[c].pending

\* How a call's error tells whether its work has taken effect.
Told ==
    \A k \in Calls :
        /\ applied[k] <= 1
        /\ call[k].stage \in {"acquire", "begin"} => call[k].err = "none"
        /\ Running(k) /\ (call[k].tx => call[k].commits) => call[k].err = "none"
        /\ call[k].stage \notin {"release", "done"} => applied[k] = 0
        /\ call[k].stage \in {"release", "done"} =>
              /\ call[k].err = "none" /\ (call[k].tx => call[k].commits) => applied[k] = 1
              /\ call[k].err = "bad" \/ (call[k].tx /\ ~call[k].commits) => applied[k] = 0

PoolInv == PoolTypeOK /\ Exclusive /\ Known /\ PendingOwn /\ Session /\ Told

-----------------------------------------------------------------------------
\* A step of a call that has a connection changes that call, that connection,
\* its job, and how often that call's work has taken effect.
Becomes(k, nk, nc, nj, na) ==
    /\ call' = [call EXCEPT ![k] = nk]
    /\ conn' = [conn EXCEPT ![call[k].conn] = nc]
    /\ job' = [job EXCEPT ![call[k].conn] = nj]
    /\ applied' = [applied EXCEPT ![k] = na]

\* What their new values have to satisfy for the invariant to hold again.
Connected(k, nk, nc, nj) ==
    /\ nk \in Call /\ nc \in Conn /\ nj \in Job
    /\ IF nk.stage \in {"begin", "prepare", "execute", "end", "release"}
       THEN nk.conn = call[k].conn /\ nc.place = "busy" /\ nj.pending \subseteq {k}
       ELSE nc.place \in {"idle", "closed"} /\ nj = Clean
    /\ nc.place = "idle" => ~nc.inTx
    /\ nj # Clean => nc.broken \/ nc.inTx
    /\ nk.stage = "begin" => nk.tx /\ ~nc.broken
    /\ nk.stage = "end" => nk.tx
    /\ ~nk.tx => ~nc.inTx
    /\ nk.stage \in {"prepare", "execute", "end"} /\ nk.tx /\ ~nc.dropped => ~nj.autocommit
    /\ nk.stage = "end" /\ nk.commits /\ ~nc.dropped => k \in nj.pending

Accounted(nk, na) ==
    /\ na \in {0, 1}
    /\ nk.stage \in {"acquire", "begin"} => nk.err = "none"
    /\ nk.stage \in {"prepare", "execute", "end"} /\ (nk.tx => nk.commits) => nk.err = "none"
    /\ nk.stage \notin {"release", "done"} => na = 0
    /\ nk.stage \in {"release", "done"} =>
          /\ nk.err = "none" /\ (nk.tx => nk.commits) => na = 1
          /\ nk.err = "bad" \/ (nk.tx /\ ~nk.commits) => na = 0

LEMMA HeldStep ==
    ASSUME PoolInv, NEW k \in Calls, Holding(k), NEW nk, NEW nc, NEW nj, NEW na,
           Becomes(k, nk, nc, nj, na), Connected(k, nk, nc, nj), Accounted(nk, na)
    PROVE  PoolInv'
<1> DEFINE c == call[k].conn
<1>1. c \in Conns /\ conn[c].place = "busy" /\ PoolTypeOK
  BY DEF PoolInv, Exclusive
<1>2. /\ call' \in [Calls -> Call] /\ call'[k] = nk /\ \A j \in Calls \ {k} : call'[j] = call[j]
      /\ conn' \in [Conns -> Conn] /\ conn'[c] = nc /\ \A d \in Conns \ {c} : conn'[d] = conn[d]
      /\ job' \in [Conns -> Job] /\ job'[c] = nj /\ \A d \in Conns \ {c} : job'[d] = job[d]
      /\ applied' \in [Calls -> Nat] /\ applied'[k] = na
      /\ \A j \in Calls \ {k} : applied'[j] = applied[j]
  BY <1>1 DEF PoolTypeOK, Becomes, Connected, Accounted
<1>3. \A j \in Calls \ {k} : Holding(j) => call[j].conn \in Conns \ {c}
  BY DEF PoolInv, Exclusive
<1> HIDE DEF c
<1>4. PoolTypeOK'
  BY <1>2 DEF PoolTypeOK
<1>5. Exclusive'
  <2>1. Holding(k)' => nk.conn = c /\ nc.place = "busy"
    BY <1>2 DEF Connected, Holding, c
  <2>2. \A j \in Calls \ {k} : Holding(j)' =>
           /\ Holding(j) /\ call'[j].conn = call[j].conn /\ conn'[call[j].conn] = conn[call[j].conn]
    BY <1>2, <1>3 DEF Holding
  <2> QED
    BY <1>1, <1>2, <1>3, <2>1, <2>2 DEF PoolInv, Exclusive
<1>6. Known'
  BY <1>2 DEF PoolInv, Known, Connected, Clean
<1>7. PendingOwn'
  <2>1. \A j \in nj.pending : j = k /\ Holding(k)' /\ call'[k].conn = c
    BY <1>2 DEF Connected, Clean, Holding, c
  <2>2. \A d \in Conns \ {c} : \A j \in job[d].pending : j # k /\ Holding(j) /\ call[j].conn = d
    BY DEF PoolInv, PendingOwn, c
  <2>3. \A d \in Conns \ {c} : \A j \in job[d].pending : j \in Calls
    BY <1>1 DEF PoolTypeOK, Job
  <2> QED
    BY <1>2, <2>1, <2>2, <2>3 DEF PendingOwn, Holding
<1>8. Session'
  <2>1. ASSUME NEW j \in Calls \ {k}, Holding(j) PROVE
           /\ call'[j] = call[j] /\ conn'[call[j].conn] = conn[call[j].conn]
           /\ job'[call[j].conn] = job[call[j].conn]
    BY <1>2, <1>3, <2>1
  <2> QED
    BY <1>2, <2>1 DEF PoolInv, Session, Holding, Running, Connected, c
<1>9. Told'
  BY <1>2 DEF PoolInv, Told, Running, Accounted
<1> QED
  BY <1>4, <1>5, <1>6, <1>7, <1>8, <1>9 DEF PoolInv

-----------------------------------------------------------------------------
\* What the invariant says of a call that has a connection.
LEMMA HeldFacts ==
    ASSUME PoolInv, NEW k \in Calls, Holding(k)
    PROVE  LET c == call[k].conn IN
           /\ c \in Conns /\ call[k] \in Call /\ conn[c] \in Conn /\ job[c] \in Job
           /\ conn[c].place = "busy" /\ job[c].pending \subseteq {k}
           /\ job[c] # Clean => conn[c].broken \/ conn[c].inTx
           /\ applied[k] \in {0, 1}
<1> DEFINE c == call[k].conn
<1>1. c \in Conns /\ call[k] \in Call /\ conn[c] \in Conn /\ job[c] \in Job /\ conn[c].place = "busy"
  BY DEF PoolInv, PoolTypeOK, Exclusive
<1>2. job[c].pending \subseteq {k}
  <2>1. \A j \in job[c].pending : j \in Calls /\ Holding(j) /\ call[j].conn = c
    BY <1>1 DEF PoolInv, PendingOwn, Job
  <2> QED
    BY <2>1 DEF PoolInv, Exclusive
<1>3. applied[k] \in {0, 1}
  BY DEF PoolInv, PoolTypeOK, Told
<1> QED
  BY <1>1, <1>2, <1>3 DEF PoolInv, Known

LEMMA StepBeginTx ==
    ASSUME PoolInv, NEW k \in Calls, BeginTx(k)
    PROVE  PoolInv'
<1> DEFINE c == call[k].conn
<1>1. Holding(k) /\ call[k].stage = "begin" /\ call[k].tx /\ call[k].err = "none" /\ applied[k] = 0
      /\ ~conn[c].broken /\ UNCHANGED applied
  BY DEF PoolInv, Session, Told, BeginTx, Holding
<1>2. /\ c \in Conns /\ call[k] \in Call /\ conn[c] \in Conn /\ job[c] \in Job
      /\ conn[c].place = "busy" /\ job[c].pending \subseteq {k}
      /\ job[c] # Clean => conn[c].broken \/ conn[c].inTx
  BY <1>1, HeldFacts
<1>3. PoolTypeOK
  BY DEF PoolInv
<1>4. CASE /\ conn' = [conn EXCEPT ![c].inTx = TRUE]
           /\ job' = [job EXCEPT ![c].autocommit = FALSE]
           /\ call' = [call EXCEPT ![k].stage = "prepare", ![k].begun = TRUE]
  <2> DEFINE nk == [call[k] EXCEPT !.stage = "prepare", !.begun = TRUE]
             nc == [conn[c] EXCEPT !.inTx = TRUE]
             nj == [job[c] EXCEPT !.autocommit = FALSE]
  <2>1. Becomes(k, nk, nc, nj, applied[k])
    BY <1>1, <1>2, <1>3, <1>4 DEF Becomes, PoolTypeOK
  <2>2. Connected(k, nk, nc, nj) /\ Accounted(nk, applied[k])
    BY <1>1, <1>2 DEF Connected, Accounted, Call, Stages, Conn, Job, Clean
  <2> QED
    BY <1>1, <2>1, <2>2, HeldStep
<1>5. ASSUME NEW b \in BOOLEAN, NEW nj \in Job,
             conn[c].broken => b,
             b \/ nj = job[c],
             nj.pending \subseteq {k},
             Fails(k, "real"),
             conn' = [conn EXCEPT ![c].broken = b],
             job' = [job EXCEPT ![c] = nj]
      PROVE  PoolInv'
  <2> DEFINE nk == [call[k] EXCEPT !.stage = "release", !.err = "real"]
             nc == [conn[c] EXCEPT !.broken = b]
  <2>1. Becomes(k, nk, nc, nj, applied[k])
    BY <1>1, <1>2, <1>3, <1>5 DEF Becomes, PoolTypeOK, Fails
  <2>2. Connected(k, nk, nc, nj) /\ Accounted(nk, applied[k])
    BY <1>1, <1>2, <1>5 DEF Connected, Accounted, Call, Stages, Conn, Clean
  <2> QED
    BY <1>1, <2>1, <2>2, HeldStep
<1>6. CASE Fails(k, "real") /\ UNCHANGED <<conn, job>>
  <2>1. conn' = [conn EXCEPT ![c].broken = conn[c].broken] /\ job' = [job EXCEPT ![c] = job[c]]
    BY <1>2, <1>3, <1>6 DEF PoolTypeOK, Conn
  <2>2. conn[c].broken \in BOOLEAN
    BY <1>2 DEF Conn
  <2> QED
    BY <1>2, <1>5, <1>6, <2>1, <2>2
<1>7. CASE /\ Fails(k, "real") /\ Break(k)
           /\ job' = [job EXCEPT ![c].autocommit = FALSE] \/ UNCHANGED job
  <2>1. conn' = [conn EXCEPT ![c].broken = TRUE]
    BY <1>7 DEF Break
  <2>2. PICK nj \in {job[c], [job[c] EXCEPT !.autocommit = FALSE]} : job' = [job EXCEPT ![c] = nj]
    BY <1>2, <1>3, <1>7 DEF PoolTypeOK
  <2>3. nj \in Job /\ nj.pending \subseteq {k}
    BY <1>2 DEF Job
  <2> QED
    BY <1>5, <1>7, <2>1, <2>2, <2>3
<1> QED
  BY <1>1, <1>4, <1>6, <1>7 DEF BeginTx, BadConn, Unsent, Answered, Lost

\* A statement that fails with `error`, whatever it has done (`nj`, `na`).
LEMMA StatementFailing ==
    ASSUME PoolInv, NEW k \in Calls, call[k].stage \in {"prepare", "execute"},
           NEW error \in {"bad", "real"}, NEW again \in SUBSET {"prepare", "execute"},
           StatementFails(k, error, again),
           NEW b \in BOOLEAN, conn[call[k].conn].broken => b,
           conn' = [conn EXCEPT ![call[k].conn].broken = b],
           NEW nj \in Job, job' = [job EXCEPT ![call[k].conn] = nj],
           nj.pending \subseteq {k}, nj.autocommit = job[call[k].conn].autocommit,
           nj = job[call[k].conn] \/ (call[k].tx /\ b),
           NEW na \in {0, 1}, applied' = [applied EXCEPT ![k] = na],
           na = 0 \/ (error = "real" /\ ~call[k].tx)
    PROVE  PoolInv'
<1> DEFINE c == call[k].conn
           nc == [conn[c] EXCEPT !.broken = b]
<1>1. Holding(k) /\ Running(k) /\ applied[k] = 0
  BY DEF PoolInv, Told, Holding, Running
<1>2. /\ c \in Conns /\ call[k] \in Call /\ conn[c] \in Conn /\ job[c] \in Job
      /\ conn[c].place = "busy"
      /\ job[c] # Clean => conn[c].broken \/ conn[c].inTx
  BY <1>1, HeldFacts
<1>3. /\ ~call[k].tx => ~conn[c].inTx
      /\ call[k].tx /\ ~conn[c].dropped => ~job[c].autocommit
  BY <1>1 DEF PoolInv, Session
<1>4. PICK stage \in IF call[k].tx THEN {"end", "prepare", "execute"} ELSE {"release"} :
         call' = [call EXCEPT ![k].stage = stage, ![k].err = error, ![k].commits = FALSE]
  BY DEF StatementFails
<1> DEFINE nk == [call[k] EXCEPT !.stage = stage, !.err = error, !.commits = FALSE]
<1>5. Becomes(k, nk, nc, nj, na)
  BY <1>2, <1>4 DEF Becomes, PoolInv, PoolTypeOK
<1>6. nj # Clean => nc.broken \/ nc.inTx
  BY <1>2 DEF Conn
<1>7. Connected(k, nk, nc, nj)
  BY <1>2, <1>3, <1>4, <1>6 DEF Connected, Call, Conn, Stages
<1>8. Accounted(nk, na)
  BY <1>2, <1>4 DEF Accounted, Call
<1> QED
  BY <1>1, <1>5, <1>7, <1>8, HeldStep


LEMMA StepPrepareStmt ==
    ASSUME PoolInv, NEW k \in Calls, PrepareStmt(k)
    PROVE  PoolInv'
<1> DEFINE c == call[k].conn
<1>1. /\ Holding(k) /\ Running(k) /\ call[k].stage = "prepare" /\ applied[k] = 0
      /\ (call[k].tx => call[k].commits) => call[k].err = "none"
      /\ UNCHANGED <<job, applied>>
  BY DEF PoolInv, Told, PrepareStmt, Holding, Running
<1>2. /\ c \in Conns /\ call[k] \in Call /\ conn[c] \in Conn /\ job[c] \in Job
      /\ conn[c].place = "busy" /\ job[c].pending \subseteq {k}
      /\ job[c] # Clean => conn[c].broken \/ conn[c].inTx
  BY <1>1, HeldFacts
<1>3. /\ ~call[k].tx => ~conn[c].inTx
      /\ call[k].tx /\ ~conn[c].dropped => ~job[c].autocommit
  BY <1>1 DEF PoolInv, Session
<1>4. /\ job' = [job EXCEPT ![c] = job[c]] /\ applied' = [applied EXCEPT ![k] = applied[k]]
      /\ UNCHANGED conn => conn' = [conn EXCEPT ![c].broken = conn[c].broken]
      /\ Break(k) => conn' = [conn EXCEPT ![c].broken = TRUE]
      /\ conn[c].broken \in BOOLEAN
  BY <1>1, <1>2 DEF PoolInv, PoolTypeOK, Conn, Break
<1>5. CASE GoesOn(k, "execute") /\ UNCHANGED conn
  <2> DEFINE nk == [call[k] EXCEPT !.stage = "execute"]
  <2>1. Becomes(k, nk, conn[c], job[c], applied[k])
    BY <1>1, <1>2, <1>4, <1>5 DEF Becomes, PoolInv, PoolTypeOK, GoesOn
  <2>2. Connected(k, nk, conn[c], job[c]) /\ Accounted(nk, applied[k])
    BY <1>1, <1>2, <1>3 DEF Connected, Accounted, Call, Stages, Conn, Clean
  <2> QED
    BY <1>1, <2>1, <2>2, HeldStep
<1>6. ASSUME NEW error \in {"bad", "real"}, NEW again \in SUBSET {"prepare", "execute"},
             StatementFails(k, error, again), UNCHANGED conn \/ Break(k)
      PROVE  PoolInv'
  <2> DEFINE b == IF UNCHANGED conn THEN conn[c].broken ELSE TRUE
  <2>1. b \in BOOLEAN /\ (conn[c].broken => b) /\ conn' = [conn EXCEPT ![c].broken = b]
    BY <1>4, <1>6
  <2> HIDE DEF b
  <2>2. /\ call[k].stage \in {"prepare", "execute"}
        /\ job[c] \in Job /\ job' = [job EXCEPT ![c] = job[c]] /\ job[c].pending \subseteq {k}
        /\ 0 \in {0, 1} /\ applied' = [applied EXCEPT ![k] = 0]
    BY <1>1, <1>2, <1>4
  <2> QED
    BY <1>6, <2>1, <2>2, StatementFailing
<1>7. \/ GoesOn(k, "execute") /\ UNCHANGED conn
      \/ \E error \in {"bad", "real"}, again \in SUBSET {"prepare", "execute"} :
            StatementFails(k, error, again) /\ (UNCHANGED conn \/ Break(k))
  BY DEF PrepareStmt, BadConn
<1> QED
  BY <1>5, <1>6, <1>7

LEMMA StepExecStmt ==
    ASSUME PoolInv, NEW k \in Calls, ExecStmt(k)
    PROVE  PoolInv'
<1> DEFINE c == call[k].conn
<1>1. /\ Holding(k) /\ Running(k) /\ call[k].stage = "execute" /\ applied[k] = 0
      /\ (call[k].tx => call[k].commits) => call[k].err = "none"
  BY DEF PoolInv, Told, ExecStmt, Holding, Running
<1>2. /\ c \in Conns /\ call[k] \in Call /\ conn[c] \in Conn /\ job[c] \in Job
      /\ conn[c].place = "busy" /\ job[c].pending \subseteq {k}
      /\ job[c] # Clean => conn[c].broken \/ conn[c].inTx
  BY <1>1, HeldFacts
<1>3. /\ ~call[k].tx => ~conn[c].inTx
      /\ call[k].tx /\ ~conn[c].dropped => ~job[c].autocommit
  BY <1>1 DEF PoolInv, Session
<1>4. /\ UNCHANGED job => job' = [job EXCEPT ![c] = job[c]]
      /\ UNCHANGED applied => applied' = [applied EXCEPT ![k] = 0]
      /\ UNCHANGED conn => conn' = [conn EXCEPT ![c].broken = conn[c].broken]
      /\ Break(k) => conn' = [conn EXCEPT ![c].broken = TRUE]
      /\ conn[c].broken \in BOOLEAN
  BY <1>1, <1>2 DEF PoolInv, PoolTypeOK, Conn, Break
\* A statement that runs is applied at once or waits for its transaction to end.
<1>5. ASSUME ~conn[c].broken, ~conn[c].dropped, Executes(k)
      PROVE  \E nj \in Job, na \in {0, 1} :
                /\ job' = [job EXCEPT ![c] = nj] /\ applied' = [applied EXCEPT ![k] = na]
                /\ nj.autocommit = job[c].autocommit /\ nj.pending \subseteq {k}
                /\ IF call[k].tx THEN na = 0 /\ nj.pending = {k} ELSE na = 1 /\ nj = job[c]
  <2>1. CASE call[k].tx
    <3>1. /\ job' = [job EXCEPT ![c].pending = @ \union {k}] /\ UNCHANGED applied
      BY <1>3, <1>5, <2>1 DEF Executes
    <3>2. [job[c] EXCEPT !.pending = @ \union {k}] \in Job
      BY <1>2 DEF Job
    <3> QED
      BY <1>2, <1>4, <2>1, <3>1, <3>2 DEF PoolInv, PoolTypeOK, Job
  <2>2. CASE ~call[k].tx
    <3>1. job[c] = Clean
      BY <1>2, <1>3, <1>5, <2>2
    <3>2. applied' = [applied EXCEPT ![k] = 1] /\ UNCHANGED job
      BY <1>1, <1>2, <1>5, <3>1 DEF Clean, Executes, PoolInv, PoolTypeOK
    <3> QED
      BY <1>2, <1>4, <2>2, <3>2
  <2> QED
    BY <1>2, <2>1, <2>2 DEF Call
<1>6. ASSUME NEW nj \in Job, NEW na \in {0, 1}, NEW b \in BOOLEAN,
             conn' = [conn EXCEPT ![c].broken = b], job' = [job EXCEPT ![c] = nj],
             applied' = [applied EXCEPT ![k] = na],
             nj.autocommit = job[c].autocommit, ~conn[c].broken, ~conn[c].dropped,
             IF call[k].tx THEN na = 0 /\ nj.pending = {k} ELSE na = 1 /\ nj = job[c],
             GoesOn(k, IF call[k].tx THEN "end" ELSE "release")
      PROVE  PoolInv'
  <2> DEFINE nk == [call[k] EXCEPT !.stage = IF call[k].tx THEN "end" ELSE "release"]
             nc == [conn[c] EXCEPT !.broken = b]
  <2>1. Becomes(k, nk, nc, nj, na)
    BY <1>2, <1>6 DEF Becomes, PoolInv, PoolTypeOK, GoesOn
  <2>2. /\ nk \in Call /\ nk.conn = c /\ nk.tx = call[k].tx /\ nk.tx \in BOOLEAN
        /\ nk.stage = (IF nk.tx THEN "end" ELSE "release")
        /\ nk.commits = call[k].commits /\ nk.err = call[k].err
    BY <1>2 DEF Call, Stages
  <2>3. /\ nc \in Conn /\ nc.place = "busy" /\ nc.inTx = conn[c].inTx /\ nc.dropped = conn[c].dropped
        /\ conn[c].broken => nc.broken
    BY <1>2, <1>6 DEF Conn
  <2>4. nj # Clean => nc.broken \/ nc.inTx
    <3>1. CASE call[k].tx
      BY <1>2, <1>3, <1>6, <2>3, <3>1 DEF Clean
    <3>2. CASE ~call[k].tx
      BY <1>2, <1>6, <2>3, <3>2
    <3> QED
      BY <3>1, <3>2
  <2> HIDE DEF nk, nc
  <2>5. Connected(k, nk, nc, nj)
    BY <1>2, <1>3, <1>6, <2>2, <2>3, <2>4 DEF Connected
  <2>6. Accounted(nk, na)
    BY <1>1, <1>6, <2>2 DEF Accounted
  <2> QED
    BY <1>1, <2>1, <2>5, <2>6, HeldStep
<1>7. CASE \/ Unsent(k) /\ StatementFails(k, "bad", {}) /\ UNCHANGED <<conn, job, applied>>
           \/ StatementFails(k, "real", {"prepare", "execute"}) /\ UNCHANGED <<conn, job, applied>>
           \/ StatementFails(k, "real", {"prepare", "execute"}) /\ Break(k) /\ UNCHANGED <<job, applied>>
  <2>1. PICK error \in {"bad", "real"}, again \in SUBSET {"prepare", "execute"} :
            StatementFails(k, error, again)
    BY <1>7
  <2> DEFINE b == IF UNCHANGED conn THEN conn[c].broken ELSE TRUE
  <2>2. b \in BOOLEAN /\ (conn[c].broken => b) /\ conn' = [conn EXCEPT ![c].broken = b]
    BY <1>4, <1>7
  <2> HIDE DEF b
  <2>3. /\ call[k].stage \in {"prepare", "execute"}
        /\ job[c] \in Job /\ job' = [job EXCEPT ![c] = job[c]] /\ job[c].pending \subseteq {k}
        /\ 0 \in {0, 1} /\ applied' = [applied EXCEPT ![k] = 0]
    BY <1>1, <1>2, <1>4, <1>7
  <2> QED
    BY <2>1, <2>2, <2>3, StatementFailing
<1>8. CASE /\ Answered(k) /\ Executes(k) /\ GoesOn(k, IF call[k].tx THEN "end" ELSE "release")
           /\ UNCHANGED conn \/ Break(k)
  <2>1. ~conn[c].broken /\ ~conn[c].dropped
    BY <1>8 DEF Answered
  <2> DEFINE b == IF UNCHANGED conn THEN conn[c].broken ELSE TRUE
  <2>2. b \in BOOLEAN /\ conn' = [conn EXCEPT ![c].broken = b]
    BY <1>4, <1>8
  <2> HIDE DEF b
  <2> QED
    BY <1>5, <1>6, <1>8, <2>1, <2>2
<1>9. CASE /\ Lost(k) /\ Arrived(k) /\ Executes(k) /\ Break(k)
           /\ StatementFails(k, "real", {"prepare", "execute"})
  <2>1. ~conn[c].broken /\ ~conn[c].dropped /\ conn' = [conn EXCEPT ![c].broken = TRUE]
    BY <1>9 DEF Lost, Arrived, Break
  <2>2. PICK nj \in Job, na \in {0, 1} :
           /\ job' = [job EXCEPT ![c] = nj] /\ applied' = [applied EXCEPT ![k] = na]
           /\ nj.autocommit = job[c].autocommit /\ nj.pending \subseteq {k}
           /\ IF call[k].tx THEN na = 0 /\ nj.pending = {k} ELSE na = 1 /\ nj = job[c]
    BY <1>5, <1>9, <2>1
  <2>3. call[k].tx \in BOOLEAN
    BY <1>2 DEF Call
  <2> QED
    BY <1>1, <1>9, <2>1, <2>2, <2>3, StatementFailing
<1> QED
  BY <1>1, <1>7, <1>8, <1>9 DEF ExecStmt, BadConn

LEMMA StepEndTx ==
    ASSUME PoolInv, NEW k \in Calls, EndTx(k)
    PROVE  PoolInv'
<1> DEFINE c == call[k].conn
           err == IF call[k].err = "none" THEN "real" ELSE call[k].err
<1>1. /\ Holding(k) /\ Running(k) /\ call[k].stage = "end" /\ call[k].tx /\ applied[k] = 0
      /\ call[k].commits => call[k].err = "none"
  <2>1. Holding(k) /\ Running(k) /\ call[k].stage = "end"
    BY DEF EndTx, Holding, Running
  <2>2. call[k].tx
    BY <2>1 DEF PoolInv, Session
  <2> QED
    BY <2>1, <2>2 DEF PoolInv, Told
<1>2. /\ c \in Conns /\ call[k] \in Call /\ conn[c] \in Conn /\ job[c] \in Job
      /\ conn[c].place = "busy" /\ job[c].pending \subseteq {k}
      /\ job[c] # Clean => conn[c].broken \/ conn[c].inTx
  BY <1>1, HeldFacts
<1>3. call[k].commits /\ ~conn[c].dropped => k \in job[c].pending
  BY <1>1 DEF PoolInv, Session
\* A commit applies the work of this call and of no other.
<1>4. Committed(c) /\ call[k].commits /\ ~conn[c].dropped => applied' = [applied EXCEPT ![k] = 1]
  <2>1. applied \in [Calls -> Nat] /\ applied[k] + 1 = 1
    BY <1>1 DEF PoolInv, PoolTypeOK
  <2>2. call[k].commits /\ ~conn[c].dropped => job[c].pending = {k}
    BY <1>2, <1>3
  <2> QED
    BY <2>1, <2>2 DEF Committed
<1>5. ASSUME NEW nc \in Conn, NEW nj \in Job, NEW na \in {0, 1}, NEW e \in {"none", "bad", "real"},
             call' = [call EXCEPT ![k].stage = "release", ![k].err = e],
             conn' = [conn EXCEPT ![c] = nc], nc.place = "busy",
             job' = [job EXCEPT ![c] = nj], nj = Clean \/ (nj = job[c] /\ nc.broken),
             applied' = [applied EXCEPT ![k] = na],
             na = 1 => call[k].commits /\ e # "bad",
             e = "none" /\ call[k].commits => na = 1
      PROVE  PoolInv'
  <2> DEFINE nk == [call[k] EXCEPT !.stage = "release", !.err = e]
  <2>1. Becomes(k, nk, nc, nj, na)
    BY <1>2, <1>5 DEF Becomes, PoolInv, PoolTypeOK
  <2>2. /\ nk \in Call /\ nk.stage = "release" /\ nk.conn = c /\ nk.tx /\ nk.err = e
        /\ nk.commits = call[k].commits
    BY <1>1, <1>2, <1>5 DEF Call, Stages
  <2>3. Connected(k, nk, nc, nj)
    BY <1>2, <1>5, <2>2 DEF Connected, Clean
  <2>4. Accounted(nk, na)
    BY <1>5, <2>2 DEF Accounted
  <2> QED
    BY <1>1, <2>1, <2>3, <2>4, HeldStep
<1>6. /\ UNCHANGED conn => conn' = [conn EXCEPT ![c] = conn[c]]
      /\ UNCHANGED job => job' = [job EXCEPT ![c] = job[c]]
      /\ UNCHANGED applied => applied' = [applied EXCEPT ![k] = 0]
      /\ EndJob(c) => job' = [job EXCEPT ![c] = Clean]
      /\ Break(k) => conn' = [conn EXCEPT ![c] = [conn[c] EXCEPT !.broken = TRUE]]
      /\ [conn[c] EXCEPT !.broken = TRUE] \in Conn /\ [conn[c] EXCEPT !.inTx = FALSE] \in Conn
      /\ Clean \in Job
  BY <1>1, <1>2 DEF PoolInv, PoolTypeOK, EndJob, Clean, Break, Conn, Job
<1>7. err \in {"bad", "real"} /\ (call[k].commits => err = "real") /\ call[k].commits \in BOOLEAN
      /\ call[k].err \in {"none", "bad", "real"}
      /\ 0 \in {0, 1} /\ (0 = 1 => call[k].commits /\ err # "bad")
      /\ (err = "none" /\ call[k].commits => 0 = 1) /\ err \in {"none", "bad", "real"}
  BY <1>1, <1>2 DEF Call
<1>8. CASE /\ Answered(k) /\ conn' = [conn EXCEPT ![c].inTx = FALSE] /\ EndJob(c)
           /\ IF call[k].commits THEN Committed(c) ELSE UNCHANGED applied
           /\ GoesOn(k, "release")
  <2> DEFINE nc == [conn[c] EXCEPT !.inTx = FALSE]
             na == IF call[k].commits THEN 1 ELSE 0
  <2>1. ~conn[c].dropped
    BY <1>8 DEF Answered
  <2>2. conn' = [conn EXCEPT ![c] = nc] /\ nc \in Conn /\ nc.place = "busy"
    BY <1>2, <1>6, <1>8 DEF PoolInv, PoolTypeOK, Conn
  <2>3. call' = [call EXCEPT ![k].stage = "release", ![k].err = call[k].err]
    BY <1>2, <1>8 DEF GoesOn, PoolInv, PoolTypeOK, Call
  <2>4. applied' = [applied EXCEPT ![k] = na] /\ na \in {0, 1}
    BY <1>4, <1>6, <1>8, <2>1
  <2>5. job' = [job EXCEPT ![c] = Clean] /\ Clean \in Job
    BY <1>6, <1>8
  <2>6. /\ na = 1 => call[k].commits /\ call[k].err # "bad"
        /\ call[k].err = "none" /\ call[k].commits => na = 1
    BY <1>1
  <2> HIDE DEF nc, na
  <2> QED
    BY <1>5, <1>7, <2>2, <2>3, <2>4, <2>5, <2>6
<1>9. CASE /\ Fails(k, err) /\ EndJob(c) /\ conn' = [conn EXCEPT ![c].inTx = FALSE]
           /\ UNCHANGED applied
  <2> DEFINE nc == [conn[c] EXCEPT !.inTx = FALSE]
  <2>1. conn' = [conn EXCEPT ![c] = nc] /\ nc \in Conn /\ nc.place = "busy"
    BY <1>2, <1>6, <1>9 DEF PoolInv, PoolTypeOK, Conn
  <2>2. call' = [call EXCEPT ![k].stage = "release", ![k].err = err]
    BY <1>9 DEF Fails
  <2>3. job' = [job EXCEPT ![c] = Clean] /\ Clean \in Job /\ applied' = [applied EXCEPT ![k] = 0]
    BY <1>6, <1>9
  <2> HIDE DEF nc, err
  <2> QED
    BY <1>5, <1>7, <2>1, <2>2, <2>3
<1>10. CASE /\ Lost(k) /\ Break(k) /\ Fails(k, err)
            /\ \/ Arrived(k) /\ call[k].commits /\ Committed(c) /\ EndJob(c)
               \/ UNCHANGED <<job, applied>>
  <2> DEFINE nc == [conn[c] EXCEPT !.broken = TRUE]
  <2>1. nc \in Conn /\ nc.place = "busy" /\ nc.broken /\ conn' = [conn EXCEPT ![c] = nc]
    BY <1>2, <1>6, <1>10 DEF Conn
  <2>2. call' = [call EXCEPT ![k].stage = "release", ![k].err = err]
    BY <1>10 DEF Fails
  <2>3. CASE Arrived(k) /\ call[k].commits /\ Committed(c) /\ EndJob(c)
    <3>1. applied' = [applied EXCEPT ![k] = 1]
      BY <1>4, <2>3 DEF Arrived
    <3>2. job' = [job EXCEPT ![c] = Clean] /\ Clean \in Job
      BY <1>6, <2>3
    <3> HIDE DEF nc, err
    <3> QED
      BY <1>5, <1>7, <2>1, <2>3, <2>2, <3>1, <3>2
  <2>4. CASE UNCHANGED <<job, applied>>
    <3>1. job' = [job EXCEPT ![c] = job[c]] /\ applied' = [applied EXCEPT ![k] = 0]
      BY <1>6, <2>4
    <3> HIDE DEF nc, err
    <3> QED
      BY <1>2, <1>5, <1>7, <2>1, <2>2, <3>1
  <2> QED
    BY <1>10, <2>3, <2>4
<1>11. CASE Unsent(k) /\ Fails(k, err) /\ UNCHANGED <<conn, job, applied>>
  <2>1. call' = [call EXCEPT ![k].stage = "release", ![k].err = err]
    BY <1>11 DEF Fails
  <2>2. /\ conn' = [conn EXCEPT ![c] = conn[c]] /\ job' = [job EXCEPT ![c] = job[c]]
        /\ applied' = [applied EXCEPT ![k] = 0] /\ conn[c].broken
    BY <1>6, <1>11 DEF Unsent
  <2> HIDE DEF err
  <2> QED
    BY <1>2, <1>5, <1>7, <2>1, <2>2
<1> QED
  BY <1>8, <1>9, <1>10, <1>11 DEF EndTx, TxError

LEMMA StepRelease ==
    ASSUME PoolInv, NEW k \in Calls, Release(k)
    PROVE  PoolInv'
<1> DEFINE c == call[k].conn
           nc == [conn[c] EXCEPT !.place = IF Valid(c) THEN "idle" ELSE "closed"]
           again == call[k].err = "bad" /\ ~call[k].begun /\ call[k].tries < MaxRetries
           nk == IF again
                 THEN [call[k] EXCEPT !.stage = "acquire", !.conn = NoConn, !.tries = call[k].tries + 1, !.err = "none"]
                 ELSE [call[k] EXCEPT !.stage = "done", !.conn = NoConn]
<1>1. Holding(k) /\ call[k].stage = "release" /\ UNCHANGED applied
  BY DEF Release, Holding
<1>2. /\ c \in Conns /\ call[k] \in Call /\ conn[c] \in Conn /\ job[c] \in Job
      /\ conn[c].place = "busy" /\ job[c].pending \subseteq {k}
      /\ job[c] # Clean => conn[c].broken \/ conn[c].inTx
      /\ applied[k] \in {0, 1}
  BY <1>1, HeldFacts
<1>3. /\ call[k].err = "none" /\ (call[k].tx => call[k].commits) => applied[k] = 1
      /\ call[k].err = "bad" \/ (call[k].tx /\ ~call[k].commits) => applied[k] = 0
      /\ ~call[k].tx => ~conn[c].inTx
  BY <1>1 DEF PoolInv, Told, Session
<1>4. Becomes(k, nk, nc, Clean, applied[k])
  <2>1. job' = [job EXCEPT ![c] = Clean]
    BY <1>2 DEF Release, EndJob, Clean, Valid, PoolInv, PoolTypeOK
  <2>2. call' = [call EXCEPT ![k] = nk]
    <3>1. CASE again
      BY <1>2, <3>1 DEF Release, PoolInv, PoolTypeOK
    <3>2. CASE ~again
      BY <1>2, <3>2 DEF Release, PoolInv, PoolTypeOK
    <3> QED
      BY <3>1, <3>2
  <2>3. conn' = [conn EXCEPT ![c] = nc]
    BY <1>2 DEF Release, PoolInv, PoolTypeOK
  <2>4. applied' = [applied EXCEPT ![k] = applied[k]]
    BY <1>1 DEF PoolInv, PoolTypeOK
  <2> QED
    BY <2>1, <2>2, <2>3, <2>4 DEF Becomes
<1>5. nk \in Call /\ nk.stage \in {"acquire", "done"}
  <2>1. CASE again
    <3>1. call[k].tries + 1 \in 0 .. MaxRetries
      BY <1>2, <2>1, SqlPoolAssumption DEF Call
    <3> QED
      BY <1>2, <2>1, <3>1 DEF Call, Stages
  <2>2. CASE ~again
    BY <1>2, <2>2 DEF Call, Stages
  <2> QED
    BY <2>1, <2>2
<1>6. nc \in Conn /\ nc.place \in {"idle", "closed"} /\ nc.inTx = conn[c].inTx
  BY <1>2 DEF Conn
<1>7. nc.place = "idle" => ~nc.inTx
  BY <1>2 DEF Conn, Valid
<1>8. Connected(k, nk, nc, Clean)
  BY <1>3, <1>5, <1>6, <1>7, <1>2 DEF Connected, Clean, Job, Call
<1>9. Accounted(nk, applied[k])
  BY <1>2, <1>3 DEF Accounted, Call
<1> QED
  BY <1>1, <1>4, <1>8, <1>9, HeldStep

\* A connection that is taken is held by nobody else, and its job is clean.
LEMMA StepTakes ==
    ASSUME PoolInv, NEW k \in Calls, call[k].stage = "acquire", NEW c \in Conns,
           conn[c].place = "unopened" \/ (conn[c].place = "idle" /\ Valid(c)),
           Takes(k, c), UNCHANGED <<job, applied>>
    PROVE  PoolInv'
<1> DEFINE nk == [call[k] EXCEPT !.stage = IF call[k].tx THEN "begin" ELSE "prepare", !.conn = c]
           nc == [conn[c] EXCEPT !.place = "busy"]
<1>1. /\ call[k] \in Call /\ conn[c] \in Conn /\ ~conn[c].broken /\ ~conn[c].inTx /\ job[c] = Clean
      /\ call[k].err = "none" /\ applied[k] = 0
  BY DEF PoolInv, PoolTypeOK, Known, Told, Valid
<1>2. /\ nk \in Call /\ nk.stage = (IF call[k].tx THEN "begin" ELSE "prepare") /\ nk.conn = c
      /\ nk.tx = call[k].tx /\ nk.err = "none" /\ nk.tx \in BOOLEAN
  BY <1>1 DEF Call, Stages
<1>3. nc \in Conn /\ nc.place = "busy" /\ ~nc.broken /\ ~nc.inTx
  BY <1>1 DEF Conn
<1> HIDE DEF nk, nc
<1>4. /\ call' \in [Calls -> Call] /\ call'[k] = nk /\ \A j \in Calls \ {k} : call'[j] = call[j]
      /\ conn' \in [Conns -> Conn] /\ conn'[c] = nc /\ \A d \in Conns \ {c} : conn'[d] = conn[d]
  <2>1. call' = [call EXCEPT ![k] = nk] /\ conn' = [conn EXCEPT ![c] = nc]
    BY DEF Takes, PoolInv, PoolTypeOK, nk, nc
  <2> QED
    BY <1>2, <1>3, <2>1 DEF PoolInv, PoolTypeOK
<1>5. \A j \in Calls \ {k} : Holding(j)' => Holding(j) /\ call[j].conn \in Conns \ {c}
  BY <1>4 DEF PoolInv, Exclusive, Holding
<1>6. PoolTypeOK'
  BY <1>4 DEF PoolInv, PoolTypeOK
<1>7. Exclusive'
  BY <1>2, <1>3, <1>4, <1>5 DEF PoolInv, Exclusive
<1>8. Known'
  BY <1>1, <1>3, <1>4 DEF PoolInv, Known
<1>9. PendingOwn'
  <2>1. job[c].pending = {}
    BY <1>1 DEF Clean
  <2>2. \A d \in Conns : \A j \in job[d].pending : j \in Calls /\ Holding(j) /\ call[j].conn = d
    BY DEF PoolInv, PendingOwn, PoolTypeOK, Job
  <2>3. ~Holding(k)
    BY DEF Holding
  <2> QED
    BY <1>4, <2>1, <2>2, <2>3 DEF PendingOwn, Holding
<1>10. Session'
  <2>1. ASSUME NEW j \in Calls \ {k}, Holding(j) PROVE
           call'[j] = call[j] /\ conn'[call[j].conn] = conn[call[j].conn] /\ job' = job
    BY <1>4, <1>5, <2>1 DEF Holding
  <2> QED
    BY <1>1, <1>2, <1>3, <1>4, <2>1 DEF PoolInv, Session, Holding, Running, Clean
<1>11. Told'
  BY <1>1, <1>2, <1>4 DEF PoolInv, Told, Running
<1> QED
  BY <1>6, <1>7, <1>8, <1>9, <1>10, <1>11 DEF PoolInv

\* A call that has no connection and changes only itself.
LEMMA FreeStep ==
    ASSUME PoolInv, NEW k \in Calls, call[k].stage = "acquire", NEW nk \in Call,
           nk.stage \in {"acquire", "done"}, nk.stage = "acquire" => nk.err = "none",
           nk.stage = "done" => nk.err # "none",
           call' = [call EXCEPT ![k] = nk], UNCHANGED <<job, applied>>,
           conn' = conn \/ \E c \in Conns : /\ conn[c].place = "idle"
                                            /\ conn' = [conn EXCEPT ![c].place = "closed"]
    PROVE  PoolInv'
<1>1. /\ call' \in [Calls -> Call] /\ call'[k] = nk /\ \A j \in Calls \ {k} : call'[j] = call[j]
  BY DEF PoolInv, PoolTypeOK
<1>2. /\ conn' \in [Conns -> Conn]
      /\ \A d \in Conns :
            \/ conn'[d] = conn[d]
            \/ /\ conn[d].place = "idle" /\ conn'[d].place = "closed"
  BY DEF PoolInv, PoolTypeOK, Conn
<1>3. ~Holding(k) /\ ~Holding(k)' /\ applied[k] = 0
  BY <1>1 DEF Holding, PoolInv, Told
<1>4. \A j \in Calls : Holding(j)' =>
         j # k /\ Holding(j) /\ call'[j] = call[j] /\ conn'[call[j].conn] = conn[call[j].conn]
         /\ call[j].conn \in Conns
  BY <1>1, <1>2, <1>3 DEF Holding, PoolInv, Exclusive
<1>5. PoolTypeOK'
  BY <1>1, <1>2 DEF PoolInv, PoolTypeOK
<1>6. Exclusive'
  BY <1>4 DEF PoolInv, Exclusive
<1>7. Known'
  BY <1>2 DEF PoolInv, Known
<1>8. PendingOwn'
  <2>1. \A d \in Conns : \A j \in job[d].pending : j \in Calls /\ Holding(j) /\ call[j].conn = d
    BY DEF PoolInv, PendingOwn, PoolTypeOK, Job
  <2> QED
    BY <1>1, <1>3, <2>1 DEF PendingOwn, Holding
<1>9. Session'
  BY <1>1, <1>4 DEF PoolInv, Session, Holding, Running
<1>10. Told'
  BY <1>1, <1>3 DEF PoolInv, Told, Running
<1> QED
  BY <1>5, <1>6, <1>7, <1>8, <1>9, <1>10 DEF PoolInv

LEMMA StepAcquire ==
    ASSUME PoolInv, NEW k \in Calls, Acquire(k)
    PROVE  PoolInv'
<1>1. call[k].stage = "acquire" /\ call[k] \in Call /\ UNCHANGED <<job, applied>> /\ call \in [Calls -> Call]
  BY DEF Acquire, PoolInv, PoolTypeOK
<1>2. ASSUME NEW c \in Conns, conn[c].place = "unopened" \/ (conn[c].place = "idle" /\ Valid(c)), Takes(k, c)
      PROVE  PoolInv'
  BY <1>1, <1>2, StepTakes
<1>3. ASSUME NEW c \in Conns, conn[c].place = "idle", conn' = [conn EXCEPT ![c].place = "closed"],
             call' = IF call[k].tries < MaxRetries THEN [call EXCEPT ![k].tries = @ + 1]
                     ELSE [call EXCEPT ![k].stage = "done", ![k].err = "bad"]
      PROVE  PoolInv'
  <2>1. CASE call[k].tries < MaxRetries
    <3> DEFINE nk == [call[k] EXCEPT !.tries = call[k].tries + 1]
    <3>1. nk \in Call /\ nk.stage = "acquire" /\ nk.err = "none"
      BY <1>1, <2>1, SqlPoolAssumption DEF Call, PoolInv, Told
    <3>2. call' = [call EXCEPT ![k] = nk]
      BY <1>1, <1>3, <2>1
    <3> HIDE DEF nk
    <3> QED
      BY <1>1, <1>3, <3>1, <3>2, FreeStep
  <2>2. CASE ~(call[k].tries < MaxRetries)
    <3> DEFINE nk == [call[k] EXCEPT !.stage = "done", !.err = "bad"]
    <3>1. nk \in Call /\ nk.stage = "done" /\ nk.err = "bad"
      BY <1>1 DEF Call, Stages
    <3>2. call' = [call EXCEPT ![k] = nk]
      BY <1>1, <1>3, <2>2
    <3> HIDE DEF nk
    <3> QED
      BY <1>1, <1>3, <3>1, <3>2, FreeStep
  <2> QED
    BY <2>1, <2>2
<1>4. CASE call' = [call EXCEPT ![k].stage = "done", ![k].err = "real"] /\ UNCHANGED conn
  <2> DEFINE nk == [call[k] EXCEPT !.stage = "done", !.err = "real"]
  <2>1. nk \in Call /\ nk.stage = "done" /\ nk.err = "real"
    BY <1>1 DEF Call, Stages
  <2>2. call' = [call EXCEPT ![k] = nk]
    BY <1>1, <1>4
  <2> HIDE DEF nk
  <2> QED
    BY <1>1, <1>4, <2>1, <2>2, FreeStep
<1> QED
  BY <1>2, <1>3, <1>4 DEF Acquire, At

\* A connection that breaks while idle, or is dropped, has a job that is clean.
LEMMA StepConn ==
    ASSUME PoolInv, NEW c \in Conns, Drop(c) \/ StmtCloseFails(c)
    PROVE  PoolInv'
<1>1. /\ conn[c].place \in {"idle", "busy"} /\ UNCHANGED <<call, applied>>
      /\ conn' \in [Conns -> Conn] /\ \A d \in Conns \ {c} : conn'[d] = conn[d]
      /\ conn'[c].place = conn[c].place /\ conn'[c].inTx = conn[c].inTx
      /\ conn[c].place = "busy" =>
            conn'[c].broken = conn[c].broken /\ conn'[c].dropped /\ job'[c] = Clean
  <2>1. conn \in [Conns -> Conn] /\ job \in [Conns -> Job]
    BY DEF PoolInv, PoolTypeOK
  <2>2. CASE Drop(c)
    BY <2>1, <2>2 DEF Drop, EndJob, Conn, Clean
  <2>3. CASE StmtCloseFails(c)
    BY <2>1, <2>3 DEF StmtCloseFails, Conn
  <2> QED
    BY <2>2, <2>3
<1>2. /\ job' \in [Conns -> Job] /\ \A d \in Conns \ {c} : job'[d] = job[d]
      /\ job'[c] \in {job[c], Clean}
  <2>1. job \in [Conns -> Job] /\ Clean \in Job
    BY DEF PoolInv, PoolTypeOK, Job, Clean
  <2>2. job' = job \/ job' = [job EXCEPT ![c] = Clean]
    BY DEF Drop, StmtCloseFails, EndJob, Clean
  <2> QED
    BY <2>1, <2>2
<1>3. \A k \in Calls : Holding(k)' = Holding(k) /\ Running(k)' = Running(k)
  BY <1>1 DEF Holding, Running
<1>4. PoolTypeOK'
  BY <1>1, <1>2 DEF PoolInv, PoolTypeOK
<1>5. Exclusive'
  BY <1>1, <1>3 DEF PoolInv, Exclusive
<1>6. Known'
  BY <1>1, <1>2 DEF PoolInv, Known
<1>7. PendingOwn'
  <2>1. \A d \in Conns : \A j \in job[d].pending : j \in Calls /\ Holding(j) /\ call[j].conn = d
    BY DEF PoolInv, PendingOwn, PoolTypeOK, Job
  <2> QED
    BY <1>1, <1>2, <1>3, <2>1 DEF PendingOwn, Clean
<1>8. Session'
  <2>1. \A k \in Calls : Holding(k) => call[k].conn \in Conns /\ conn[call[k].conn].place = "busy"
    BY DEF PoolInv, Exclusive
  <2>2. \A k \in Calls : Running(k) \/ call[k].stage \in {"begin", "end"} => Holding(k)
    BY DEF Running, Holding
  <2> QED
    BY <1>1, <1>2, <1>3, <2>1, <2>2 DEF PoolInv, Session
<1>9. Told'
  BY <1>1, <1>3 DEF PoolInv, Told
<1> QED
  BY <1>4, <1>5, <1>6, <1>7, <1>8, <1>9 DEF PoolInv

LEMMA InitPoolInv == PoolInit => PoolInv
<1> SUFFICES ASSUME PoolInit PROVE PoolInv
  OBVIOUS
<1>1. /\ \A k \in Calls : /\ call[k].stage = "acquire" /\ call[k].conn = NoConn /\ call[k].err = "none"
                           /\ applied[k] = 0
      /\ \A c \in Conns : job[c] = Clean /\ conn[c].place = "unopened" /\ ~conn[c].broken /\ ~conn[c].inTx
  BY DEF PoolInit, Clean
<1>2. PoolTypeOK
  <2>1. conn \in [Conns -> Conn] /\ job \in [Conns -> Job] /\ applied \in [Calls -> Nat]
    BY DEF PoolInit, Conn, Job
  <2>2. 0 \in 0 .. MaxRetries
    BY SqlPoolAssumption
  <2>3. call \in [Calls -> Call]
    <3> DEFINE First == [tx : BOOLEAN, begun : {FALSE}, commits : BOOLEAN, stage : {"acquire"},
                         conn : {NoConn}, tries : {0}, err : {"none"}]
    <3>1. call \in [Calls -> First]
      BY DEF PoolInit
    <3>2. \A f \in First : f \in Call
      BY <2>2 DEF Call, Stages
    <3> HIDE DEF First
    <3> QED
      BY <3>1, <3>2
  <2> QED
    BY <2>1, <2>3 DEF PoolTypeOK
<1>3. Exclusive /\ Known /\ PendingOwn
  BY <1>1 DEF Exclusive, Known, PendingOwn, Holding, Clean
<1>4. Session /\ Told
  BY <1>1 DEF Session, Told, Holding, Running
<1> QED
  BY <1>2, <1>3, <1>4 DEF PoolInv

LEMMA StepPoolInv == PoolInv /\ [PoolNext]_poolVars => PoolInv'
<1> SUFFICES ASSUME PoolInv, [PoolNext]_poolVars PROVE PoolInv'
  OBVIOUS
<1>1. ASSUME NEW k \in Calls, Step(k) PROVE PoolInv'
  BY <1>1, StepAcquire, StepBeginTx, StepPrepareStmt, StepExecStmt, StepEndTx, StepRelease DEF Step
<1>2. ASSUME NEW c \in Conns, Drop(c) \/ StmtCloseFails(c) PROVE PoolInv'
  BY <1>2, StepConn
<1>3. CASE UNCHANGED poolVars
  <2>1. PoolTypeOK' /\ Known'
    BY <1>3 DEF poolVars, PoolInv, PoolTypeOK, Known
  <2>2. Exclusive' /\ PendingOwn'
    BY <1>3 DEF poolVars, PoolInv, Exclusive, PendingOwn, Holding
  <2>3. Session' /\ Told'
    BY <1>3 DEF poolVars, PoolInv, Session, Told, Holding, Running
  <2> QED
    BY <2>1, <2>2, <2>3 DEF PoolInv
<1> QED
  BY <1>1, <1>2, <1>3 DEF PoolNext

\* The invariant: who holds which connection, what its job has pending, and how
\* a call's error tells whether its work is done.
THEOREM PoolInvCorrect == PoolSpec => []PoolInv
<1> QED
  BY InitPoolInv, StepPoolInv, PTL DEF PoolSpec

-----------------------------------------------------------------------------
\* The types of the driver's connections, jobs and calls.
THEOREM PoolTypesCorrect == PoolSpec => []PoolTypeOK
<1>1. PoolInv => PoolTypeOK
  BY DEF PoolInv
<1> QED
  BY <1>1, PoolInvCorrect, PTL

\* No statement takes effect twice, however often database/sql retries its call.
THEOREM AppliedOnce == PoolSpec => []AtMostOnce
<1>1. PoolInv => AtMostOnce
  BY DEF PoolInv, Told, AtMostOnce
<1> QED
  BY <1>1, PoolInvCorrect, PTL

\* A call that succeeds has taken effect; one that fails with ErrBadConn, or is
\* rolled back, has not.
THEOREM CallersTold == PoolSpec => []ToldTrue
<1>1. PoolInv => ToldTrue
  BY DEF PoolInv, Told, ToldTrue
<1> QED
  BY <1>1, PoolInvCorrect, PTL

\* No connection returns to the pool with a transaction or with pending work.
THEOREM PoolClean == PoolSpec => []IdleClean
<1>1. PoolInv => IdleClean
  <2> SUFFICES ASSUME PoolInv PROVE IdleClean
    OBVIOUS
  <2>1. \A c \in At("idle") : ~conn[c].inTx /\ job[c] = Clean
    BY DEF PoolInv, Known, At
  <2>2. \A k \in Calls : call[k].stage = "begin" => ~conn[call[k].conn].broken
    BY DEF PoolInv, Session
  <2> QED
    BY <2>1, <2>2 DEF IdleClean, Clean
<1> QED
  BY <1>1, PoolInvCorrect, PTL
=============================================================================
