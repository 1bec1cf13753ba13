---------------------------- MODULE DatabaseConn ----------------------------
(***************************************************************************)
(* database.Conn and the Stmts and Rows made from it, against the server   *)
(* job they drive.  A Conn is used by one goroutine at a time: an API call *)
(* is a sequence of requests, and each step here is one request, with what *)
(* becomes of it.  A request that expects a reply (Conn.call) is answered, *)
(* refused, or ends in an I/O error after which nobody knows whether the   *)
(* server carried it out; one that expects none (Conn.send) is sent or not.*)
(*                                                                         *)
(* Conn.Exec and Conn.Query are Prepare, Exec or Query, and Close in a row:*)
(* their requests are those of the calls they make.                        *)
(***************************************************************************)
EXTENDS Naturals

CONSTANTS
    Statements,    \* Stmt objects of the program
    NoStmt,        \* no Stmt
    MaxStatements, \* maxStatements, 9999 in the code
    Refusals       \* the requests the server may refuse, a subset of Refusable

Refusable == {"prepare", "execute", "open", "fetch", "ping", "begin", "commit",
              "rollback", "autocommit", "deleteRPB"}

ASSUME DatabaseConnAssumption ==
    /\ NoStmt \notin Statements
    /\ MaxStatements \in Nat \ {0}
    /\ Refusals \subseteq Refusable

Handles == 1 .. MaxStatements
NoHandle == 0

VARIABLES
    ids,     \* Conn.ids: the handles in use
    inTx, broken, closed,
    st,      \* the Stmts, each with its current Rows
    op,      \* the API call in progress (stage # "idle") or the result of the last one
    rpb,     \* the job's request parameter blocks: what handle is prepared for
    descriptor,  \* its parameter descriptors: whose markers handle describes
    cursors,     \* handles of its open cursors
    autocommit,  \* its autocommit attribute
    work         \* what became of the work done under commitment control

job == <<rpb, descriptor, cursors, autocommit, work>>
vars == <<ids, inTx, broken, closed, st, op, job>>

\* cursor: "none" when st.rows is nil, "open" when the Rows must still close
\* the server's cursor, "done" when it need not.
Stmt == [phase : {"free", "preparing", "open", "closing"}, id : Handles \union {NoHandle},
         columns : BOOLEAN, params : BOOLEAN, descriptorSent : BOOLEAN,
         cursor : {"none", "open", "done"}, eof : BOOLEAN]

FreeStmt == [phase |-> "free", id |-> NoHandle, columns |-> FALSE, params |-> FALSE,
             descriptorSent |-> FALSE, cursor |-> "none", eof |-> FALSE]

Names == {"none", "prepare", "closeStmt", "exec", "query", "next", "closeRows", "ping",
          "begin", "commit", "rollback", "close"}
Stages == {"idle", "createRPB", "prepare", "closeCursor", "changeDescriptor", "execute", "open",
           "fetch", "deleteDescriptor", "deleteRPB", "ping", "begin", "commit", "rollback",
           "autocommit"}
\* "io": an I/O error of a request that may have reached the server; "server":
\* a refusal; "broken": ErrConnBroken; "closed": ErrClosed; "local": the rest.
Errors == {"io", "server", "broken", "closed", "local"}

Op == [name : Names, stmt : Statements \union {NoStmt}, stage : Stages,
       errs : SUBSET Errors, sent : BOOLEAN]

TypeOK ==
    /\ ids \subseteq Handles
    /\ inTx \in BOOLEAN /\ broken \in BOOLEAN /\ closed \in BOOLEAN
    /\ st \in [Statements -> Stmt]
    /\ op \in Op
    /\ rpb \in [Handles -> Statements \union {NoStmt, "created"}]
    /\ descriptor \in [Handles -> Statements \union {NoStmt}]
    /\ cursors \subseteq Handles
    /\ autocommit \in BOOLEAN
    /\ work \in {"none", "pending", "committed", "rolledback"}

\* A Conn as Connect returns it: logged on, autocommit on.
Init ==
    /\ ids = {}
    /\ inTx = FALSE /\ broken = FALSE /\ closed = FALSE
    /\ st = [s \in Statements |-> FreeStmt]
    /\ op = [name |-> "none", stmt |-> NoStmt, stage |-> "idle", errs |-> {}, sent |-> FALSE]
    /\ rpb = [h \in Handles |-> NoStmt]
    /\ descriptor = [h \in Handles |-> NoStmt]
    /\ cursors = {}
    /\ autocommit = TRUE
    /\ work = "none"

-----------------------------------------------------------------------------
Idle == op.stage = "idle"

\* Mutant: broken is only looked at by the pool.
UsableUnlessClosed == ~closed

Usable == ~closed /\ ~broken
ConnError == IF closed THEN "closed" ELSE "broken"

\* The API call `name` begins with the request `stage`, or ends with `errs`.
Start(name, s, stage, errs) ==
    op' = [name |-> name, stmt |-> s, stage |-> stage, errs |-> errs, sent |-> FALSE]

\* The call goes on with the request `stage` ("idle": it returns), having
\* sent one if the connection was usable.
Proceed(stage, errs) ==
    op' = [op EXCEPT !.stage = stage, !.errs = @ \union errs, !.sent = @ \/ Usable]

Refused(r) == Usable /\ r \in Refusals
IOFails == Usable /\ broken' = TRUE

S == op.stmt         \* the Stmt the call is about
H == st[op.stmt].id  \* its handle

\* The Stmt is closed and its handle free again.
Release(s) ==
    /\ st' = [st EXCEPT ![s] = FreeStmt]
    /\ ids' = ids \ {st[s].id}

-----------------------------------------------------------------------------
(***************************************************************************)
(* API calls, up to their first request.                                   *)
(***************************************************************************)

\* Mutants: handle 0 is handed out; handles in use are.
FreeHandlesFromZero == (0 .. MaxStatements) \ ids
FreeHandlesAll == Handles

FreeHandles == Handles \ ids

\* Conn.Prepare up to the creation of its RPB; allocID takes the lowest handle.
Prepare(s) ==
    /\ Idle
    /\ st[s].phase = "free"
    /\ \/ /\ ~Usable
          /\ Start("prepare", s, "idle", {ConnError})
          /\ UNCHANGED <<ids, st>>
       \/ /\ Usable /\ FreeHandles = {}
          /\ Start("prepare", s, "idle", {"local"})
          /\ UNCHANGED <<ids, st>>
       \/ /\ Usable
          /\ \E h \in FreeHandles :
                /\ \A g \in FreeHandles : h <= g
                /\ ids' = ids \union {h}
                /\ st' = [st EXCEPT ![s] = [FreeStmt EXCEPT !.phase = "preparing", !.id = h]]
          /\ Start("prepare", s, "createRPB", {})
    /\ UNCHANGED <<inTx, broken, closed, job>>

\* Mutant: the descriptor is left to the job.
AfterCursorRPBOnly(s) == "deleteRPB"

\* What release() sends once the cursor is closed.
AfterCursor(s) == IF st[s].descriptorSent THEN "deleteDescriptor" ELSE "deleteRPB"

\* Stmt.Close: on an unusable connection nothing is sent.
CloseStmt(s) ==
    /\ Idle
    /\ st[s].phase = "open"
    /\ \/ /\ ~Usable
          /\ Release(s)
          /\ Start("closeStmt", s, "idle", {})
       \/ /\ Usable
          /\ st' = [st EXCEPT ![s].phase = "closing"]
          /\ Start("closeStmt", s, IF st[s].cursor = "open" THEN "closeCursor" ELSE AfterCursor(s), {})
          /\ UNCHANGED ids
    /\ UNCHANGED <<inTx, broken, closed, job>>

\* bind: an argument may not fit its marker; the first time the markers are
\* described to the job before the request `run`.
BindStages(s, run) ==
    {"idle", IF st[s].params /\ ~st[s].descriptorSent THEN "changeDescriptor" ELSE run}

BindErrors(stage) == IF stage = "idle" THEN {"local"} ELSE {}

\* Stmt.Exec of a statement without columns, which has no Rows to close.
Exec(s) ==
    /\ Idle
    /\ st[s].phase = "open" /\ ~st[s].columns
    /\ \/ ~Usable /\ Start("exec", s, "idle", {ConnError})
       \/ Usable /\ \E stage \in BindStages(s, "execute") : Start("exec", s, stage, BindErrors(stage))
    /\ UNCHANGED <<ids, inTx, broken, closed, st, job>>

\* Stmt.Query closes the Stmt's previous Rows first.
Query(s) ==
    /\ Idle
    /\ st[s].phase = "open" /\ st[s].columns
    /\ \/ /\ ~Usable
          /\ Start("query", s, "idle", {ConnError})
          /\ UNCHANGED st
       \/ /\ Usable /\ st[s].cursor = "open"
          /\ Start("query", s, "closeCursor", {})
          /\ UNCHANGED st
       \/ /\ Usable /\ st[s].cursor # "open"
          /\ st' = [st EXCEPT ![s].cursor = "none", ![s].eof = FALSE]
          /\ \E stage \in BindStages(s, "open") : Start("query", s, stage, BindErrors(stage))
    /\ UNCHANGED <<ids, inTx, broken, closed, job>>

\* Rows.Next when its block is used up; at the end it asks for no other.
NextBlock(s) ==
    /\ Idle
    /\ st[s].phase = "open" /\ st[s].cursor # "none" /\ ~st[s].eof
    /\ Start("next", s, "fetch", {})
    /\ UNCHANGED <<ids, inTx, broken, closed, st, job>>

\* Rows.Close
CloseRows(s) ==
    /\ Idle
    /\ st[s].phase = "open" /\ st[s].cursor # "none"
    /\ \/ /\ Usable /\ st[s].cursor = "open"
          /\ Start("closeRows", s, "closeCursor", {})
          /\ UNCHANGED st
       \/ /\ ~(Usable /\ st[s].cursor = "open")
          /\ Start("closeRows", s, "idle", {})
          /\ st' = [st EXCEPT ![s].cursor = "none", ![s].eof = FALSE]
    /\ UNCHANGED <<ids, inTx, broken, closed, job>>

Ping ==
    /\ Idle
    /\ Start("ping", NoStmt, "ping", {})
    /\ UNCHANGED <<ids, inTx, broken, closed, st, job>>

Begin ==
    /\ Idle
    /\ IF inTx THEN Start("begin", NoStmt, "idle", {"local"})
               ELSE Start("begin", NoStmt, "begin", {})
    /\ UNCHANGED <<ids, inTx, broken, closed, st, job>>

\* Commit and Rollback
EndTransaction(name) ==
    /\ Idle
    /\ IF inTx THEN Start(name, NoStmt, name, {})
               ELSE Start(name, NoStmt, "idle", {"local"})
    /\ UNCHANGED <<ids, inTx, broken, closed, st, job>>

\* Conn.Close: the server ends the job and rolls its work back.
Close ==
    /\ Idle
    /\ ~closed
    /\ closed' = TRUE
    /\ Start("close", NoStmt, "idle", {})
    /\ rpb' = [h \in Handles |-> NoStmt]
    /\ descriptor' = [h \in Handles |-> NoStmt]
    /\ cursors' = {}
    /\ autocommit' = TRUE
    /\ work' = IF work = "pending" THEN "rolledback" ELSE work
    /\ UNCHANGED <<ids, inTx, broken, st>>

-----------------------------------------------------------------------------
(***************************************************************************)
(* Requests for a statement.                                               *)
(***************************************************************************)

\* A job ignores the creation of an RPB it has.
CreateRPB ==
    /\ op.stage = "createRPB"
    /\ LET created == [rpb EXCEPT ![H] = IF @ = NoStmt THEN "created" ELSE @] IN
       \/ /\ Usable
          /\ rpb' = created
          /\ Proceed("prepare", {})
          /\ UNCHANGED <<ids, st, broken>>
       \/ /\ IOFails
          /\ rpb' \in {rpb, created}
          /\ Release(S)
          /\ Proceed("idle", {"io"})
    /\ UNCHANGED <<inTx, closed, descriptor, cursors, autocommit, work>>

\* PREPARE_DESCRIBE, and the release of a statement that could not be prepared;
\* text that cannot be encoded fails before the request.
PrepareDescribe ==
    /\ op.stage = "prepare"
    /\ \/ /\ Usable
          /\ rpb' = [rpb EXCEPT ![H] = S]
          /\ \E c, p \in BOOLEAN :
                st' = [st EXCEPT ![S].phase = "open", ![S].columns = c, ![S].params = p]
          /\ Proceed("idle", {})
          /\ UNCHANGED <<ids, broken>>
       \/ /\ \/ Refused("prepare") /\ Proceed("deleteRPB", {"server"})
             \/ Usable /\ Proceed("deleteRPB", {"local"})
          /\ st' = [st EXCEPT ![S].phase = "closing"]
          /\ UNCHANGED <<ids, rpb, broken>>
       \/ /\ IOFails
          /\ rpb' \in {rpb, [rpb EXCEPT ![H] = S]}
          /\ Release(S)
          /\ Proceed("idle", {"io"})
    /\ UNCHANGED <<inTx, closed, descriptor, cursors, autocommit, work>>

\* Mutant: a Query goes on although its previous cursor could not be closed.
AfterCloseFailsOpen(name) == IF name = "closeStmt" THEN AfterCursor(S) ELSE
                             IF name = "query" THEN "open" ELSE "idle"

\* Only release() goes on when the cursor could not be closed.
AfterCloseFails(name) == IF name = "closeStmt" THEN AfterCursor(S) ELSE "idle"

\* Rows.close: the Rows are gone whatever becomes of the request.
CloseCursor ==
    /\ op.stage = "closeCursor"
    /\ st' = [st EXCEPT ![S].cursor = "none", ![S].eof = FALSE]
    /\ \/ /\ Usable
          /\ cursors' = cursors \ {H}
          /\ \/ op.name = "closeStmt" /\ Proceed(AfterCursor(S), {})
             \/ op.name = "closeRows" /\ Proceed("idle", {})
             \/ /\ op.name = "query"
                /\ \E stage \in BindStages(S, "open") : Proceed(stage, BindErrors(stage))
          /\ UNCHANGED broken
       \/ /\ IOFails
          /\ cursors' \in {cursors, cursors \ {H}}
          /\ Proceed(AfterCloseFails(op.name), {"io"})
    /\ UNCHANGED <<ids, inTx, closed, rpb, descriptor, autocommit, work>>

ChangeDescriptor ==
    /\ op.stage = "changeDescriptor"
    /\ \/ /\ Usable
          /\ descriptor' = [descriptor EXCEPT ![H] = S]
          /\ st' = [st EXCEPT ![S].descriptorSent = TRUE]
          /\ Proceed(IF op.name = "exec" THEN "execute" ELSE "open", {})
          /\ UNCHANGED broken
       \/ /\ IOFails
          /\ descriptor' \in {descriptor, [descriptor EXCEPT ![H] = S]}
          /\ Proceed("idle", {"io"})
          /\ UNCHANGED st
    /\ UNCHANGED <<ids, inTx, closed, rpb, cursors, autocommit, work>>

Execute ==
    /\ op.stage = "execute"
    /\ LET done == IF autocommit THEN work ELSE "pending" IN
       \/ /\ Usable
          /\ work' = done
          /\ Proceed("idle", {})
          /\ UNCHANGED broken
       \/ /\ Refused("execute")
          /\ Proceed("idle", {"server"})
          /\ UNCHANGED <<work, broken>>
       \/ /\ IOFails
          /\ work' \in {work, done}
          /\ Proceed("idle", {"io"})
    /\ UNCHANGED <<ids, inTx, closed, st, rpb, descriptor, cursors, autocommit>>

\* How the reply that carries a block ends it: rows may follow ("more"); none
\* came and nothing says why ("empty"); the last row is here and the cursor
\* still open ("end", +100 or 701) or closed by the server ("closed", 700).
BlockEnds == {"more", "empty", "end", "closed"}

\* Mutant: return code 700 is taken for 701.
CursorAfterOpen(e) == "open"

\* absorbEnd: whether the Rows must still close the cursor.
CursorAfter(e) == IF e = "closed" THEN "done" ELSE "open"

\* OPEN_DESCRIBE_FETCH. An empty first block is no end: Next will fetch.
Open ==
    /\ op.stage = "open"
    /\ \/ /\ Usable
          /\ \E e \in BlockEnds :
                /\ st' = [st EXCEPT ![S].cursor = CursorAfter(e),
                                    ![S].eof = e \in {"end", "closed"}]
                /\ cursors' = IF e = "closed" THEN cursors \ {H} ELSE cursors \union {H}
          /\ Proceed("idle", {})
          /\ UNCHANGED broken
       \/ /\ Refused("open")
          /\ Proceed("idle", {"server"})
          /\ UNCHANGED <<st, cursors, broken>>
       \/ /\ IOFails
          /\ cursors' \in {cursors, cursors \union {H}}
          /\ Proceed("idle", {"io"})
          /\ UNCHANGED st
       \/ /\ ~Usable
          /\ Proceed("idle", {ConnError})
          /\ UNCHANGED <<st, cursors, broken>>
    /\ UNCHANGED <<ids, inTx, closed, rpb, descriptor, autocommit, work>>

Fetch ==
    /\ op.stage = "fetch"
    /\ \/ /\ Usable
          /\ \E e \in BlockEnds :
                /\ st' = [st EXCEPT ![S].cursor = CursorAfter(e), ![S].eof = e # "more"]
                /\ cursors' = IF e = "closed" THEN cursors \ {H} ELSE cursors
          /\ Proceed("idle", {})
          /\ UNCHANGED broken
       \/ /\ Refused("fetch")
          /\ Proceed("idle", {"server"})
          /\ UNCHANGED <<st, cursors, broken>>
       \/ /\ IOFails
          /\ cursors' \in {cursors, cursors \ {H}}
          /\ Proceed("idle", {"io"})
          /\ UNCHANGED st
       \/ /\ ~Usable
          /\ Proceed("idle", {ConnError})
          /\ UNCHANGED <<st, cursors, broken>>
    /\ UNCHANGED <<ids, inTx, closed, rpb, descriptor, autocommit, work>>

\* Without its answer release() stops here; the handle is free all the same.
DeleteDescriptor ==
    /\ op.stage = "deleteDescriptor"
    /\ LET deleted == [descriptor EXCEPT ![H] = NoStmt] IN
       \/ /\ Usable
          /\ descriptor' = deleted
          /\ Proceed("deleteRPB", {})
          /\ UNCHANGED <<ids, st, broken>>
       \/ /\ IOFails
          /\ descriptor' \in {descriptor, deleted}
          /\ Release(S)
          /\ Proceed("idle", {"io"})
       \/ /\ ~Usable
          /\ Release(S)
          /\ Proceed("idle", {ConnError})
          /\ UNCHANGED <<descriptor, broken>>
    /\ UNCHANGED <<inTx, closed, rpb, cursors, autocommit, work>>

\* Prepare drops the errors of the release it does.
ReleaseErrors(e) == IF op.name = "prepare" THEN {} ELSE {e}

DeleteRPB ==
    /\ op.stage = "deleteRPB"
    /\ Release(S)
    /\ LET deleted == [rpb EXCEPT ![H] = NoStmt] IN
       \/ /\ Usable
          /\ rpb' = deleted
          /\ Proceed("idle", {})
          /\ UNCHANGED broken
       \/ /\ Refused("deleteRPB")
          /\ Proceed("idle", ReleaseErrors("server"))
          /\ UNCHANGED <<rpb, broken>>
       \/ /\ IOFails
          /\ rpb' \in {rpb, deleted}
          /\ Proceed("idle", ReleaseErrors("io"))
       \/ /\ ~Usable
          /\ Proceed("idle", ReleaseErrors(ConnError))
          /\ UNCHANGED <<rpb, broken>>
    /\ UNCHANGED <<inTx, closed, descriptor, cursors, autocommit, work>>
-----------------------------------------------------------------------------
(***************************************************************************)
(* Requests for the connection.                                            *)
(***************************************************************************)

PingJob ==
    /\ op.stage = "ping"
    /\ \/ Usable /\ Proceed("idle", {}) /\ UNCHANGED broken
       \/ Refused("ping") /\ Proceed("idle", {"server"}) /\ UNCHANGED broken
       \/ IOFails /\ Proceed("idle", {"io"})
       \/ ~Usable /\ Proceed("idle", {ConnError}) /\ UNCHANGED broken
    /\ UNCHANGED <<ids, inTx, closed, st, job>>

\* setAutoCommit(false): a transaction starts with no work.
AutocommitOff ==
    /\ op.stage = "begin"
    /\ \/ /\ Usable
          /\ autocommit' = FALSE /\ work' = "none"
          /\ inTx' = TRUE
          /\ Proceed("idle", {})
          /\ UNCHANGED broken
       \/ /\ Refused("begin")
          /\ Proceed("idle", {"server"})
          /\ UNCHANGED <<inTx, autocommit, work, broken>>
       \/ /\ IOFails
          /\ \/ autocommit' = FALSE /\ work' = "none"
             \/ UNCHANGED <<autocommit, work>>
          /\ Proceed("idle", {"io"})
          /\ UNCHANGED inTx
       \/ /\ ~Usable
          /\ Proceed("idle", {ConnError})
          /\ UNCHANGED <<inTx, autocommit, work, broken>>
    /\ UNCHANGED <<ids, closed, st, rpb, descriptor, cursors>>

\* Mutant: a failed commit is not followed by a rollback.
AfterFailedCommitNothing == "autocommit"

AfterFailedCommit == "rollback"

\* COMMIT, cursors held. On a broken connection it is not sent.
CommitWork ==
    /\ op.stage = "commit"
    /\ LET done == IF work = "pending" THEN "committed" ELSE work IN
       \/ /\ Usable
          /\ work' = done
          /\ Proceed("autocommit", {})
          /\ UNCHANGED broken
       \/ /\ Refused("commit")
          /\ Proceed(AfterFailedCommit, {"server"})
          /\ UNCHANGED <<work, broken>>
       \/ /\ IOFails
          /\ work' \in {work, done}
          /\ Proceed(AfterFailedCommit, {"io"})
       \/ /\ ~Usable
          /\ Proceed(AfterFailedCommit, {ConnError})
          /\ UNCHANGED <<work, broken>>
    /\ UNCHANGED <<ids, inTx, closed, st, rpb, descriptor, cursors, autocommit>>

\* Mutant: the connection survives a commit that could be neither made nor undone.
AfterFailedRollbackGoesOn(err) ==
    /\ Proceed("autocommit", {err})
    /\ UNCHANGED broken

\* A commit's rollback that fails breaks the connection; Rollback itself goes on.
AfterFailedRollback(err) ==
    IF op.name = "commit" THEN broken' = TRUE /\ Proceed("idle", {err})
                          ELSE UNCHANGED broken /\ Proceed("autocommit", {err})

\* ROLLBACK, cursors held.
RollbackWork ==
    /\ op.stage = "rollback"
    /\ LET undone == IF work = "pending" THEN "rolledback" ELSE work IN
       \/ /\ Usable
          /\ work' = undone
          /\ Proceed("autocommit", {})
          /\ UNCHANGED broken
       \/ /\ Refused("rollback")
          /\ AfterFailedRollback("server")
          /\ UNCHANGED work
       \/ /\ IOFails
          /\ work' \in {work, undone}
          /\ Proceed(IF op.name = "commit" THEN "idle" ELSE "autocommit", {"io"})
       \/ /\ ~Usable
          /\ AfterFailedRollback(ConnError)
          /\ UNCHANGED work
    /\ UNCHANGED <<ids, inTx, closed, st, rpb, descriptor, cursors, autocommit>>

\* Mutant: a job that stays out of autocommit does not break the connection.
UnrestoredForgotten(err) ==
    /\ inTx' = FALSE
    /\ UNCHANGED broken
    /\ Proceed("idle", {err})

\* The transaction state could not be restored.
Unrestored(err) ==
    /\ broken' = TRUE
    /\ UNCHANGED inTx
    /\ Proceed("idle", {err})

\* setAutoCommit(true), the end of Commit and Rollback.  Work the server still
\* has under commitment control stays pending.
AutocommitOn ==
    /\ op.stage = "autocommit"
    /\ \/ /\ Usable
          /\ autocommit' = TRUE
          /\ inTx' = FALSE
          /\ Proceed("idle", {})
          /\ UNCHANGED broken
       \/ /\ Refused("autocommit")
          /\ Unrestored("server")
          /\ UNCHANGED autocommit
       \/ /\ Usable
          /\ Unrestored("io")
          /\ autocommit' \in {autocommit, TRUE}
       \/ /\ ~Usable
          /\ Unrestored(ConnError)
          /\ UNCHANGED autocommit
    /\ UNCHANGED <<ids, closed, st, rpb, descriptor, cursors, work>>

-----------------------------------------------------------------------------
Next ==
    \/ \E s \in Statements :
          \/ Prepare(s) \/ CloseStmt(s) \/ Exec(s) \/ Query(s) \/ NextBlock(s) \/ CloseRows(s)
    \/ Ping \/ Begin \/ Close
    \/ \E name \in {"commit", "rollback"} : EndTransaction(name)
    \/ CreateRPB \/ PrepareDescribe \/ CloseCursor \/ ChangeDescriptor \/ Execute \/ Open
    \/ Fetch \/ DeleteDescriptor \/ DeleteRPB
    \/ PingJob \/ AutocommitOff \/ CommitWork \/ RollbackWork \/ AutocommitOn

Spec == Init /\ [][Next]_vars

-----------------------------------------------------------------------------
(***************************************************************************)
(* Properties.  Between API calls, and while the connection is usable, the *)
(* job is what the client believes it to be.                               *)
(***************************************************************************)
Settled == Idle /\ Usable

\* The job's RPBs are those of the open statements, each prepared for the one
\* that holds its handle, and exactly their handles are taken: no statement
\* runs another's SQL, no RPB is leaked by a failed Prepare or a Close.
HandlesAgree ==
    Settled =>
        /\ \A h \in Handles : h \in ids <=> \E s \in Statements : st[s].id = h
        /\ \A h \in Handles : rpb[h] = NoStmt <=> h \notin ids
        /\ \A s \in Statements : st[s].phase = "open" => rpb[st[s].id] = s

\* The job describes parameter markers for a handle exactly when its statement
\* has sent them, and they are that statement's: arguments encoded for one
\* layout are never decoded with another left under a reused handle.
DescriptorsAgree ==
    Settled =>
        \A h \in Handles :
            descriptor[h] # NoStmt <=> \E s \in Statements :
                st[s].id = h /\ st[s].descriptorSent /\ descriptor[h] = s

\* The job's open cursors are those the client will close: none is leaked by a
\* re-run, an early end or an error, none that the server closed with the last
\* block (return code 700) is closed again.
CursorsAgree ==
    Settled => cursors = {st[s].id : s \in {t \in Statements : st[t].cursor = "open"}}

\* A usable connection is in a transaction exactly when its job is.
TransactionAgrees == Settled => (inTx <=> ~autocommit)

\* A usable connection that is in no transaction has no work pending in its
\* job (conn.go: it is broken "rather than reusing a job with work still pending").
NoWorkLeftBehind == Settled /\ ~inTx => work # "pending"

\* Commit reports success only for work that is committed; when it reports a
\* failure and leaves the connection usable the work is rolled back.
CommitHonest ==
    Idle /\ op.name = "commit" /\ "local" \notin op.errs =>
        /\ op.errs = {} => work \in {"none", "committed"}
        /\ op.errs # {} /\ Usable => work \in {"none", "rolledback"}

\* Calls whose errors the driver maps to driver.ErrBadConn.
Retried == {"prepare", "exec", "query", "begin", "ping"}

\* Of these, one that fails with ErrConnBroken has sent nothing: database/sql
\* may run it again on another connection (driver.go, badConn).
RetryIsSafe == Idle /\ op.name \in Retried /\ "broken" \in op.errs => ~op.sent

\* Nothing reaches the job once the connection is broken, whatever is left to
\* do in the call that broke it or is called later, but its end; and a broken
\* connection stays broken.
NothingAfterBroken == [][broken => broken' /\ (closed' = closed => job' = job)]_vars
=============================================================================
