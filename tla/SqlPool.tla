------------------------------ MODULE SqlPool ------------------------------
(***************************************************************************)
(* The database/sql driver in a pool: callers of a sql.DB share its        *)
(* connections, and database/sql decides by the driver's answers what it   *)
(* retries, resets, keeps and discards.  A call is one Exec, or one        *)
(* transaction of one statement.  The pool is external; of the server's    *)
(* job only the transaction state and the pending work are kept.           *)
(*                                                                         *)
(* Conn's own requests are those of DatabaseConn; here a Prepare, Exec,    *)
(* Begin, Commit or Rollback is one step with the outcomes it has there    *)
(* when the server refuses no ROLLBACK.                                    *)
(***************************************************************************)
EXTENDS Naturals, FiniteSets

CONSTANTS
    Calls,      \* calls made by the application, each by a goroutine of its own
    Conns,      \* connections that may be opened
    NoConn,     \* no connection
    MaxOpen,    \* sql.DB.SetMaxOpenConns
    MaxRetries  \* maxBadConnRetries of database/sql, 2

ASSUME SqlPoolAssumption ==
    /\ NoConn \notin Conns
    /\ IsFiniteSet(Conns)
    /\ MaxOpen \in Nat \ {0}
    /\ MaxRetries \in Nat

VARIABLES
    conn,    \* the driver's connections
    job,     \* their server jobs
    call,    \* the calls
    applied  \* how often the work of each call has taken effect

poolVars == <<conn, job, call, applied>>

\* dropped: the network has silently dropped it.
Conn == [place : {"unopened", "idle", "busy", "closed"}, broken : BOOLEAN, inTx : BOOLEAN,
         dropped : BOOLEAN]
Job == [autocommit : BOOLEAN, pending : SUBSET Calls]
Stages == {"acquire", "begin", "prepare", "execute", "end", "release", "done"}
\* "bad": driver.ErrBadConn; "real": any other error.
Call == [tx : BOOLEAN, begun : BOOLEAN, commits : BOOLEAN, stage : Stages, conn : Conns \union {NoConn},
         tries : 0 .. MaxRetries, err : {"none", "bad", "real"}]

PoolTypeOK ==
    /\ conn \in [Conns -> Conn]
    /\ job \in [Conns -> Job]
    /\ call \in [Calls -> Call]
    /\ applied \in [Calls -> Nat]

PoolInit ==
    /\ conn = [c \in Conns |-> [place |-> "unopened", broken |-> FALSE, inTx |-> FALSE, dropped |-> FALSE]]
    /\ job = [c \in Conns |-> [autocommit |-> TRUE, pending |-> {}]]
    /\ call \in [Calls -> [tx : BOOLEAN, begun : {FALSE}, commits : BOOLEAN, stage : {"acquire"},
                           conn : {NoConn}, tries : {0}, err : {"none"}]]
    /\ applied = [k \in Calls |-> 0]

-----------------------------------------------------------------------------
At(place) == {c \in Conns : conn[c].place = place}

\* Mutants: an I/O error is taken for a bad connection; errors pass as they are.
BadConnIO(error) == IF error \in {"broken", "io"} THEN "bad" ELSE "real"
BadConnRaw(error) == error

\* badConn: only ErrConnBroken, which an unusable Conn answers, is ErrBadConn.
BadConn(error) == IF error = "broken" THEN "bad" ELSE "real"

\* Mutant: IsValid only looks at the transaction.
ValidOutOfTx(c) == ~conn[c].inTx

\* IsValid, and what ResetSession looks at.
Valid(c) == ~conn[c].broken /\ ~conn[c].inTx

\* The call goes on to `stage`; an error sends it to "release".
GoesOn(k, stage) == call' = [call EXCEPT ![k].stage = stage]
Fails(k, error) == call' = [call EXCEPT ![k].stage = "release", ![k].err = error]

\* The job's work in a transaction is undone with it.
EndJob(c) == job' = [job EXCEPT ![c] = [autocommit |-> TRUE, pending |-> {}]]

Full == Cardinality(At("idle") \union At("busy")) >= MaxOpen

Takes(k, c) ==
    /\ conn' = [conn EXCEPT ![c].place = "busy"]
    /\ call' = [call EXCEPT ![k].stage = IF call[k].tx THEN "begin" ELSE "prepare", ![k].conn = c]

\* sql.DB.conn: an idle connection, unless this is the last try and another may
\* be opened.  If ResetSession finds it bad it is closed, and this try has failed
\* with ErrBadConn.
Acquire(k) ==
    /\ call[k].stage = "acquire"
    /\ \/ /\ call[k].tries < MaxRetries \/ Full
          /\ \E c \in At("idle") :
                \/ Valid(c) /\ Takes(k, c)
                \/ /\ ~Valid(c)
                   /\ conn' = [conn EXCEPT ![c].place = "closed"]
                   /\ call' = IF call[k].tries < MaxRetries THEN [call EXCEPT ![k].tries = @ + 1]
                              ELSE [call EXCEPT ![k].stage = "done", ![k].err = "bad"]
       \/ /\ (call[k].tries = MaxRetries \/ At("idle") = {}) /\ ~Full
          /\ \E c \in At("unopened") : Takes(k, c)
       \/ \* Connector.Connect fails
          /\ (call[k].tries = MaxRetries \/ At("idle") = {}) /\ ~Full
          /\ call' = [call EXCEPT ![k].stage = "done", ![k].err = "real"]
          /\ UNCHANGED conn
    /\ UNCHANGED <<job, applied>>

\* A request for call k: it is not sent on a broken connection; a reply comes,
\* which is an error if the server refuses it; or none comes, whether or not the
\* request arrived, and the connection is broken.
Unsent(k) == conn[call[k].conn].broken
Answered(k) == ~conn[call[k].conn].broken /\ ~conn[call[k].conn].dropped
Lost(k) == ~conn[call[k].conn].broken
Arrived(k) == ~conn[call[k].conn].dropped
Break(k) == conn' = [conn EXCEPT ![call[k].conn].broken = TRUE]

\* driverConn.BeginTx
BeginTx(k) ==
    /\ call[k].stage = "begin"
    /\ LET c == call[k].conn IN
       \/ /\ Unsent(k)
          /\ Fails(k, BadConn("broken"))
          /\ UNCHANGED <<conn, job>>
       \/ /\ Answered(k)
          /\ conn' = [conn EXCEPT ![c].inTx = TRUE]
          /\ job' = [job EXCEPT ![c].autocommit = FALSE]
          /\ call' = [call EXCEPT ![k].stage = "prepare", ![k].begun = TRUE]
       \/ /\ Answered(k)
          /\ Fails(k, BadConn("server"))
          /\ UNCHANGED <<conn, job>>
       \/ /\ Lost(k)
          /\ Break(k)
          /\ \/ Arrived(k) /\ job' = [job EXCEPT ![c].autocommit = FALSE]
             \/ UNCHANGED job
          /\ Fails(k, BadConn("io"))
    /\ UNCHANGED applied

\* After a failed statement of a transaction the application ends it, or runs
\* the statement once more first, from one of the stages `again`.
StatementFails(k, error, again) ==
    \E stage \in IF call[k].tx THEN {"end"} \union again ELSE {"release"} :
        call' = [call EXCEPT ![k].stage = stage, ![k].err = error, ![k].commits = FALSE]

\* driverConn.PrepareContext
PrepareStmt(k) ==
    /\ call[k].stage = "prepare"
    /\ \/ Unsent(k) /\ StatementFails(k, BadConn("broken"), {}) /\ UNCHANGED conn
       \/ Answered(k) /\ GoesOn(k, "execute") /\ UNCHANGED conn
       \/ Answered(k) /\ StatementFails(k, BadConn("server"), {"prepare"}) /\ UNCHANGED conn
       \/ Lost(k) /\ Break(k) /\ StatementFails(k, BadConn("io"), {"prepare"})
    /\ UNCHANGED <<job, applied>>

\* The statement takes effect: at once, or with its transaction.
Executes(k) ==
    LET c == call[k].conn IN
    IF job[c].autocommit THEN /\ applied' = [applied EXCEPT ![k] = @ + 1]
                              /\ UNCHANGED job
                         ELSE /\ job' = [job EXCEPT ![c].pending = @ \union {k}]
                              /\ UNCHANGED applied

\* driverStmt.ExecContext; closing the Stmt after it may break the connection.
ExecStmt(k) ==
    /\ call[k].stage = "execute"
    /\ \/ /\ Unsent(k)
          /\ StatementFails(k, BadConn("broken"), {})
          /\ UNCHANGED <<conn, job, applied>>
       \/ /\ Answered(k)
          /\ Executes(k)
          /\ GoesOn(k, IF call[k].tx THEN "end" ELSE "release")
          /\ \/ UNCHANGED conn
             \/ Break(k)
       \/ /\ Answered(k)
          /\ StatementFails(k, BadConn("server"), {"prepare", "execute"})
          /\ UNCHANGED <<conn, job, applied>>
       \/ /\ Lost(k)
          /\ Break(k)
          /\ \/ Arrived(k) /\ Executes(k)
             \/ UNCHANGED <<job, applied>>
          /\ StatementFails(k, BadConn("io"), {"prepare", "execute"})

\* Pending work takes effect when it is committed.
Committed(c) == applied' = [k \in Calls |-> IF k \in job[c].pending THEN applied[k] + 1 ELSE applied[k]]

\* Mutant: the error of a Commit goes through badConn too.
TxErrorMapped == BadConn("broken")

\* driverTx.Commit and Rollback hand on the errors of the Conn.
TxError == "real"

\* Commit or Rollback: answered; a refused Commit is rolled back; no answer to a
\* request leaves the connection broken and in its transaction.
EndTx(k) ==
    /\ call[k].stage = "end"
    /\ LET c == call[k].conn
           finished == [conn EXCEPT ![c].inTx = FALSE]
           err == IF call[k].err = "none" THEN TxError ELSE call[k].err
       IN
       \/ /\ Answered(k)
          /\ conn' = finished
          /\ IF call[k].commits THEN Committed(c) ELSE UNCHANGED applied
          /\ EndJob(c)
          /\ GoesOn(k, "release")
       \/ /\ Answered(k) /\ call[k].commits
          /\ conn' = finished
          /\ EndJob(c)
          /\ Fails(k, err)
          /\ UNCHANGED applied
       \/ /\ Lost(k)
          /\ Break(k)
          /\ \/ Arrived(k) /\ call[k].commits /\ Committed(c) /\ EndJob(c)
             \/ UNCHANGED <<job, applied>>
          /\ Fails(k, err)
       \/ /\ Unsent(k)
          /\ Fails(k, err)
          /\ UNCHANGED <<conn, job, applied>>

\* sql.DB.putConn and retry: the connection is kept if it is valid; the call is
\* tried again if it failed with ErrBadConn and was in no transaction yet.
Release(k) ==
    /\ call[k].stage = "release"
    /\ LET c == call[k].conn
           keeps == Valid(c)
           again == call[k].err = "bad" /\ ~call[k].begun /\ call[k].tries < MaxRetries
       IN
       /\ conn' = [conn EXCEPT ![c].place = IF keeps THEN "idle" ELSE "closed"]
       /\ IF keeps THEN UNCHANGED job ELSE EndJob(c)
       /\ call' = IF again
                  THEN [call EXCEPT ![k].stage = "acquire", ![k].conn = NoConn, ![k].tries = @ + 1,
                                    ![k].err = "none"]
                  ELSE [call EXCEPT ![k].stage = "done", ![k].conn = NoConn]
    /\ UNCHANGED applied

\* A sql.Stmt of an earlier call is closed while its connection is idle, or being
\* put back after IsValid has looked at it; the close fails.
StmtCloseFails(c) ==
    /\ conn[c].place = "idle"
    /\ conn' = [conn EXCEPT ![c].broken = TRUE]
    /\ UNCHANGED <<job, call, applied>>

\* The network drops a connection, and the server ends its job.
Drop(c) ==
    /\ conn[c].place \in {"idle", "busy"} /\ ~conn[c].dropped
    /\ conn' = [conn EXCEPT ![c].dropped = TRUE]
    /\ EndJob(c)
    /\ UNCHANGED <<call, applied>>

-----------------------------------------------------------------------------
Step(k) == Acquire(k) \/ BeginTx(k) \/ PrepareStmt(k) \/ ExecStmt(k) \/ EndTx(k) \/ Release(k)

PoolNext ==
    \/ \E k \in Calls : Step(k)
    \/ \E c \in Conns : Drop(c) \/ StmtCloseFails(c)

PoolSpec == PoolInit /\ [][PoolNext]_poolVars

-----------------------------------------------------------------------------
\* No statement is run twice by a retry, whatever failed and where: "an INSERT
\* or UPDATE is never silently run twice" (README).
AtMostOnce == \A k \in Calls : applied[k] <= 1

\* What the application is told is so: a call that succeeds has taken effect, a
\* call that fails with ErrBadConn, or was rolled back, has not.
ToldTrue ==
    \A k \in Calls : call[k].stage = "done" =>
        /\ call[k].err = "none" /\ (call[k].tx => call[k].commits) => applied[k] = 1
        /\ call[k].err = "bad" \/ (call[k].tx /\ ~call[k].commits) => applied[k] = 0

\* A reused connection is as good as new: while it is idle its job is in no
\* transaction and has no work left of the call that used it before, and the call
\* that takes it begins on one that is not broken.
IdleClean ==
    /\ \A c \in At("idle") : ~conn[c].inTx /\ job[c] = [autocommit |-> TRUE, pending |-> {}]
    /\ \A k \in Calls : call[k].stage = "begin" => ~conn[call[k].conn].broken
=============================================================================
