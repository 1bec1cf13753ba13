# A verification of jt400-go

jt400-go is a Go client for four IBM i host servers: sign-on, data queues,
remote commands and SQL. This directory models its stateful parts in TLA+,
checks them with TLC and proves some of what is checked with TLAPS. Paths such
as `conn.go:192` are relative to the package named in the sentence, under
`src/`.

1. [The system](#1-the-system)
2. [Modules](#2-modules)
3. [What the runs check and show](#3-what-the-runs-check-and-show)
4. [Fairness](#4-fairness)
5. [What is proved](#5-what-is-proved)
6. [Disagreements with the documentation](#6-disagreements-with-the-documentation)
7. [What is assumed of code outside the repository](#7-what-is-assumed-of-code-outside-the-repository)
8. [Not modelled](#8-not-modelled)
9. [Plan](#9-plan)
10. [Running it](#10-running-it)

## 1. The system

| component | state it keeps | operations |
|---|---|---|
| `as400.Connection` (`as400/conn.go`, `datastream.go`) | socket and its deadline, mutex, correlation counter, a watcher goroutine per call | `Dial`, `Call`, `CallContext`, `Send`, `Close` |
| logon (`as400/logon.go`, `serverid.go`) | none of its own: two exchanges on a new Connection | `Logon` |
| parameters (`as400/params.go`) | none | `EncodeParams`, `DecodeParams` |
| `as400/auth` | none | password substitutes, EBCDIC table |
| `signon` | Connection, server attributes | `Connect`, `Authenticate`, `Close` |
| `dtaq` | Connection; the queues are the server's | `Connect`, `Queue.Create` ... `Queue.Delete`, `Close` |
| `rmtcmd` | Connection, CCSID and datastream level of the job | `Connect`, `RunCommand`, `CallProgram`, `Close` |
| `database.Conn`, `Stmt` | handles in use, `inTx`, `broken`, `closed`; per statement: handle, columns, markers, descriptor sent, current Rows | `Prepare`, `Exec`, `Query`, `Begin`, `Commit`, `Rollback`, `Ping`, `Close` |
| `database.Rows` | block, place in it, end of data, whether the server's cursor is open | `Next`, `Close` |
| database values (`value.go`) | none | `encodeValue`, `decodeValue` and what they call |
| `database/sql` driver (`driver.go`) | what `Conn` keeps; the pool is `database/sql`'s | `BeginTx`, `PrepareContext`, `ExecContext`, `Commit`, `Rollback`, `ResetSession`, `IsValid` |

How they interact. A service client owns one Connection and makes calls on it:
a request out, its reply back. `exchange()` is the only place where goroutines
meet: the mutex serialises callers, and a watcher goroutine per cancellable
call shares the socket's deadline with it. Everything above a Connection
assumes one call at a time and matches replies by order, never by correlation
ID, so an interrupted call poisons the Connection for good: `CallContext` asks
callers to close it, `database.Conn` sets `broken`. Above `database.Conn`,
`database/sql` decides from the driver's errors (`driver.ErrBadConn`) and its
flags (`ResetSession`, `IsValid`) what to retry, keep or discard. On the far
side of every Connection is a job of the host server with state of its own
(request parameter blocks, descriptors, cursors, autocommit, pending work,
queues) that the client mirrors without ever asking for it.

What is hard, and what makes each component correct:

- **Connection.** Cancellation, expiry, a late reply and the return of a call
  interleave. The next holder of the mutex must find the socket without a
  deadline; a watcher must not outlive its call; a reply must be the reply to
  the caller's own request; every call must return when an IOTimeout is set,
  and every cancelled one when none is.
- **database.Conn and Stmt.** A call is up to five requests, each of which may
  be refused, or fail without anyone knowing whether the server carried it
  out. Between calls of a usable connection the job must be what the client
  believes it to be (handles, descriptors, cursors, transaction), no work may
  be left behind, and nothing may be sent once the connection is broken.
- **Rows.** The server's cursor belongs to the handle, not to the Rows, and
  the server divides a result set into blocks and announces its end in several
  ways. Each Rows must give its own rows, once each and in order, and end
  where they end.
- **driver and pool.** A retry must not run a statement twice, the application
  must be told what happened, and no connection may return to the pool with
  somebody's transaction in it.
- **values.** What fits must be stored unchanged and read back, what does not
  must be refused, and nothing else may be.
- **data queues.** A call must return what the server did for that very call,
  whatever other clients do, and no entry may be lost or received twice.
- **rmtcmd.** Everything is positional: inputs without their trailing zeros,
  outputs at offsets that depend on the entries before, compressed or not, and
  three message formats chosen by a level. A Parameter must hold the output of
  this call or its former one, whatever the reply.
- **signon.** The scheme and the seeds that both sides compute with follow from
  what the server said in an earlier exchange, in any order of its entries. The
  right password must be accepted, on a second attempt too.
- **wire formats.** Rows, indicators and names are found by sums of lengths that
  come with the reply: a wrong sum shifts every later field without an error.

## 2. Modules

| module | models | state and code |
|---|---|---|
| `Connection` | `exchange()`, its watcher, `ReadReply`, contexts and time | `mu`, `correlation` and the socket are the struct's fields; `pc` is where each caller stands in `exchange()`, one step for each access to shared state: `Enter` (lock to watcher start), `Write`, `ReadHeader`, `ReadBody`, `Leave` (the deferred functions, in their order), `Return`; `WatcherSeesDone`, `WatcherFires`, `WatcherSeesStop` are the watcher's `select` and what follows it |
| `DatabaseConn` | `database.Conn`, `Stmt` and the job | an API call is an action up to its first request (`Prepare`, `CloseStmt`, `Exec`, `Query`, `NextBlock`, `CloseRows`, `Ping`, `Begin`, `EndTransaction`, `Close`); then each request is an action that decides from the outcome what the call does next (`CreateRPB` ... `AutocommitOn`), kept in `op.stage` |
| `RowStream` | nothing in the code: what a Rows promises | the abstract specification of `RowCursor` |
| `RowCursor` | `Stmt.Query`, `Rows.Next`, `fetch`, `absorbEnd`, `close`, the blocking factor | `rows[r]` holds the fields of the Rows of run `r`; iterations of the loop in `Next` are the steps `NextRow`, `NextEOF`, `Fetch` |
| `Params` | `as400/params.go` | `EncodeParams`, `DecodeParams`, `Find` on lists of entries |
| `ProgramReply` | `rmtcmd/rle.go`, the replies of `rmtcmd/wire.go` and `messages.go` | operators: `Decompress`, `ReadOutputs`, `ParseMessages` with the three message formats |
| `RemoteCommand` | `rmtcmd`: `Connect`, `RunCommand`, `CallProgram`, `Close` | `status`, `level` are the Client's; `params` are the caller's Parameters, which it may use again; `request` and `reply` hold the bytes of one exchange; `Serve` is the server |
| `Signon` | `signon`: `Connect`, repeated `Authenticate`, `Close`, and the choice of scheme in `as400/auth` | the attributes and seeds a Client keeps; replies are parameter lists in any order; a substitute is a record of what it is computed from |
| `RowWire` | `format.go`, `parseReply`, `Stmt.bind` and the columns of `Rows.Next` in `database` | `statement` is what the server has prepared, `stmt` what the client has read of it; formats, argument rows and result blocks are sequences of cells |
| `HostClients` | a program with one of `RemoteCommand`, `Signon`, `RowWire` | `client` says which; the three share the operators of `Params` and no state |
| `Decimal` | `scaleToDigits`, `formatDecimal`, packed and zoned decimal | operators on digit sequences |
| `Values` | `encodeValue`, `decodeValue` for decimals, integers, character and binary data, the fraction of a timestamp | a value is `given`, `sent` and read `back`, or a field is `filled` by the server first |
| `SqlPool` | the driver under a `sql.DB` | one action per driver method, with the outcomes it has in `DatabaseConn`; `Acquire` and `Release` are the pool's |
| `DataQueue` | `dtaq.Connect` with `as400.Logon`, the methods of `Queue`, requests and replies | `Dial`, `Handshake` for connecting, `Begin`, `Receive`, `CallFails` for a call; `Encode` and `Parse` are `wire.go`; `Serve` is the server |
| `MCSqlPool`, `MCDataQueue` | | symmetry of calls, connections and clients, for TLC |
| `ConnectionProofs`, `DatabaseConnProofs`, `DataQueueProofs`, `HostClientsProofs`, `ParamsProofs`, `DriverProofs`, `ValuesProofs` | | the theorems of section 5 |
| `SequenceFacts` | | lemmas these proofs share: induction, what a recursive function is, joined, cut and flattened sequences |

Composition. `HostClients` is the disjunction of three clients that share
code and no state, so that one run covers them. `RowCursor` instantiates `RowStream` with a refinement mapping.
`DatabaseConn`, `SqlPool` and `DataQueue` each take over what the level below
shows and drop its detail: a call of `DatabaseConn` is answered, refused, or
lost with the connection broken, which is what `Connection` shows of a caller
that closes after an error (`RepliesInStep`); a call of `SqlPool` has the
outcomes of the same call in `DatabaseConn`; `DataQueue` again leaves the
watcher and deadlines to `Connection`. These three are argued here and not
checked by an INSTANCE: the levels talk of different things (bytes on a wire,
requests, API calls), and a mapping would restate each in the terms of the
other.

A definition under a comment "Mutant", such as `AfterFailedCommitNothing`, is a
faulty variant of the one that follows it. None is used by a specification;
they record, for each property, a slip in the code that the
property catches.

## 3. What the runs check and show

### `ConnShared`: two goroutines on a Connection with an IOTimeout

Both may call with any kind of context, cancelled or expiring at any point,
against a server that answers, goes mute, stops reading or hangs up. Besides
the types: `WatcherWithinCall`, `CleanHandover` (the mutex is never free with a
deadline on the socket, which depends on the order of the deferred functions),
`ReservedCorrelation`, and the liveness property `CallReturns`. Two callers and
two calls are the least with a caller waiting behind another and a next call
that can find something left over; the counter has modulus 2, so its second
value is already the wrap.

### `ConnSingle`: one caller that keeps the contract

One caller, four calls and `Send`s, no IOTimeout, closing the Connection after
any error. `RepliesInStep` says that no reply, whole or half read, reaches
another call than its own, though IDs are never compared. `CancelUnblocks` is
the promise of `CallContext` in the absence of any deadline. Four calls allow a
`Send`, a reply left behind, a failure and a call after it.

### `DbSession`: three statements on two handles

Every API call in every order, refusals by the server and I/O errors at every
request, until the connection is closed. `HandlesAgree`, `DescriptorsAgree`,
`CursorsAgree` and `TransactionAgrees` compare client and job between calls;
`NoWorkLeftBehind` and `CommitHonest` say what remains of a transaction;
`RetryIsSafe` and `NothingAfterBroken` are what the driver relies on. Three
statements for two handles make handles run out, be reused by another statement
and be held by a failed Prepare; more of either repeat the same steps, because
requests for a handle touch no other handle, and the proofs of section 5 cover
any number. The server refuses anything here
but ROLLBACK (see `DbRollbackRefused`) and the deletion of an RPB it has
(section 7).

### `RowCursor`: result sets in blocks

Two runs on a handle, of up to four rows each. Block size 4 with row lengths 0,
2 and 5 gives a blocking factor of 1 by two special cases, 2 by division, and
the limit of 3 (32767 in the code) is in the type invariant. The server may
answer a fetch with any number of rows it may send, announce the end in any of
the ways the protocol has or leave it to an empty block, and open without a
first block. Rows may fail to decode, requests may fail, callers may close at
any point and keep using a Rows they have left behind. `FetchesOwn` and
`OneFetchPerNext` are invariants, and `Streams` says that all this implements
`RowStream`. Four rows are two blocks of two and four of one, and with two runs
there is an old Rows and a new one on the same handle; the proof of section 5
covers the rest. About 208 000 states.

### `SqlPool`: retries and reuse

Three calls, each an Exec or a transaction that commits or rolls back, on a
pool of two connections of which a third may replace one, with two retries
before the last try opens a new one. The network drops connections at any time,
requests are refused or lost on the way there or back. A `sql.Stmt` closed on an
idle connection may break it behind the pool's back, and an application may go
on in a transaction whose statement has failed: these are the ways in which the
driver comes to answer ErrBadConn at all. `AtMostOnce`, `ToldTrue` and
`IdleClean` are the README's promises on retries and transactions. Two calls can
leave two broken connections behind, which use up the retries of the third; a
call opens at most one connection, so that three are enough. With calls and
connections interchangeable, about 720 000 states.

### `Values`: conversions against their meaning

Every decimal text with up to two characters before and after the point (digits
0, 1, 9 or something else, and a sign) for every precision up to 3 and scale;
every packed and zoned field of these sizes with any of the six sign nibbles;
integers at and one outside the limits of each width, with bytes of two bits so that TLC's integers hold an eight-byte one; character and binary
data from empty to one too long. `Lossless`, `RejectsOnlyLoss`, `ReadsExact`
and `FillsField` compare the conversions with definitions of their
own (`Units`, `Meaning`, `Representable`), which compute numbers where the code
moves digits. 0, 1 and 9 are the digits the code tells apart (zero or not) and
the largest; precision 3 has even and odd packed lengths, and leading zeros,
cut and added fractions all fit.

### `DataQueue`: two clients and a queue

Both connect through the three exchanges of the handshake, any of which may be
refused or fail, and share three calls on a queue that may exist at first, be
keyed, FIFO or LIFO. Requests and replies are under way on each socket while
the other client's are served. `ResultsTrue` relates each returned value to
what the server did for that call; `ConnectsWhole` says that Connect is all or
nothing. `EntriesAccounted` counts the places where each written entry is, with
the history variables `written`, `taken` and `given`: never two, so that no two
Reads receive it, and exactly one unless a call that failed has given it up. A
Peek that took, an error read as success or as an empty queue, flags in the
wrong order would each lose or double an entry. Three calls are a create or
write, a read or peek, and a call of the other client in between; with symmetry
about 1.1 million states.

### `HostClients`: what is read out of a reply

One client of the three, its requests and replies as sequences of small numbers
that stand for bytes or fields: the offsets are computed as in the code, from
lengths that differ between the layers, and a header that the code skips is
some cells long. TLC has every reply the server may give, cut off anywhere the
code checks for it.

- `RemoteCommand`: `ProgramSees` (a program gets each parameter in its place
  with its full length, though trailing zeros are not sent), `OutputsTrue` (an
  action property: a Parameter holds what the program left or what it held
  before, also when a reply is cut, whatever run-length encoding the server
  chose), `ResultTrue` and `MessagesTrue` (success, and the messages the caller
  asked for, in each format and up to where a list was cut). Two calls on the
  same Parameters; levels 4, 7, 10 and 11 are the values around the two
  boundaries in the code; bytes to base 3 with the escape 2, contents with zeros
  inside and at the end, escapes and repeated pairs; signatures with outputs in a
  row and behind parameters that have no entry.
- `Signon`: `SignonTrue` (what a Client believes is what the server said; the
  right password is accepted on every attempt; no refusal is taken for another),
  for password levels 1 to 4 and server levels 4 and 5, which are the values on
  both sides of each comparison, two attempts, and entries in any order.
- `RowWire`: `BoundTrue` (the server reads the arguments that were bound, null or
  not) and `RowsTrue` (columns have the names, types and places they were
  described with, in extended and super-extended formats, and each row's values
  are its own). Two rows of two columns of lengths 1 and 2, nullable and not,
  with names that fit their room, exceed it and are missing.

About 561 000 states.

### Runs that end in a counterexample

`ConnCancelRace`, `DbRollbackRefused`, `ValuesLost` and `DtaqWait` each check one statement of the documentation that the code does not
keep; section 6 describes them.

CHECK_DEADLOCK is off where the system may rightly stop (the bounded calls are
used up, a value has been converted, a closed statement sits on a broken
connection); `DbSession` runs with the check on.

## 4. Fairness

Only `Connection` has liveness properties. `FairSpec` assumes

- weak fairness of each caller's own steps and of its watcher's: goroutines
  that can run are scheduled;
- strong fairness of `Enter`: a goroutine waiting for the mutex loses it to
  others again and again, but `sync.Mutex` hands it over to the longest waiter
  after 1 ms;
- weak fairness of `Expire`, `ContextDue`, `ContextTimer`: time passes, and
  timers fire.

Nothing is assumed of the server, the network, or of `Cancel`. `CallReturns`
therefore needs the IOTimeout, and `CancelUnblocks` holds with a server that is
mute from the start. The other modules have safety properties only: their
requests are calls of a Connection, which return under the conditions above.

## 5. What is proved

For every value of the constants that satisfies the module's assumption:

| theorem | of | says |
|---|---|---|
| `TypeCorrect` | `Connection` | `Spec => []TypeOK` |
| `WatcherContained` | | `Spec => []WatcherWithinCall` |
| `HandoverClean` | | `CleanHandover`, if there is an IOTimeout or no caller passes a cancellable context without a deadline |
| `TimeoutsAreOwn` | | `NoSpuriousTimeout`, if no caller passes a cancellable context without a deadline |
| `CorrelationNeverReserved` | | `Spec => []ReservedCorrelation` |
| `RepliesMatch` | | `RepliesInStep`, for a single caller that closes the Connection after an error |
| `InvCorrect`, `TransactionInv` | `DatabaseConn` | the inductive invariants `SInv` of the statements and `TInv` of transactions |
| `TypeCorrect`, `DescriptorsExact`, `CursorsExact`, `TransactionsAgree`, `CommitsHonest`, `RetriesSafe`, `BrokenForGood` | | `TypeOK`, `DescriptorsAgree`, `CursorsAgree`, `TransactionAgrees`, `CommitHonest`, `RetryIsSafe`, `NothingAfterBroken`, whatever the server refuses |
| `HandlesExact` | | `HandlesAgree`, if the server does not refuse DELETE_RPB |
| `OwnTextRuns` | | an open statement runs its own SQL, also if it does |
| `NothingLeft` | | `NoWorkLeftBehind`, if the server does not refuse ROLLBACK |
| `CursorTypesCorrect` | `RowCursor` | `Spec => []TypeOK`, which includes that a fetch asks for 1 to `MaxFactor` rows |
| `CursorInvCorrect` | | the inductive invariant `CursorInv` |
| `OwnCursor`, `OneFetch` | | `FetchesOwn`, `OneFetchPerNext` |
| `Implements` | | `Spec => Streams`: `RowCursor` implements `RowStream` |
| `PoolTypesCorrect` | `SqlPool` | `PoolSpec => []PoolTypeOK` |
| `PoolInvCorrect` | | the inductive invariant `PoolInv` |
| `AppliedOnce`, `CallersTold`, `PoolClean` | | `AtMostOnce`, `ToldTrue`, `IdleClean` |
| `InvCorrect` | `DataQueue` | the inductive invariant `Inv` |
| `TypesCorrect` | | `Spec => []TypeOK` |
| `ConnectWhole`, `ResultsCorrect` | | `ConnectsWhole`, `ResultsTrue` |
| `EntriesInvCorrect` | | the inductive invariant `EntriesInv` of entries |
| `EntriesCorrect` | | `EntriesAccounted` |
| `RemoteInvCorrect` | `RemoteCommand` in `HostClients` | the inductive invariant `RemoteInv` |
| `RemoteTypesCorrect`, `ProgramSeesCorrect`, `ResultCorrect` | | `RemoteTypeOK`, `ProgramSees`, `ResultTrue` |
| `OutputsCorrect` | | the action property `OutputsTrue` |
| `MessagesCorrect` | | `MessagesTrue` |
| `SignonInvCorrect` | `Signon` in `HostClients` | the inductive invariant `SignonInv` |
| `SignonCorrect` | | `SignonTrue` |
| `RowInvCorrect` | `RowWire` in `HostClients` | the inductive invariant `RowInv` |
| `BoundCorrect`, `RowsCorrect` | | `BoundTrue`, `RowsTrue` |
| `ValuesInvCorrect` | `Values` | the inductive invariant `ValuesInv` |
| `LosslessCorrect` | | `Lossless`, for fields of any kind but timestamps and CCSID 65535 in two-byte units |
| `RejectsOnlyLossCorrect`, `ReadsExactCorrect`, `FillsFieldCorrect` | | `RejectsOnlyLoss`, `ReadsExact`, `FillsField` |

**Connection.** Exclusion comes first: a caller is between `Enter` and `Leave`
exactly when it holds the mutex, and a watcher runs only for the holder.
`WatcherWithinCall` alone is not inductive, since releasing the mutex is safe
only because `Leave` waits for the watcher. `HandoverClean` needs, besides,
that a holder that armed no deadline has none on the socket and no watcher that
could set one (`DeadlineOwned`). That fails of a call with a cancellable
context without deadline on a Connection without IOTimeout: hence the
theorem's condition, and the counterexample of `ConnCancelRace` is exactly the
case it leaves out. `TimeoutsAreOwn` adds whose deadline is on the socket
(`DeadlineIsContexts`). `RepliesMatch` rests on `InStep`: what may be on the
wire at each point of a call, from nothing that wants a reply before the write,
through the caller's own request or both parts of its reply, to nothing at all
or an error after which the socket is closed.

**RowCursor.** `CursorInv` has four parts. `OneOpen`: only the latest run's Rows may
be open. `InBlock`: what its caller has received ends at its place in a block
of its own run, and a last block ends with the run. `CursorFollows`: as long as
it may fetch, the server's cursor is its run's and stands where its block ends.
`AskedEnough`: a `Next` that has fetched has a row or the end. `FetchesOwn`
does not carry itself over a step: to know that a fetched block continues what
was received, the place of the cursor is needed. `Implements` maps `Query` to
`Open`, the delivery of a row to `Deliver`, `io.EOF` to `End`, any close to
`Close` and the rest to stuttering.

**DatabaseConn.** The properties speak of what holds between calls; the
invariants say what holds at every request of every call. `SInv` has, besides
the types, three parts. `CallShape`: the request a call is at decides what its
statement is like (`Shape`), and only that statement is half made or half
closed. `Owners`: the handles in use are those of the statements, one each.
`JobAgrees`: while the connection is usable, the job has under each handle in
use what its statement says (`Served`), except for the descriptor between its
deletion and that of the RPB, and nothing under a free one (`Unused`). A step
touches one statement and its handle, so `StmtStep` proves once what each
action then only has to fit. `TInv` follows the requests of Commit and Rollback
with the errors met so far: work is pending only in a transaction, and once a
commit is about to restore autocommit its errors already tell what became of
the work. The conditions of `HandlesExact` and `NothingLeft` are the cases that
`DbSession` leaves out; without the second, `DbRollbackRefused` finds a
counterexample. `RetryIsSafe` needs that the requests before the last one of a
call that may be repeated are only reached on a usable connection (`Retries`).

**SqlPool.** `AtMostOnce` alone is not inductive: that a call may be tried
again has to imply that it has taken no effect, which depends on what its last
connection still holds. `PoolInv` says: a call has its connection to itself
(`Exclusive`); only a connection in use has a job that is not clean, and then
the driver knows, because the connection is broken or in its transaction
(`Known`); what is pending in a job is its holder's (`PendingOwn`); what a call
may rely on at each stage (`Session`); and how its error tells whether its work
has taken effect (`Told`).

**DataQueue.** Both properties speak of moments at which something has come
back; `Inv` says for every client what its socket carries in the meantime. At
step `i` of the handshake that is its request with the job one step behind, or
a reply that is accepted only if the job has come along (`Connecting`). With a
call in progress it is the call's own request, or one reply that answers it
(`Answers`); between calls it is nothing; a closed client may have left a
request to its job, which still changes queues (`Ready`). That a queue keeps the
attributes it was created with (`QueuesFormed`) is what makes `Attributes`
true. The proof takes no assumption about when the server refuses what.

`EntriesAccounted` counts, so it needs to know that the places counted are not
two views of one. `EntriesInv` therefore says where an entry is by naming the
one place (`At`): in the request of its Write, in a refusal that its writer is
about to read, in a queue, in the reply to a Read, or received. Before it is
written it is nowhere, and after that only if it has been given up. A server's
step moves an entry by `Append`, `RemoveAt` or `SelectSeq`, so the proof has a
lemma for each on what becomes of the entries of a queue.

**RemoteCommand.** `RemoteInv` says what a request or a reply on its way is. A
request is the encoding of the parameters the caller has given (`Requested`);
what the server has of it is those parameters (`Served`); a reply is the
beginning, cut anywhere, of the encoding of what the program left (`Replied`);
the outcome is the one the reply tells (`Ended`). None of the properties is
inductive by itself: they compare the two ends, and between them there are only
bytes. The proof goes through the codecs. `RequestRead`: the server's reader,
given the entries of a call in their order, gets each with its trailing zeros
back. `Decompressed`: whichever of its records the server chooses for each run
of bytes, and there is no bound on how many ways, `Decompress` gives the bytes
that were compressed, because each record is read from where it ends, by
induction from the end of the encoding. `OutputsCome`: reading outputs from a
reply cut after any cell gives each parameter up to the cut all of what was left
in it and the others what they had, because the offsets the client adds up are
those at which the server laid its entries. These hold for every base of bytes,
escape, signature and content that satisfies `RemoteAssumption`.

`MessagesTrue` needs on top of it that the messages in a reply on its way are
read as those that were wanted (`MessagesInv`). Of each message the parser reads
what is behind the fixed beginning of its entry field by field, each from where
the one before ended; a cut leaves the reader at the end of the body, where
every later field is empty (`CellsRead`, `FieldsReadTrue`). `EntryGot` is what
follows for one entry in any of the three formats: every field is right or
empty, and all are right if the entry is complete. `MessagesCome` counts through
the entries: one that a cut left without its head is not read, so only the last
that is read may lack fields, and with a whole body there are as many messages
as the server attached. `WantedAttached` compares the option sent with what the
caller asked for, at every level. The classic format has no lengths for five
fields; that they fill their place is part of `RemoteAssumption`.

**Signon.** `SignonTrue` compares what a Client has with what the server
decided. `SignonInv` therefore follows an exchange: the request on its way is
the one that belongs to the Client's stage (`RequestOnItsWay`); a reply on its
way is the beginning, cut anywhere, of what the server decided on
(`ReplyOnItsWay`); and a Client that has read attributes has the server level of
its server and, if all of them arrived, the same seeds and password level
(`Agreed`), which is why the right password is never called incorrect, also in
a second attempt with the seeds of the first. What is behind it holds of every
list of parameters: `BeginningDecoded` says that `DecodeParams`, given the
beginning of a list, either refuses it or gives the first parameters of that
list unchanged, and all of them if all is there, by induction from the cut
backwards; `FieldOfPart` that a field found in them is the one that was sent, or
zero if it was cut off; `AnyOrder` that whatever order the server chooses,
each parameter occurs once. A body cut just after a parameter decodes without
an error: hence the two outcomes that `SignonTrue` allows of a reply that is not
whole.

**RowWire.** `RowsTrue` speaks of what `Next` has returned, which is read out of
a block by sums of lengths that came in another reply, before the first run.
`RowInv` says what is right at each point between: a Stmt has the statement's
fields (`FieldsKnown`, before that `DescriptionTrue` of the reply); a request
carries the arguments of this run, with the format unless the server has it
(`QueryTrue`, `DescriptorKept`); a reply that could be parsed, and then the
block, has every row that the server laid in it (`RunAnswered`, `RowsOpen`).
`RowsGot` is the part of `RowsTrue` about rows. Behind it are lemmas on the
formats. `FormatParamsRead`: either kind of format gives back the fields it was
made of; of the super-extended one (`SuperRead`) each name lies behind all the
descriptions, and is found by adding up the entries before it and skipping one
the client does not know. `SentRead`: a reply with its parameters in any
order, among them one the client skips, is refused if it was cut short
(`CutRefused`) and gives each parameter its place otherwise. `DataLaid` and
`RowRead`: row and column are where `Rows.Next` looks for them, with indicators
or without, and with rows longer than their columns. `ArgsTaken`: read by the
format of the first run, the arguments of any run are those that were given.
All of this for any number of fields, of any lengths including zero, and any
number of rows.

Proofs about recursive definitions go by induction on the length of a sequence
(`SetInduction`, `CountingUp` in `SequenceFacts`), stated over a set of numbers
rather than a predicate, and `RecursionDefines` or `RankedRecursionDefines` shows
that the function a LET defines is what its body says. No module of the project
has a RECURSIVE operator, of which this could not be shown.

**Values.** The theorems hold for texts with any number of characters, decimal
fields of any precision and scale, bytes of any width and data of any length.
`ValuesInv` only says where things come from: a value is one of the program's
parameters or what its field was read as (`Origin`), and what is sent is its
encoding. What is right about the conversions is in lemmas for each kind
(`SoundParameter`). Those of decimals compare digits with numbers: the number of
two sequences joined is the first one's, shifted, plus the second's
(`NumberJoined`); leading zeros do not count (`TrimLeftGives`); after them a
sequence has more than `k` digits if and only if its number is at least
`10 ^ k` (`TrimmedFits`), which makes the code's comparison of lengths one of
numbers; different sequences of one length have different numbers (`NumberTells`). With
them, `Scaled` says that `scaleToDigits` keeps a text's number, `RefusedUnfit`
that what it refuses has too large a number or a fraction that the scale does
not divide, `Formatted` that `formatDecimal` keeps it too, and in one text;
`PackedRead`, `ZonedRead` that the bytes give back digits and sign, whatever
nibble of the six that is, and `FillingRead` puts these together: what any
filled field is read as has the field's number, is accepted, and reads the same
once more. Integers need that eight bytes hold the edges of every width
(`EdgesFit`) and that a remainder is a two's complement (`Wrapped`).
`Lossless` is proved for every kind of field but those of `ValuesLost`, where it
is false.

**Only model-checked:** `CallReturns` and `CancelUnblocks`: liveness is beyond
the prover.

## 6. Disagreements with the documentation

1. **`ConnCancelRace`** (`as400/conn.go:122`). A deadline is reset only by the
   call that armed one. A call with a cancellable context and no deadline, on a
   Connection without IOTimeout, arms none, but its watcher sets one when the
   context is cancelled, also after the reply was read. The call succeeds, and
   the next one fails with a timeout that nobody asked for.
2. **`DbRollbackRefused`** (`database/conn.go:196`). When ROLLBACK itself is
   refused and autocommit restored, the connection is usable and out of its
   transaction with the work still pending, though the comment and README say
   that such a connection is discarded.
3. **`ValuesLost`** (`database/value.go:552`, `:384`, `:423`). The fraction of
   a `time.Time` beyond the digits of a TIMESTAMP, and the last of an odd
   number of bytes for a VARGRAPHIC or DBCLOB of CCSID 65535, are lost without
   an error.
4. **`DtaqWait`** (`dtaq/queue.go:85`). A Read that is to wait indefinitely, or
   longer than the IOTimeout, ends in an i/o timeout, with which the Client is
   lost too.

## 7. What is assumed of code outside the repository

Each of these is a server's or library's behaviour, modelled from how the code
uses it:

- The host server answers requests in order, each that wants a reply with one
  (`Connection!Serve`), or stops.
- A job ignores the creation of an RPB it has, and does not refuse to delete
  one it has. A refused DELETE_RPB would leave an RPB under a handle that the
  client uses again.
- ROLLBACK is refused only in the run made for it. Work under commitment
  control stays pending until COMMIT or ROLLBACK; a job that ends rolls back.
- A fetch returns some of the rows left, as many as were asked for at most, and
  no row only when none is left; the end is announced with the last rows, after
  them, or not at all (an empty block).
- `database/sql`: `conn`, `putConn`, `retry` and `maxBadConnRetries` as of Go's
  standard library. An idle connection that is dropped is noticed by a request,
  not by the pool.
- The data queue server serialises what clients do to a queue, takes any
  matching entry for a Read, and answers with the return codes that
  `dtaq/wire.go` tells apart. A Read whose reply is lost has lost its entry
  too: the protocol has no acknowledgement, so `EntriesAccounted` counts it as
  given up.
- The remote command server fills an input up to its length with zeros, answers
  a successful program call with its outputs and a failed one with messages,
  gives an output that is not compressed with its declared length, and writes
  messages in the classic format for options 0 and 2, in format 06 for 3 and 4
  and in 07 for 5 and 6. The offsets are those the client reads from, and the
  fields that the classic format gives a fixed size always have it.
- A caller of `rmtcmd` gives inputs no longer than the parameter, and gives the
  client up after an exchange that failed.
- The sign-on server tells its level and seed, and knows the entry 0x1128 from
  server level 5.
- The database server sends extended formats when every name fits, indicators
  when a column may be null, and null values only under an indicator.

## 8. Not modelled

- The cryptography of `as400/auth` (DES, SHA, PBKDF2) and its EBCDIC tables:
  functions without state, tested against vectors. `Signon` has which of them is
  called and with what.
- `database/ccsid.go`: lookups in character tables.
- The fixed parts of requests (`database/wire.go`, `dtaq/wire.go`): offsets
  transcribed from JTOpen that only a server can confirm. What varies with the
  data (formats, rows, parameter lists, messages) is in `RowWire`, `Params` and
  `ProgramReply`; what replies mean to a call is in the client's module.
- FLOAT, ROWID, the calendar of DATE and TIME, conversions between Go types:
  copies of bits, or library code.
- Column metadata, `ParseDSN`, error texts, examples: no state.
- Exhausted memory and misuse by concurrent calls on one `database.Conn`, which
  its documentation excludes.

## 9. Plan

Done: every component of section 1 that keeps state has its module and its run;
proofs of `Connection`, `DatabaseConn`, `RowCursor`, `SqlPool`, `DataQueue`,
`RemoteCommand`, `Signon`, `RowWire` and `Values`.

What is left: `DatabaseConn` with contexts that are done when a half-made
statement is released (`database/stmt.go:281`), and `Connection` with a caller
whose context ends while it waits for the mutex (`as400/conn.go:108`): it does
not return before it has it.

## 10. Running it

```
tlc -workers 2 -config DbSession.cfg DatabaseConn.tla
tlapm DriverProofs.tla
```

`PROJECT.json` lists the runs, the source lines of each definition (`map`), the
hazards each property is for, and for each property the faulty variant that
breaks it (`mutants`).
