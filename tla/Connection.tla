----------------------------- MODULE Connection -----------------------------
(***************************************************************************)
(* as400.Connection: one socket to an IBM i host server, shared by the     *)
(* goroutines of Callers.  exchange() holds the mutex, arms the socket     *)
(* deadline, lets a watcher goroutine move that deadline into the past     *)
(* when the call's context is cancelled, writes the request and reads the  *)
(* reply in two reads (header, then body).                                 *)
(*                                                                         *)
(* A call's steps are its accesses to state other goroutines or the peer   *)
(* can touch.  Time is what it does to deadlines: they expire.             *)
(***************************************************************************)
EXTENDS Naturals, Sequences

CONSTANTS
    Callers,            \* goroutines that use the Connection
    NoCaller,           \* the mutex's holder when it is free
    IOTimeout,          \* DialOptions.IOTimeout is non-zero
    ContextKinds,       \* contexts the callers pass, see ContextKind
    ClosesOnError,      \* callers close the Connection after an error
    CorrelationModulus, \* 2^32 in the code
    MaxCalls            \* bound: calls made on the Connection

\* Background has no Done channel; a "deadline" context can be cancelled too.
ContextKind == {"background", "cancel", "deadline"}

ASSUME ConnectionAssumption ==
    /\ NoCaller \notin Callers
    /\ IOTimeout \in BOOLEAN
    /\ ClosesOnError \in BOOLEAN
    /\ ContextKinds \subseteq ContextKind
    /\ CorrelationModulus \in Nat \ {0, 1}
    /\ MaxCalls \in Nat

VARIABLES
    mu,          \* Connection.mu: its holder
    correlation, \* Connection.correlation
    deadline,    \* the socket's deadline: "none", one still to come, "past"
    sock,        \* "open" or "closed"
    pc,          \* where each caller stands in exchange
    kind,        \* its ctx
    ctx,         \* "live"; "due": its deadline has passed, its timer has not fired; "done"
    wantReply,   \* Call or Send
    armed,       \* !deadline.IsZero(): this call set the socket deadline
    watcher,     \* its watcher goroutine: none is running, selecting, about to set the deadline
    own,         \* the number of its request
    reading,     \* the request whose reply it is in the middle of reading
    outcome,     \* what exchange returned
    got,         \* the request whose reply it returned, 0 for bytes that were no reply
    calls,       \* requests so far
    outbound,    \* written and not yet read by the server
    inbound,     \* sent by the server and not yet read
    peer         \* the server and the route to it

callerVars == <<pc, kind, ctx, wantReply, armed, watcher, own, reading, outcome, got>>
wireVars == <<outbound, inbound, peer>>
vars == <<mu, correlation, deadline, sock, calls, callerVars, wireVars>>

Exchanging == {"write", "header", "body", "join"}
Failure == {"ctx", "timeout", "io", "closed", "malformed"}
Request == [call : Nat, corr : Nat, wantReply : BOOLEAN]
\* A reply is a header and, when `more` says so, the body that follows it.
Part == [call : Nat, part : {"head", "body"}, more : BOOLEAN]

TypeOK ==
    /\ mu \in Callers \union {NoCaller}
    /\ correlation \in 0 .. CorrelationModulus - 1
    /\ deadline \in {"none", "io", "ctx", "past"}
    /\ sock \in {"open", "closed"}
    /\ pc \in [Callers -> {"idle", "lock", "returned"} \union Exchanging]
    /\ kind \in [Callers -> ContextKind]
    /\ ctx \in [Callers -> {"live", "due", "done"}]
    /\ wantReply \in [Callers -> BOOLEAN]
    /\ armed \in [Callers -> BOOLEAN]
    /\ watcher \in [Callers -> {"none", "waiting", "firing"}]
    /\ own \in [Callers -> Nat]
    /\ reading \in [Callers -> Nat]
    /\ outcome \in [Callers -> {"none", "reply", "sent"} \union Failure]
    /\ got \in [Callers -> Nat]
    /\ calls \in Nat
    /\ outbound \in Seq(Request)
    /\ inbound \in Seq(Part)
    /\ peer \in {"up", "mute", "stuck", "gone"}

Init ==
    /\ mu = NoCaller
    /\ correlation = 0
    /\ deadline = "none"
    /\ sock = "open"
    /\ pc = [c \in Callers |-> "idle"]
    /\ kind = [c \in Callers |-> "background"]
    /\ ctx = [c \in Callers |-> "live"]
    /\ wantReply = [c \in Callers |-> TRUE]
    /\ armed = [c \in Callers |-> FALSE]
    /\ watcher = [c \in Callers |-> "none"]
    /\ own = [c \in Callers |-> 0]
    /\ reading = [c \in Callers |-> 0]
    /\ outcome = [c \in Callers |-> "none"]
    /\ got = [c \in Callers |-> 0]
    /\ calls = 0
    /\ outbound = <<>>
    /\ inbound = <<>>
    /\ peer = "up"

-----------------------------------------------------------------------------
(***************************************************************************)
(* The caller's side of exchange().                                        *)
(***************************************************************************)

\* Call, CallContext and Send: only a call that wants a reply passes a ctx.
Call(c) ==
    /\ pc[c] = "idle"
    /\ calls < MaxCalls
    /\ ClosesOnError => sock = "open"
    /\ \E k \in ContextKinds, w \in BOOLEAN :
          /\ ~w => k = "background"
          /\ kind' = [kind EXCEPT ![c] = k]
          /\ wantReply' = [wantReply EXCEPT ![c] = w]
    /\ pc' = [pc EXCEPT ![c] = "lock"]
    /\ calls' = calls + 1
    /\ own' = [own EXCEPT ![c] = calls + 1]
    /\ UNCHANGED <<mu, correlation, deadline, sock, ctx, armed, watcher, reading, outcome,
                   got, wireVars>>

\* Mutant: IOTimeout is forgotten.
DeadlinesIgnoringIO(c) == IF kind[c] = "deadline" THEN {"ctx"} ELSE {}

\* Which deadline exchange() chooses: the earlier of IOTimeout's and ctx's.
\* A ctx deadline that has already passed is the earlier one.
Deadlines(c) ==
    {d \in {"io", "ctx"} :
        /\ d = "io" => IOTimeout /\ ~(kind[c] = "deadline" /\ ctx[c] = "due")
        /\ d = "ctx" => kind[c] = "deadline"}

\* Mutant: only a context with a deadline is watched.
WatchedByDeadline(c) == kind[c] = "deadline"

\* ctx.Done() # nil.
Watched(c) == kind[c] # "background"

\* exchange() up to the deferred stop: a call whose ctx is done returns at
\* once, and one that cannot set its deadline returns before any I/O.
Enter(c) ==
    /\ pc[c] = "lock"
    /\ mu = NoCaller
    /\ \/ /\ ctx[c] = "done"
          /\ outcome' = [outcome EXCEPT ![c] = "ctx"]
          /\ pc' = [pc EXCEPT ![c] = "returned"]
          /\ UNCHANGED <<mu, deadline, armed, watcher>>
       \/ /\ ctx[c] # "done"
          /\ sock = "closed" /\ Deadlines(c) # {}
          /\ outcome' = [outcome EXCEPT ![c] = "closed"]
          /\ pc' = [pc EXCEPT ![c] = "returned"]
          /\ UNCHANGED <<mu, deadline, armed, watcher>>
       \/ /\ ctx[c] # "done"
          /\ sock = "open" \/ Deadlines(c) = {}
          /\ mu' = c
          /\ IF Deadlines(c) = {} THEN deadline' = deadline
                                  ELSE deadline' \in Deadlines(c)
          /\ armed' = [armed EXCEPT ![c] = Deadlines(c) # {}]
          /\ watcher' = [watcher EXCEPT ![c] =
                           IF Watched(c) THEN "waiting" ELSE "none"]
          /\ pc' = [pc EXCEPT ![c] = "write"]
          /\ UNCHANGED outcome
    /\ UNCHANGED <<correlation, sock, calls, kind, ctx, wantReply, own, reading, got, wireVars>>

\* Mutants: the wrap lands on 0; the counter does not wrap.
NextCorrelationNoSkip == IF correlation = CorrelationModulus - 1 THEN 0 ELSE correlation + 1
NextCorrelationNoWrap == correlation + 1

\* The counter wraps past the reserved value 0.
NextCorrelation == IF correlation = CorrelationModulus - 1 THEN 1 ELSE correlation + 1

\* Mutant: only a ctx that is already done gets the blame.
CauseIgnoresDue(c, err) == IF ctx[c] = "done" THEN "ctx" ELSE err

\* wrapIOError: an error is ctx's when ctx is done, or its deadline has passed.
Cause(c, err) ==
    IF ctx[c] = "done" \/ (kind[c] = "deadline" /\ ctx[c] = "due") THEN "ctx" ELSE err

\* exchange() returns: its deferred functions run, the first closes `stop`.
Finish(c, result, reply) ==
    /\ outcome' = [outcome EXCEPT ![c] = result]
    /\ got' = [got EXCEPT ![c] = reply]
    /\ pc' = [pc EXCEPT ![c] = "join"]

\* I/O on a socket that is closed, or whose deadline is past, fails at once.
IOError(c) ==
    \/ sock = "closed" /\ Finish(c, Cause(c, "closed"), 0)
    \/ sock = "open" /\ deadline = "past" /\ Finish(c, Cause(c, "timeout"), 0)

CanIO == sock = "open" /\ deadline # "past"

Write(c) ==
    /\ pc[c] = "write"
    /\ correlation' = NextCorrelation
    /\ \/ /\ CanIO
          /\ peer # "stuck"
          /\ outbound' = Append(outbound, [call |-> own[c], corr |-> NextCorrelation,
                                           wantReply |-> wantReply[c]])
          /\ IF wantReply[c] THEN /\ pc' = [pc EXCEPT ![c] = "header"]
                                  /\ UNCHANGED <<outcome, got>>
                             ELSE Finish(c, "sent", 0)
          /\ UNCHANGED peer
       \/ /\ CanIO
          /\ peer = "gone"
          /\ Finish(c, Cause(c, "io"), 0)
          /\ UNCHANGED <<outbound, peer>>
       \/ /\ IOError(c)
          \* part of the request may be on the wire: the server waits for the rest
          /\ \/ UNCHANGED peer
             \/ sock = "open" /\ peer = "up" /\ peer' = "mute"
          /\ UNCHANGED outbound
    /\ UNCHANGED <<mu, deadline, sock, calls, kind, ctx, wantReply, armed, watcher,
                   own, reading, inbound>>

\* ReadReply's first ReadFull.  A body left behind by an earlier, interrupted
\* read is taken for a header: rejected, unless its byte 6 happens to be 0xE0.
ReadHeader(c) ==
    /\ pc[c] = "header"
    /\ \/ /\ CanIO
          /\ inbound # <<>>
          /\ inbound' = Tail(inbound)
          /\ LET p == Head(inbound) IN
             \/ /\ p.part = "head" /\ p.more
                /\ reading' = [reading EXCEPT ![c] = p.call]
                /\ pc' = [pc EXCEPT ![c] = "body"]
                /\ UNCHANGED <<outcome, got>>
             \/ /\ p.part = "head" /\ ~p.more
                /\ Finish(c, "reply", p.call)
                /\ UNCHANGED reading
             \/ /\ p.part = "body"
                /\ Finish(c, Cause(c, "malformed"), 0) \/ Finish(c, "reply", 0)
                /\ UNCHANGED reading
       \/ /\ CanIO
          /\ inbound = <<>> /\ peer = "gone"
          /\ Finish(c, Cause(c, "io"), 0)
          /\ UNCHANGED <<reading, inbound>>
       \/ /\ IOError(c)
          /\ UNCHANGED <<reading, inbound>>
    /\ UNCHANGED <<mu, correlation, deadline, sock, calls, kind, ctx, wantReply, armed,
                   watcher, own, outbound, peer>>

\* ReadReply's second ReadFull.
ReadBody(c) ==
    /\ pc[c] = "body"
    /\ \/ /\ CanIO
          /\ inbound # <<>>
          /\ inbound' = Tail(inbound)
          /\ Finish(c, "reply", reading[c])
       \/ /\ CanIO
          /\ inbound = <<>> /\ peer = "gone"
          /\ Finish(c, Cause(c, "io"), 0)
          /\ UNCHANGED inbound
       \/ /\ IOError(c)
          /\ UNCHANGED inbound
    /\ UNCHANGED <<mu, correlation, deadline, sock, calls, kind, ctx, wantReply, armed,
                   watcher, own, reading, outbound, peer>>

\* Mutant: the watcher is told to stop but not waited for.
JoinedAtOnce(c) == TRUE

\* <-exited
Joined(c) == watcher[c] = "none"

\* The rest of the deferred functions, once the watcher has exited: the
\* deadline is reset if this call armed it, then the mutex is released.
Leave(c) ==
    /\ pc[c] = "join"
    /\ Joined(c)
    /\ deadline' = IF armed[c] THEN "none" ELSE deadline
    /\ armed' = [armed EXCEPT ![c] = FALSE]
    /\ mu' = NoCaller
    /\ pc' = [pc EXCEPT ![c] = "returned"]
    /\ UNCHANGED <<correlation, sock, calls, kind, ctx, wantReply, watcher, own, reading,
                   outcome, got, wireVars>>

\* Mutant: the Connection is kept after a cancelled call.
AbandonedUnlessCancelled(c) == outcome[c] \in Failure \ {"ctx"}

\* The error is one after which the Connection must not be used.
Abandoned(c) == outcome[c] \in Failure

\* The caller has its result and the call's locals are gone.  A caller that
\* follows CallContext's contract closes the Connection after any error.
Return(c) ==
    /\ pc[c] = "returned"
    /\ sock' = IF ClosesOnError /\ Abandoned(c) THEN "closed" ELSE sock
    /\ pc' = [pc EXCEPT ![c] = "idle"]
    /\ kind' = [kind EXCEPT ![c] = "background"]
    /\ ctx' = [ctx EXCEPT ![c] = "live"]
    /\ wantReply' = [wantReply EXCEPT ![c] = TRUE]
    /\ own' = [own EXCEPT ![c] = 0]
    /\ reading' = [reading EXCEPT ![c] = 0]
    /\ outcome' = [outcome EXCEPT ![c] = "none"]
    /\ got' = [got EXCEPT ![c] = 0]
    /\ UNCHANGED <<mu, correlation, deadline, calls, armed, watcher, wireVars>>

-----------------------------------------------------------------------------
(***************************************************************************)
(* The watcher goroutine, contexts and time.                               *)
(***************************************************************************)

\* The select sees ctx.Done(), even when `stop` is closed too.
WatcherSeesDone(c) ==
    /\ watcher[c] = "waiting"
    /\ ctx[c] = "done"
    /\ watcher' = [watcher EXCEPT ![c] = "firing"]
    /\ UNCHANGED <<mu, correlation, deadline, sock, calls, pc, kind, ctx, wantReply, armed,
                   own, reading, outcome, got, wireVars>>

WatcherFires(c) ==
    /\ watcher[c] = "firing"
    /\ watcher' = [watcher EXCEPT ![c] = "none"]
    /\ deadline' = "past"
    /\ UNCHANGED <<mu, correlation, sock, calls, pc, kind, ctx, wantReply, armed, own,
                   reading, outcome, got, wireVars>>

WatcherSeesStop(c) ==
    /\ watcher[c] = "waiting"
    /\ pc[c] = "join"
    /\ watcher' = [watcher EXCEPT ![c] = "none"]
    /\ UNCHANGED <<mu, correlation, deadline, sock, calls, pc, kind, ctx, wantReply, armed,
                   own, reading, outcome, got, wireVars>>

InCall(c) == pc[c] \in {"lock"} \union Exchanging

Cancel(c) ==
    /\ InCall(c)
    /\ kind[c] # "background" /\ ctx[c] # "done"
    /\ ctx' = [ctx EXCEPT ![c] = "done"]
    /\ UNCHANGED <<mu, correlation, deadline, sock, calls, pc, kind, wantReply, armed, watcher,
                   own, reading, outcome, got, wireVars>>

\* The context's deadline passes: after IOTimeout's, when exchange() found that earlier.
ContextDue(c) ==
    /\ InCall(c)
    /\ kind[c] = "deadline" /\ ctx[c] = "live"
    /\ ~(mu = c /\ deadline = "io")
    /\ ctx' = [ctx EXCEPT ![c] = "due"]
    /\ UNCHANGED <<mu, correlation, deadline, sock, calls, pc, kind, wantReply, armed, watcher,
                   own, reading, outcome, got, wireVars>>

\* The context's timer fires some time after its deadline.
ContextTimer(c) ==
    /\ InCall(c)
    /\ ctx[c] = "due"
    /\ ctx' = [ctx EXCEPT ![c] = "done"]
    /\ UNCHANGED <<mu, correlation, deadline, sock, calls, pc, kind, wantReply, armed, watcher,
                   own, reading, outcome, got, wireVars>>

\* The socket deadline passes.
Expire ==
    /\ \/ deadline = "io"
       \/ deadline = "ctx" /\ \A c \in Callers : mu = c => ctx[c] # "live"
    /\ deadline' = "past"
    /\ UNCHANGED <<mu, correlation, sock, calls, callerVars, wireVars>>

-----------------------------------------------------------------------------
(***************************************************************************)
(* The host server (not part of the repository): it answers requests in     *)
(* order, those that want a reply with one; or it stops.                   *)
(***************************************************************************)

Reply(n, more) ==
    IF more THEN << [call |-> n, part |-> "head", more |-> TRUE],
                    [call |-> n, part |-> "body", more |-> FALSE] >>
            ELSE << [call |-> n, part |-> "head", more |-> FALSE] >>

Serve ==
    /\ peer = "up"
    /\ outbound # <<>>
    /\ outbound' = Tail(outbound)
    /\ IF Head(outbound).wantReply
       THEN \E more \in BOOLEAN : inbound' = inbound \o Reply(Head(outbound).call, more)
       ELSE UNCHANGED inbound
    /\ UNCHANGED <<mu, correlation, deadline, sock, calls, callerVars, peer>>

\* The route is dropped, the server wedges with full buffers, or it hangs up.
PeerFails ==
    /\ peer = "up"
    /\ peer' \in {"mute", "stuck", "gone"}
    /\ UNCHANGED <<mu, correlation, deadline, sock, calls, callerVars, outbound, inbound>>

-----------------------------------------------------------------------------
CallerStep(c) == Write(c) \/ ReadHeader(c) \/ ReadBody(c) \/ Leave(c) \/ Return(c)
WatcherStep(c) == WatcherSeesDone(c) \/ WatcherFires(c) \/ WatcherSeesStop(c)

Next ==
    \/ \E c \in Callers :
          \/ Call(c) \/ Enter(c) \/ Write(c) \/ ReadHeader(c) \/ ReadBody(c)
          \/ Leave(c) \/ Return(c)
          \/ WatcherSeesDone(c) \/ WatcherFires(c) \/ WatcherSeesStop(c)
          \/ Cancel(c) \/ ContextDue(c) \/ ContextTimer(c)
    \/ Expire \/ Serve \/ PeerFails

Spec == Init /\ [][Next]_vars

(***************************************************************************)
(* Goroutines that can run do run; a goroutine waiting for the mutex gets  *)
(* it (after 1ms sync.Mutex hands it over to the longest waiter); time     *)
(* passes.  Nothing is assumed of the server.                              *)
(***************************************************************************)
Fairness ==
    /\ \A c \in Callers : /\ SF_vars(Enter(c))
                         /\ WF_vars(CallerStep(c))
                         /\ WF_vars(WatcherStep(c))
    /\ WF_vars(Expire)
    /\ \A c \in Callers : WF_vars(ContextDue(c)) /\ WF_vars(ContextTimer(c))

FairSpec == Spec /\ Fairness

-----------------------------------------------------------------------------
(***************************************************************************)
(* Properties.                                                             *)
(***************************************************************************)

\* A watcher goroutine never outlives the call that started it (conn.go: "the
\* watcher is stopped (and waited for) before the deferred deadline reset").
WatcherWithinCall == \A c \in Callers : watcher[c] # "none" => mu = c

\* Whoever takes the mutex next finds the socket without a deadline, however
\* cancellation, expiry and the end of the previous call interleaved.
CleanHandover == mu = NoCaller => deadline = "none"

\* Without an IOTimeout a call never times out: what cuts it short is its own
\* context, the peer or a closed socket (README: such a Connection "never times
\* out an individual Call once established").
NoSpuriousTimeout == \A c \in Callers : outcome[c] = "timeout" => IOTimeout

\* A reply is the reply to the request of the call that returns it, although
\* exchange() compares no correlation IDs: late and half-read replies of
\* interrupted calls are never taken for a later call's.
RepliesInStep == \A c \in Callers : outcome[c] = "reply" => got[c] = own[c]

\* The reserved correlation 0 is never used, not even when the counter wraps.
ReservedCorrelation == \A i \in DOMAIN outbound : outbound[i].corr # 0

\* With an IOTimeout every call returns, whatever the server does, those that
\* wait for the mutex behind a call the server never answers included.
CallReturns == \A c \in Callers : pc[c] = "lock" ~> pc[c] = "returned"

\* Cancelling the context of a call ends it although the server never answers
\* and no IOTimeout is set.
CancelUnblocks == \A c \in Callers : (InCall(c) /\ ctx[c] = "done") ~> pc[c] = "returned"
=============================================================================
