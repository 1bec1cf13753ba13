------------------------------ MODULE DataQueue ------------------------------
(***************************************************************************)
(* Clients of the data queue server: connecting (as400.Logon and the       *)
(* exchange of attributes), and the operations of a dtaq.Queue on queues   *)
(* that several clients share.  An exchange on a Connection is that of     *)
(* Connection.tla cut down to a request on its way to the server, a reply  *)
(* on its way back, and a call that takes the next reply or fails.         *)
(*                                                                         *)
(* What the server does is external: as much of it as the package tells    *)
(* apart by the opcode, the return code and the type byte of its replies.  *)
(***************************************************************************)
EXTENDS Naturals, Sequences, SequencesExt

CONSTANTS
    Clients,    \* dtaq.Client, each used by a goroutine of its own
    Queues,     \* names of queues
    Entries,    \* data to write, each once
    Keys,
    NoKey,      \* a nil key
    IOTimeout,  \* whether DialOptions.IOTimeout is set
    MaxCalls    \* calls made by the clients together

ASSUME DataQueueAssumption ==
    /\ NoKey \notin Keys
    /\ IOTimeout \in BOOLEAN
    /\ MaxCalls \in Nat

VARIABLES
    queue,          \* the queues of the system
    job,            \* how far the handshake of the server's job for each client is
    request, reply, \* on each client's socket, in order
    stage, open,    \* where each client is in Connect or after it, and whether its socket is open
    call, result,   \* its call in progress, and how its last call ended
    calls,          \* the calls so far
    written, taken, \* the entries written; how often each was received by a Read
    given           \* those given up: refused to their writer, cleared or deleted
                    \* on request, or in the hands of a call that failed

client == <<stage, open, call, result>>
history == <<calls, written, taken, given>>
vars == <<queue, job, request, reply, client, history>>

Handshakes == <<"seeds", "start", "exchange">>
Options == [keyed : BOOLEAN, fifo : BOOLEAN]
Waits == {"none", "some", "forever"}   \* waitSeconds 0, positive, -1

\* Search types and keys come to the keys they match.
KeySets == SUBSET Keys \ {{}}

\* Calls of a Queue's methods.
Calls == [op : {"create"}, queue : Queues, options : Options]
    \union [op : {"delete", "attributes", "clear"}, queue : Queues]
    \union [op : {"clearKey"}, queue : Queues, key : Keys]
    \union [op : {"write"}, queue : Queues, key : Keys \union {NoKey}, entry : Entries]
    \union [op : {"read"}, queue : Queues, keyed : {FALSE}, keys : {Keys \union {NoKey}}, wait : Waits, peek : BOOLEAN]
    \union [op : {"read"}, queue : Queues, keyed : {TRUE}, keys : KeySets, wait : Waits, peek : BOOLEAN]

NoCall == [op |-> "none"]
NoReply == [did |-> "nothing"]

\* What calls return; "noEntry" is a nil Entry without an error.
Values == [is : {"none", "ok", "noEntry", "timeout", "ioError"}]
    \union [is : {"error"}, rc : {"F001"}]
    \union [is : {"entry"}, entry : Entries]
    \union [is : {"attributes"}, options : Options]

TypeOK ==
    /\ job \in [Clients -> 0 .. Len(Handshakes)]
    /\ stage \in [Clients -> {"new", "ready", "failed"} \union Range(Handshakes)]
    /\ open \in [Clients -> BOOLEAN]
    /\ \A c \in Clients : call[c] \in Calls \union {NoCall} /\ result[c].value \in Values
    /\ calls \in 0 .. MaxCalls
    /\ written \subseteq Entries /\ given \subseteq Entries /\ taken \in [Entries -> Nat]

-----------------------------------------------------------------------------
(***************************************************************************)
(* Requests and replies.                                                   *)
(***************************************************************************)
FlagByte(b) == IF b THEN "F1" ELSE "F0"

TypeByte(options) == IF options.keyed THEN "F2" ELSE IF options.fifo THEN "F0" ELSE "F1"

ParseType(byte) == [keyed |-> byte = "F2", fifo |-> byte = "F0"]

\* The request of the n-th call.  A Write is keyed if its key is not nil.
Encode(k, n) ==
    CASE k.op = "create" ->
            [op |-> "create", queue |-> k.queue, type |-> TypeByte(k.options), options |-> k.options, n |-> n]
      [] k.op \in {"delete", "attributes"} -> [op |-> k.op, queue |-> k.queue, n |-> n]
      [] k.op = "clear" ->
            [op |-> "clear", queue |-> k.queue, keyed |-> FlagByte(FALSE), keys |-> Keys \union {NoKey}, n |-> n]
      [] k.op = "clearKey" ->
            [op |-> "clear", queue |-> k.queue, keyed |-> FlagByte(TRUE), keys |-> {k.key}, n |-> n]
      [] k.op = "write" ->
            [op |-> "write", queue |-> k.queue, keyed |-> FlagByte(k.key # NoKey), key |-> k.key,
             entry |-> k.entry, n |-> n]
      [] k.op = "read" ->
            [op |-> "read", queue |-> k.queue, keyed |-> FlagByte(k.keyed), keys |-> k.keys,
             wait |-> k.wait, peek |-> FlagByte(k.peek), n |-> n]

\* Mutant: the return code is not looked at.
CheckCommonReplyUnread(r) == [is |-> "ok"]

CheckCommonReply(r) == IF r.rc = "F000" THEN [is |-> "ok"] ELSE [is |-> "error", rc |-> r.rc]

\* Mutants: any error is taken for an empty queue; an empty queue for an error.
NoDataAlways(rc) == TRUE
NoDataNever(rc) == FALSE

NoData(rc) == rc = "F006"

ParseReadReply(r) ==
    IF r.opcode = "entry" THEN [is |-> "entry", entry |-> r.entry]
    ELSE IF r.rc = "F000" \/ NoData(r.rc) THEN [is |-> "noEntry"] ELSE CheckCommonReply(r)

ParseAttributesReply(r) ==
    IF r.opcode = "attributes" THEN [is |-> "attributes", options |-> ParseType(r.type)]
    ELSE CheckCommonReply(r)

Parse(op, r) ==
    CASE op = "read" -> ParseReadReply(r)
      [] op = "attributes" -> ParseAttributesReply(r)
      [] OTHER -> CheckCommonReply(r)

Send(c, r) == request' = [request EXCEPT ![c] = Append(@, r)]
TakeReply(c) == reply' = [reply EXCEPT ![c] = Tail(@)]
DropReplies(c) == reply' = [reply EXCEPT ![c] = << >>]

-----------------------------------------------------------------------------
(***************************************************************************)
(* The clients.                                                            *)
(***************************************************************************)
\* Connect: the socket is dialed and the first request of the handshake sent.
Dial(c) ==
    /\ stage[c] = "new"
    /\ \/ /\ stage' = [stage EXCEPT ![c] = Handshakes[1]]
          /\ open' = [open EXCEPT ![c] = TRUE]
          /\ Send(c, [op |-> Handshakes[1]])
       \/ /\ stage' = [stage EXCEPT ![c] = "failed"]
          /\ UNCHANGED <<open, request>>
    /\ UNCHANGED <<queue, job, reply, call, result, history>>

\* Mutant: what the server says to the exchange of attributes is not looked at.
AcceptsUnchecked(r) == IF r.opcode = "handshake" THEN r.rc = "F000" ELSE TRUE

\* A normal reply to the exchange of attributes is not looked into.
Accepts(r) == IF r.opcode = "exchanged" THEN TRUE ELSE r.rc = "F000"

\* Connect fails and closes its socket.
GiveUp(c) ==
    /\ stage' = [stage EXCEPT ![c] = "failed"]
    /\ open' = [open EXCEPT ![c] = FALSE]
    /\ DropReplies(c)
    /\ UNCHANGED request

\* The steps of the handshake, 1 .. 3.
Step(c) == CHOOSE i \in DOMAIN Handshakes : Handshakes[i] = stage[c]

\* The next request of the handshake is sent, or Connect is done; or it fails,
\* before "start" also because the user ID or password cannot be encoded.
Handshake(c) ==
    /\ stage[c] \in Range(Handshakes) /\ reply[c] # << >>
    /\ LET i == Step(c) IN
       \/ /\ ~Accepts(Head(reply[c])) \/ stage[c] = "seeds"
          /\ GiveUp(c)
       \/ /\ Accepts(Head(reply[c])) /\ i < Len(Handshakes)
          /\ stage' = [stage EXCEPT ![c] = Handshakes[i + 1]]
          /\ Send(c, [op |-> Handshakes[i + 1]])
          /\ TakeReply(c)
          /\ UNCHANGED open
       \/ /\ Accepts(Head(reply[c])) /\ i = Len(Handshakes)
          /\ stage' = [stage EXCEPT ![c] = "ready"]
          /\ TakeReply(c)
          /\ UNCHANGED <<open, request>>
    /\ UNCHANGED <<queue, job, call, result, history>>

\* No reply comes to a request of the handshake.
HandshakeFails(c) ==
    /\ stage[c] \in Range(Handshakes)
    /\ GiveUp(c)
    /\ UNCHANGED <<queue, job, call, result, history>>

\* A call whose arguments can be encoded; the others change nothing.
Begin(c, k) ==
    /\ stage[c] = "ready" /\ open[c] /\ call[c] = NoCall
    /\ calls < MaxCalls
    /\ calls' = calls + 1
    /\ call' = [call EXCEPT ![c] = k]
    /\ IF k.op = "write" THEN k.entry \notin written /\ written' = written \union {k.entry}
       ELSE UNCHANGED written
    /\ Send(c, Encode(k, calls'))
    /\ result' = [result EXCEPT ![c] = [n |-> calls', call |-> k, reply |-> NoReply, value |-> [is |-> "none"]]]
    /\ UNCHANGED <<queue, job, reply, stage, open, taken, given>>

\* The entry of a Write, and those that a Read's reply takes from their queue.
WrittenBy(k) == IF k.op = "write" THEN {k.entry} ELSE {}
TakenBy(r) == IF r.opcode = "entry" /\ r.did = "taken" THEN {r.entry} ELSE {}

\* The call takes the next reply for its own.
Receive(c) ==
    /\ call[c] # NoCall /\ reply[c] # << >>
    /\ LET r == Head(reply[c])
           value == Parse(call[c].op, r)
       IN
       /\ result' = [result EXCEPT ![c].reply = r, ![c].value = value]
       /\ taken' = IF value.is = "entry" /\ ~call[c].peek THEN [taken EXCEPT ![value.entry] = @ + 1] ELSE taken
       /\ given' = IF value.is = "error" THEN given \union WrittenBy(call[c]) ELSE given
    /\ call' = [call EXCEPT ![c] = NoCall]
    /\ TakeReply(c)
    /\ UNCHANGED <<queue, job, request, stage, open, calls, written>>

\* IOTimeout passes or the socket fails, and the caller closes the Client, as
\* the comment on Connection.CallContext asks.
CallFails(c) ==
    /\ call[c] # NoCall
    /\ \E why \in {"ioError"} \union IF IOTimeout THEN {"timeout"} ELSE {} :
          result' = [result EXCEPT ![c].value = [is |-> why]]
    /\ call' = [call EXCEPT ![c] = NoCall]
    /\ open' = [open EXCEPT ![c] = FALSE]
    /\ DropReplies(c)
    /\ given' = given \union WrittenBy(call[c]) \union UNION {TakenBy(r) : r \in Range(reply[c])}
    /\ UNCHANGED <<queue, job, request, stage, calls, written, taken>>

\* Client.Close between calls.
Close(c) ==
    /\ stage[c] = "ready" /\ open[c] /\ call[c] = NoCall
    /\ open' = [open EXCEPT ![c] = FALSE]
    /\ UNCHANGED <<queue, job, request, reply, stage, call, result, history>>

-----------------------------------------------------------------------------
(***************************************************************************)
(* The server.  Its replies tell in `did` what it has done for call `n`.   *)
(***************************************************************************)
Absent == [exists |-> FALSE]
Created(byte, options) == [exists |-> TRUE, type |-> byte, options |-> options, entries |-> << >>]

\* What is sent to a closed socket is lost.
Reply(c, r) ==
    /\ reply' = [reply EXCEPT ![c] = IF open[c] THEN Append(@, r) ELSE @]
    /\ request' = [request EXCEPT ![c] = Tail(@)]

ServeHandshake(c) ==
    /\ request[c] # << >> /\ Head(request[c]).op \in Range(Handshakes)
    /\ LET last == Head(request[c]).op = "exchange" IN
       \/ /\ Reply(c, IF last THEN [opcode |-> "exchanged"] ELSE [opcode |-> "handshake", rc |-> "F000"])
          /\ job' = [job EXCEPT ![c] = @ + 1]
       \/ /\ Reply(c, [opcode |-> IF last THEN "common" ELSE "handshake", rc |-> "F001"])
          /\ UNCHANGED job
    /\ UNCHANGED <<queue, client, history>>

Keyed(q) == queue[q].exists /\ queue[q].type = "F2"

\* The places of the entries that a request asks for; it gets one of them.
Matching(r) == {i \in DOMAIN queue[r.queue].entries : queue[r.queue].entries[i].key \in r.keys}

\* The entries, in order, that a request for these keys leaves: SelectSeq as a
\* recursive function, which a proof can unfold.
Kept(entries, keys) ==
    LET upTo[n \in 0 .. Len(entries)] ==
            IF n = 0 THEN << >>
            ELSE IF entries[n].key \in keys THEN upTo[n - 1] ELSE Append(upTo[n - 1], entries[n])
    IN  upTo[Len(entries)]

Common(r, rc, did) == [opcode |-> "common", rc |-> rc, did |-> did, n |-> r.n]

Refuses(r) ==
    CASE r.op = "create" -> queue[r.queue].exists
      [] r.op \in {"delete", "attributes"} -> ~queue[r.queue].exists
      [] r.op = "clear" -> ~queue[r.queue].exists \/ (r.keyed = "F1" /\ ~Keyed(r.queue))
      [] OTHER -> ~queue[r.queue].exists \/ (r.keyed = "F1") # Keyed(r.queue)

Serve(c) ==
    /\ request[c] # << >> /\ Head(request[c]).op \notin Range(Handshakes)
    /\ LET r == Head(request[c])
           q == queue[r.queue]
           Becomes(new) == queue' = [queue EXCEPT ![r.queue] = new]
           Gives(entries) == given' = given \union entries
       IN
       \/ /\ Refuses(r)
          /\ Reply(c, Common(r, "F001", "refused"))
          /\ UNCHANGED <<queue, given>>
       \/ /\ ~Refuses(r) /\ r.op \in {"create", "delete", "clear", "write"}
          /\ CASE r.op = "create" -> Becomes(Created(r.type, r.options))
               [] r.op = "delete" -> Becomes(Absent)
               [] r.op = "clear" -> Becomes([q EXCEPT !.entries = Kept(@, r.keys)])
               [] r.op = "write" -> Becomes([q EXCEPT !.entries = Append(@, [key |-> r.key, entry |-> r.entry])])
          /\ Reply(c, Common(r, "F000", "done"))
          /\ Gives(CASE r.op = "delete" -> {e.entry : e \in Range(q.entries)}
                     [] r.op = "clear" -> {e.entry : e \in {e \in Range(q.entries) : e.key \in r.keys}}
                     [] OTHER -> {})
       \/ /\ ~Refuses(r) /\ r.op = "attributes"
          /\ Reply(c, [opcode |-> "attributes", type |-> q.type, options |-> q.options, did |-> "told", n |-> r.n])
          /\ UNCHANGED <<queue, given>>
       \/ /\ ~Refuses(r) /\ r.op = "read"
          /\ \E i \in Matching(r) :
                /\ Reply(c, [opcode |-> "entry", entry |-> q.entries[i].entry, queue |-> r.queue, n |-> r.n,
                             did |-> IF r.peek = "F1" THEN "peeked" ELSE "taken"])
                /\ Becomes(IF r.peek = "F1" THEN q ELSE [q EXCEPT !.entries = RemoveAt(@, i)])
                /\ Gives(IF r.peek = "F1" \/ open[c] THEN {} ELSE {q.entries[i].entry})
       \/ /\ ~Refuses(r) /\ r.op = "read" /\ r.wait # "forever"
          /\ Matching(r) = {}
          /\ Reply(c, Common(r, "F006", "noEntry"))
          /\ UNCHANGED <<queue, given>>
    /\ UNCHANGED <<job, client, calls, written, taken>>

\* The job of a closed socket ends, whether or not it has served its request.
EndJob(c) ==
    /\ ~open[c] /\ request[c] # << >>
    /\ request' = [request EXCEPT ![c] = << >>]
    /\ UNCHANGED <<queue, job, reply, client, history>>

-----------------------------------------------------------------------------
\* Queues that exist at first are empty.
Init ==
    /\ queue \in [Queues -> {Absent} \union {Created(TypeByte(o), o) : o \in Options}]
    /\ job = [c \in Clients |-> 0]
    /\ request = [c \in Clients |-> << >>] /\ reply = [c \in Clients |-> << >>]
    /\ stage = [c \in Clients |-> "new"] /\ open = [c \in Clients |-> FALSE]
    /\ call = [c \in Clients |-> NoCall]
    /\ result = [c \in Clients |-> [n |-> 0, call |-> NoCall, reply |-> NoReply, value |-> [is |-> "none"]]]
    /\ calls = 0 /\ written = {} /\ given = {} /\ taken = [e \in Entries |-> 0]

Next == \E c \in Clients :
    \/ Dial(c) \/ Handshake(c) \/ HandshakeFails(c)
    \/ \E k \in Calls : Begin(c, k)
    \/ Receive(c) \/ CallFails(c) \/ Close(c)
    \/ ServeHandshake(c) \/ Serve(c) \/ EndJob(c)

Spec == Init /\ [][Next]_vars

-----------------------------------------------------------------------------
\* What a call returns is what the server has done for that very call, as far as
\* the caller can tell: a nil error, an entry and from which queue, no entry, a
\* queue's attributes, an error.
ResultsTrue ==
    \A c \in Clients :
        LET k == result[c].call
            r == result[c].reply
            v == result[c].value
        IN  r # NoReply =>
            /\ r.n = result[c].n
            /\ v.is = "ok" => r.did = "done" /\ k.op \notin {"read", "attributes"}
            /\ v.is = "noEntry" => r.did = "noEntry" /\ k.op = "read"
            /\ v.is = "error" => r.did = "refused"
            /\ v.is = "entry" => /\ r.did = IF k.peek THEN "peeked" ELSE "taken"
                                 /\ r.queue = k.queue
            /\ v.is = "attributes" => /\ v.options.keyed = r.options.keyed
                                      /\ ~r.options.keyed => v.options.fifo = r.options.fifo

PlacesIn(entries, e) == {i \in DOMAIN entries : entries[i].entry = e}

\* Of an entry that was written there is never more than one: in the request of
\* its Write, or in the refusal that its writer is about to read, in a queue, in
\* the reply to the one Read that takes it, or received.  No two Reads receive
\* it, whoever reads, peeks and times out.  Unless a failed call has given it up
\* it is in one of these places: a Peek never loses it, an error never hides it,
\* no reply drops it.
EntriesAccounted ==
    \A e \in written :
        LET asked == {c \in Clients : request[c] # << >> /\ e \in WrittenBy(Head(request[c]))}
            refused == {c \in Clients : /\ e \in WrittenBy(call[c])
                                       /\ \E r \in Range(reply[c]) : r.did = "refused"}
            queued == UNION {{<<q, i>> : i \in PlacesIn(queue[q].entries, e)} : q \in {q \in Queues : queue[q].exists}}
            answered == {c \in Clients : \E r \in Range(reply[c]) : e \in TakenBy(r)}
            places == Cardinality(asked) + Cardinality(refused) + Cardinality(queued)
                        + Cardinality(answered) + taken[e]
        IN  places <= 1 /\ (e \notin given => places = 1)

\* Connect is all or nothing: a Client it returns has a job that has accepted
\* every step of the handshake, a Connect that fails leaves no socket open.
ConnectsWhole ==
    \A c \in Clients :
        /\ stage[c] = "ready" => job[c] = Len(Handshakes)
        /\ stage[c] = "failed" => ~open[c]

\* A Read asked to "wait indefinitely" (queue.go) is not ended by a timeout.
WaitsAsAsked ==
    \A c \in Clients :
        result[c].call.op = "read" /\ result[c].value.is = "timeout" => result[c].call.wait # "forever"
=============================================================================
