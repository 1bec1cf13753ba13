---------------------------- MODULE RemoteCommand ----------------------------
(***************************************************************************)
(* rmtcmd.Client: connecting to the remote command server, RunCommand and  *)
(* CallProgram with Parameters that the caller may use again, and the      *)
(* server's job.  The calls of a Client are made one at a time; a call     *)
(* whose exchange fails is the Client's last (see Connection).             *)
(***************************************************************************)
EXTENDS ProgramReply

CONSTANTS
    Levels,       \* datastream levels of servers
    Signatures,   \* parameter lists of programs: a usage and a length each
    Contents,     \* what a parameter may hold
    MessageLists, \* what a job may have to say
    FewMessages,  \* 10: messages attached unless all are asked for
    MaxCalls

Usages == {"input", "output", "inout", "null"}

ASSUME RemoteAssumption ==
    /\ Levels \subseteq Nat /\ FewMessages \in Nat /\ MaxCalls \in Nat
    /\ Contents \subseteq Seq(0 .. ByteSize - 1)
    /\ Signatures \subseteq Seq([usage : Usages, max : Nat])
    /\ MessageLists \subseteq Seq([MessageFields -> Seq(Nat)])
    /\ \A list \in MessageLists : \A i \in DOMAIN list : \A f \in FixedFields : Len(list[i][f]) = 1

VARIABLES
    status,   \* of the Client
    level,    \* Client.dsLevel
    params,   \* the Parameters of the latest CallProgram
    option,   \* its MessageOption
    outcome, messages,  \* what the latest call returned
    request, reply,     \* on their way: none, or the body of one
    job,      \* the server's side of the latest call
    calls

remoteVars == <<status, level, params, option, outcome, messages, request, reply, job, calls>>

Options == {"few", "none", "all"}
None == << >>

\* Nothing has been done for a call yet: no parameters seen by a program or
\* left by it, nothing to say, no reply.
Unasked == [did |-> "nothing", seen |-> << >>, left |-> << >>, says |-> << >>, whole |-> FALSE]

RemoteInit ==
    /\ status = "new"
    /\ level = 0
    /\ params = << >>
    /\ option = "few"
    /\ outcome = "none" /\ messages = << >>
    /\ request = None /\ reply = None
    /\ job = Unasked
    /\ calls = 0

-----------------------------------------------------------------------------
(***************************************************************************)
(* Requests.                                                               *)
(***************************************************************************)
\* Mutant: the option goes out as the caller gave it.
OptionCodePlain(opt) == CASE opt = "few" -> 0 [] opt = "none" -> 1 [] opt = "all" -> 2

\* remapMessageCount
OptionCode(opt) ==
    CASE opt = "none" -> 1
      [] opt # "none" /\ (opt = "few" \/ level < 7) -> IF level >= 11 THEN 5 ELSE IF level >= 10 THEN 3 ELSE 0
      [] OTHER -> IF level >= 11 THEN 6 ELSE IF level >= 10 THEN 4 ELSE 2

\* Mutant: everything from the first zero on is cut off.
TrimFromFirstZero(d) ==
    LET zero == {i \in DOMAIN d : d[i] = 0} IN
    IF zero = {} THEN d ELSE SubSeq(d, 1, (CHOOSE i \in zero : \A j \in zero : i <= j) - 1)

\* trimTrailingZeros
Trim(d) ==
    LET kept == {0} \union {i \in DOMAIN d : d[i] # 0} IN
    SubSeq(d, 1, CHOOSE i \in kept : \A j \in kept : j <= i)

\* resolveParam: the usage code for the server's level, and the data sent.
UsageCode(p) ==
    CASE p.usage = "output" -> 22
      [] p.usage = "null" -> IF level < 6 THEN 1 ELSE 255
      [] p.usage = "input" -> 11
      [] p.usage = "inout" -> IF level >= 5 THEN 33 ELSE 13
Sent(p) == IF p.usage \in {"input", "inout"} THEN Trim(p.input) ELSE << >>

ParameterCodePoint == 4355   \* 16r1103

ProgramRequest(ps, opt) ==
    <<OptionCode(opt), Len(ps)>>
    \o FlattenSeq([i \in DOMAIN ps |->
          <<EntryHead + Len(Sent(ps[i])), ParameterCodePoint, ps[i].max, UsageCode(ps[i])>> \o Sent(ps[i])])

-----------------------------------------------------------------------------
(***************************************************************************)
(* The Client.                                                             *)
(***************************************************************************)
Returns(result, list) ==
    /\ outcome' = result
    /\ messages' = list

\* Connect: Dial, the two exchanges of Logon, and one of attributes; whatever
\* fails, the socket is closed.
Logon ==
    /\ status = "new"
    /\ status' \in {"loggedOn", "closed"}
    /\ UNCHANGED <<level, params, option, outcome, messages, request, reply, job, calls>>

ExchangeAttributes ==
    /\ status = "loggedOn"
    /\ \/ status' = "idle" /\ level' \in Levels
       \/ status' = "closed" /\ UNCHANGED level
    /\ UNCHANGED <<params, option, outcome, messages, request, reply, job, calls>>

\* The Parameters of a call: new ones, or those of the call before with other
\* input and what they still hold as output.
Inputs(p) == IF p.usage \in {"input", "inout"} THEN {d \in Contents : Len(d) <= p.max} ELSE {<< >>}
WithInputs(ps) ==
    {[i \in DOMAIN ps |-> [ps[i] EXCEPT !.input = in[i]]] :
        in \in {in \in [DOMAIN ps -> Contents \union {<< >>}] :
                  \A i \in DOMAIN ps : in[i] \in Inputs(ps[i])}}
NewParams ==
    UNION {WithInputs([i \in DOMAIN s |-> [usage |-> s[i].usage, max |-> s[i].max,
                                           input |-> << >>, output |-> << >>]]) : s \in Signatures}

Begin(opt) ==
    /\ status = "idle"
    /\ calls < MaxCalls
    /\ calls' = calls + 1
    /\ option' = opt
    /\ job' = Unasked
    /\ UNCHANGED <<level, reply>>

\* CallProgram up to its request; a name that is not EBCDIC ends it.
CallProgram ==
    \E opt \in Options :
        /\ Begin(opt)
        /\ params' \in IF params = << >> THEN NewParams ELSE WithInputs(params)
        /\ \/ /\ status' = "calling"
              /\ request' = <<ProgramRequest(params', opt)>>
              /\ Returns("none", << >>)
           \/ /\ Returns("unsent", << >>)
              /\ UNCHANGED <<status, request>>

\* RunCommand up to its request; an old server is not asked.
RunCommand ==
    \E opt \in Options :
        /\ Begin(opt)
        /\ params' = << >>
        /\ IF level < 10
           THEN Returns("unsent", << >>) /\ UNCHANGED <<status, request>>
           ELSE /\ status' = "calling"
                /\ request' = << <<OptionCode(opt)>> >>
                /\ Returns("none", << >>)

\* The rest of a call, with its reply.
Receive ==
    /\ status = "calling" /\ reply # None
    /\ status' = "idle"
    /\ reply' = None
    /\ LET body == Head(reply)
           out == ReadOutputs(body, params)
       IN  IF body = << >> THEN Returns("failed", << >>) /\ UNCHANGED params
           ELSE IF body[1] # 0
           THEN Returns("refused", ParseMessages(body)) /\ UNCHANGED params
           ELSE /\ Returns(IF out.ok THEN "done" ELSE "failed", ParseMessages(body))
                /\ params' = out.params
    /\ UNCHANGED <<level, option, request, job, calls>>

\* The exchange fails, before or after the server's part in it.
CallFails ==
    /\ status = "calling"
    /\ status' = "lost"
    /\ Returns("failed", << >>)
    /\ UNCHANGED <<level, params, option, request, reply, job, calls>>

Close ==
    /\ status \in {"idle", "lost"}
    /\ status' = "closed"
    /\ UNCHANGED <<level, params, option, outcome, messages, request, reply, job, calls>>

-----------------------------------------------------------------------------
(***************************************************************************)
(* The server's job (not part of the repository).                          *)
(***************************************************************************)
\* How it takes the message options of its level, and the format it uses.
Attached(code, list) ==
    IF code = 1 THEN << >>
    ELSE IF code \in {2, 4, 6} THEN list
    ELSE SubSeq(list, 1, IF Len(list) < FewMessages THEN Len(list) ELSE FewMessages)
KnownOptions == {0, 1} \union (IF level >= 7 THEN {2} ELSE {})
                \union (IF level >= 10 THEN {3, 4} ELSE {}) \union (IF level >= 11 THEN {5, 6} ELSE {})
Format(code) == CASE code \in {3, 4} -> 6 [] code \in {5, 6} -> 7 [] OTHER -> 0

OutputEntry(declared, code, data) == <<EntryHead + Len(data), ParameterCodePoint, declared, code>> \o data
Prefixed(d) == <<Len(d)>> \o d
Sized(fields) == <<1 + Len(fields)>> \o fields
FieldOf(m, f) == IF f \in MessageFields THEN Prefixed(m[f]) ELSE Prefixed(<<1>>)
Fields(m, names) == FlattenSeq([i \in DOMAIN names |-> FieldOf(m, names[i])])
MessageEntry(m, format) ==
    Sized(CASE format = 6 -> <<0, 6, 37, 37>> \o m["sev"] \o Fields(m, Fields06)
            [] format = 7 -> <<0, 7>> \o Fields(m, Fields07)
            [] OTHER -> <<0, 0>> \o m["id"] \o m["type"] \o m["sev"] \o m["file"] \o m["lib"]
                        \o <<Len(m["sub"]), Len(m["text"])>> \o m["sub"] \o m["text"])
\* The classic format has no help text.
Shown(m, format) == IF format = 0 THEN [m EXCEPT !["help"] = << >>] ELSE m

MessageReply(list, format) ==
    <<Len(list)>> \o FlattenSeq([i \in DOMAIN list |-> MessageEntry(list[i], format)])

\* The encodings of data: byte by byte, or with repeated pairs.
Literal(b) == IF b = Escape THEN <<b, b>> ELSE <<b>>
Repeater(b1, b2, count) == <<Escape, b1, b2, count \div ByteSize, count % ByteSize>>
\* How often the pair at the end of the first n bytes may be said to repeat.
Repeats(data, n) ==
    {k \in 1 .. n \div 2 :
        /\ data[n - 1] # Escape /\ k < ByteSize * ByteSize
        /\ SubSeq(data, n - 2 * k + 1, n) = Pairs(data[n - 1], data[n], k)}
Encodings(data) ==
    LET to[n \in 0 .. Len(data)] ==
            IF n = 0 THEN {<< >>}
            ELSE {e \o Literal(data[n]) : e \in to[n - 1]}
                 \union UNION {{e \o Repeater(data[n - 1], data[n], k) : e \in to[n - 2 * k]} :
                                 k \in Repeats(data, n)}
    IN to[Len(data)]

\* Parameters as a program gets them: with as many bytes as it declares, the
\* missing ones zero.
Padded(data, max) == data \o [i \in 1 .. max - Len(data) |-> 0]
KnownUsages == {1, 11, 13, 22} \union (IF level >= 5 THEN {33} ELSE {})
               \union (IF level >= 6 THEN {255} ELSE {})
Direction(code) ==
    CASE code = 11 -> "input" [] code = 22 -> "output" [] code \in {13, 33} -> "inout"
      [] OTHER -> "null"
\* Where the entries of a call begin, and behind them all the body ends.
EntriesIn(body) ==
    LET from[n \in 1 .. body[2] + 1] == IF n = 1 THEN 2 ELSE from[n - 1] + body[from[n - 1] + 1]
    IN  from
SeenIn(body) ==
    LET from == EntriesIn(body) IN
    [n \in 1 .. body[2] |->
        [usage |-> Direction(body[from[n] + 4]), max |-> body[from[n] + 3],
         data |-> Padded(SubSeq(body, from[n] + EntryHead + 1, from[n + 1]), body[from[n] + 3])]]
\* Usages its level knows, in entries that fill the body.
KnownEntries(body) ==
    LET from == EntriesIn(body) IN
    /\ \A n \in 1 .. body[2] : body[from[n] + 4] \in KnownUsages
    /\ from[body[2] + 1] = Len(body)

\* What a program may leave in its parameters.
Leavings(seen) ==
    {left \in [DOMAIN seen -> Contents] :
        \A i \in DOMAIN seen :
            IF HasEntry(seen[i]) THEN Len(left[i]) = seen[i].max ELSE left[i] = << >>}

\* Its reply: each output plain or compressed, under a usage code of its own.
OutputEntries(p, data) ==
    IF ~HasEntry(p) THEN {<< >>}
    ELSE {OutputEntry(Len(data), 12, data)} \union
         {OutputEntry(Len(data), IF p.usage = "output" THEN 22 ELSE 23, e) : e \in Encodings(data)}
Outputs(seen, left) ==
    LET may == [i \in DOMAIN seen |-> OutputEntries(seen[i], left[i])] IN
    {FlattenSeq(es) : es \in {es \in [DOMAIN seen -> UNION Range(may)] :
                                \A i \in DOMAIN seen : es[i] \in may[i]}}

\* A reply may be cut short.
Answer(did, seen, left, says, body) ==
    \E n \in 0 .. Len(body) :
        /\ reply' = <<SubSeq(body, 1, n)>>
        /\ job' = [did |-> did, seen |-> seen, left |-> left, says |-> says, whole |-> n = Len(body)]

Serve ==
    /\ status = "calling" /\ request # None
    /\ request' = None
    /\ LET body == Head(request)
           code == body[1]
           isProgramCall == Len(body) > 1
           known == /\ code \in KnownOptions
                    /\ isProgramCall => KnownEntries(body)
           attached(list) == MessageReply(Attached(code, list), Format(code))
       IN  IF ~known THEN Answer("protocolError", << >>, << >>, << >>, <<512, 0>>)
           ELSE \/ \E list \in MessageLists :
                      Answer("refused", << >>, << >>, list, <<1024>> \o attached(list))
                \/ /\ ~isProgramCall
                   /\ \E list \in MessageLists :
                         Answer("run", << >>, << >>, list, <<0>> \o attached(list))
                \/ /\ isProgramCall
                   /\ \E left \in Leavings(SeenIn(body)) : \E outputs \in Outputs(SeenIn(body), left) :
                         Answer("run", SeenIn(body), left, << >>, <<0, 0>> \o outputs)
    /\ UNCHANGED <<status, level, params, option, outcome, messages, calls>>

-----------------------------------------------------------------------------
RemoteNext ==
    \/ Logon \/ ExchangeAttributes
    \/ CallProgram \/ RunCommand \/ Receive \/ CallFails \/ Close
    \/ Serve

-----------------------------------------------------------------------------
RemoteTypeOK ==
    /\ status \in {"new", "loggedOn", "idle", "calling", "lost", "closed"}
    /\ level \in Levels \union {0}
    /\ \A i \in DOMAIN params :
          /\ params[i].usage \in Usages
          /\ params[i].output \in Contents \union {<< >>}
    /\ option \in Options
    /\ outcome \in {"none", "unsent", "failed", "refused", "done"}
    /\ \A i \in DOMAIN messages : DOMAIN messages[i] = MessageFields
    /\ Len(request) <= 1 /\ Len(reply) <= 1
    /\ job.did \in {"nothing", "protocolError", "refused", "run"}
    /\ calls \in 0 .. MaxCalls

\* A program gets the caller's parameters, in their order and directions and
\* with trailing zeros restored, although these are not sent.
ProgramSees ==
    job.did = "run" /\ params # << >> =>
        /\ DOMAIN job.seen = DOMAIN params
        /\ \A i \in DOMAIN params :
              /\ job.seen[i].usage = params[i].usage
              /\ job.seen[i].data = Padded(params[i].input, params[i].max)

\* CallProgram returns without error only when each Output and InOut parameter
\* holds what this call's program left in that very parameter, however the
\* server encoded it, and it does so whenever the program's reply is whole.
\* With an error a parameter has either that or what it had before, never a
\* part of either.
OutputsTrue ==
    [][ status = "calling" =>
          /\ \A i \in DOMAIN params :
                /\ params'[i].output # params[i].output => params'[i].output = job.left[i]
                /\ outcome' = "done" /\ HasEntry(params[i]) => params'[i].output = job.left[i]
          /\ status' = "idle" /\ job.did = "run" /\ job.whole => outcome' = "done" ]_remoteVars

\* The messages a caller asked for, as far as the server's level allows.
Wanted(list) ==
    IF option = "none" THEN << >>
    ELSE IF (option = "all" /\ level >= 7) \/ Len(list) <= FewMessages THEN list
    ELSE SubSeq(list, 1, FewMessages)

\* The messages returned are those asked for, read with the format of the
\* server's level; of a reply cut short they are the first ones, of which the
\* last may lack fields: "malformed input degrades to a truncated message list"
\* (messages.go).
MessagesTrue ==
    outcome \in {"done", "refused"} =>
        LET format == IF level >= 11 THEN 7 ELSE IF level >= 10 THEN 6 ELSE 0
            list == [i \in DOMAIN Wanted(job.says) |-> Shown(Wanted(job.says)[i], format)]
            n == Len(messages)
        IN  IF job.whole THEN messages = list
            ELSE /\ n <= Len(list)
                 /\ \A i \in 1 .. n - 1 : messages[i] = list[i]
                 /\ n > 0 => \A f \in MessageFields : messages[n][f] \in {list[n][f], << >>}

\* No error means that the server ran the call, an Error with its return code
\* that it refused to; it is never asked for what its level does not know.
ResultTrue ==
    /\ outcome = "done" => job.did = "run"
    /\ outcome = "refused" => job.did = "refused"
    /\ outcome = "unsent" => job.did = "nothing"
    /\ job.did # "protocolError"
=============================================================================
