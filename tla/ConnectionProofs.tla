-------------------------- MODULE ConnectionProofs --------------------------
(***************************************************************************)
(* Theorems about Connection, for any set of callers and any contexts.     *)
(***************************************************************************)
EXTENDS Connection, SequenceTheorems, TLAPS

Result == {"none", "reply", "sent"} \union Failure

\* What exchange() assigns when it returns is of the right type.
LEMMA FinishType ==
    ASSUME TypeOK, NEW c \in Callers, NEW r \in Result, NEW n \in Nat, Finish(c, r, n)
    PROVE  /\ outcome' \in [Callers -> Result]
           /\ got' \in [Callers -> Nat]
           /\ pc' \in [Callers -> {"idle", "lock", "returned"} \union Exchanging]
BY DEF TypeOK, Finish, Result, Exchanging

LEMMA CauseType ==
    ASSUME NEW c \in Callers, NEW r \in Result
    PROVE  Cause(c, r) \in Result
BY DEF Cause, Result, Failure

LEMMA IOErrorType ==
    ASSUME TypeOK, NEW c \in Callers, IOError(c)
    PROVE  /\ outcome' \in [Callers -> Result]
           /\ got' \in [Callers -> Nat]
           /\ pc' \in [Callers -> {"idle", "lock", "returned"} \union Exchanging]
<1>1. "closed" \in Result /\ "timeout" \in Result /\ 0 \in Nat
  BY DEF Result, Failure
<1>2. Cause(c, "closed") \in Result /\ Cause(c, "timeout") \in Result
  BY <1>1, CauseType
<1> QED
  BY <1>1, <1>2, FinishType DEF IOError

\* Serving a request keeps requests and replies on the wire.
LEMMA ServeType ==
    ASSUME outbound \in Seq(Request), inbound \in Seq(Part), Serve
    PROVE  outbound' \in Seq(Request) /\ inbound' \in Seq(Part)
<1>1. Head(outbound) \in Request /\ outbound' \in Seq(Request)
  BY HeadTailProperties DEF Serve
<1>2. Head(outbound).call \in Nat
  BY ONLY <1>1 DEF Request
<1>3. ASSUME NEW n \in Nat, NEW more \in BOOLEAN PROVE Reply(n, more) \in Seq(Part)
  <2>1. /\ [call |-> n, part |-> "head", more |-> TRUE] \in Part
        /\ [call |-> n, part |-> "head", more |-> FALSE] \in Part
        /\ [call |-> n, part |-> "body", more |-> FALSE] \in Part
    BY ONLY n \in Nat DEF Part
  <2> QED
    BY ONLY <2>1 DEF Reply
<1>4. CASE UNCHANGED inbound
  BY ONLY <1>1, <1>4, inbound \in Seq(Part)
<1>5. ASSUME NEW more \in BOOLEAN, inbound' = inbound \o Reply(Head(outbound).call, more)
      PROVE  inbound' \in Seq(Part)
  <2>1. Reply(Head(outbound).call, more) \in Seq(Part)
    BY ONLY <1>2, <1>3, more \in BOOLEAN
  <2>2. inbound \o Reply(Head(outbound).call, more) \in Seq(Part)
    BY ONLY <2>1, inbound \in Seq(Part), ConcatProperties
  <2> QED
    BY ONLY <1>5, <2>2
<1>6. UNCHANGED inbound \/ \E more \in BOOLEAN : inbound' = inbound \o Reply(Head(outbound).call, more)
  BY ONLY Serve, Zenon DEF Serve
<1> QED
  BY ONLY <1>1, <1>4, <1>5, <1>6

\* Every variable of the specification keeps its type: correlation IDs stay
\* within their width, what is on the wire are requests and reply parts.
THEOREM TypeCorrect == Spec => []TypeOK
<1> USE ConnectionAssumption DEF TypeOK, Exchanging, Failure, ContextKind
<1>1. Init => TypeOK
  BY DEF Init
<1>2. TypeOK /\ [Next]_vars => TypeOK'
  <2> SUFFICES ASSUME TypeOK, [Next]_vars PROVE TypeOK'
    OBVIOUS
  <2>1. ASSUME NEW c \in Callers, Call(c) PROVE TypeOK'
    BY <2>1 DEF Call, wireVars
  <2>2. ASSUME NEW c \in Callers, Enter(c) PROVE TypeOK'
    <3>1. /\ mu' \in Callers \union {NoCaller}
          /\ deadline' \in {"none", "io", "ctx", "past"}
          /\ armed' \in [Callers -> BOOLEAN]
      BY <2>2 DEF Enter, Deadlines
    <3>2. /\ watcher' \in [Callers -> {"none", "waiting", "firing"}]
          /\ pc' \in [Callers -> {"idle", "lock", "returned"} \union Exchanging]
          /\ outcome' \in [Callers -> {"none", "reply", "sent"} \union Failure]
      BY <2>2 DEF Enter
    <3>3. UNCHANGED <<correlation, sock, calls, kind, ctx, wantReply, own, reading, got,
                      outbound, inbound, peer>>
      BY <2>2 DEF Enter, wireVars
    <3> QED
      BY ONLY TypeOK, <3>1, <3>2, <3>3 DEF TypeOK
  <2>3. ASSUME NEW c \in Callers, Write(c) PROVE TypeOK'
    <3>1. NextCorrelation \in 0 .. CorrelationModulus - 1 /\ NextCorrelation \in Nat
      BY DEF NextCorrelation
    <3>2. [call |-> own[c], corr |-> NextCorrelation, wantReply |-> wantReply[c]] \in Request
      BY <3>1 DEF Request
    <3>3. outbound' \in Seq(Request)
      <4>1. Append(outbound, [call |-> own[c], corr |-> NextCorrelation,
                              wantReply |-> wantReply[c]]) \in Seq(Request)
        BY <3>2, AppendProperties
      <4> QED
        BY <2>3, <4>1 DEF Write
    <3>4. /\ outcome' \in [Callers -> Result]
          /\ got' \in [Callers -> Nat]
          /\ pc' \in [Callers -> {"idle", "lock", "returned"} \union Exchanging]
      <4>1. "sent" \in Result /\ Cause(c, "io") \in Result /\ 0 \in Nat
        BY CauseType DEF Result
      <4>2. CASE Finish(c, "sent", 0) \/ Finish(c, Cause(c, "io"), 0)
        BY <4>1, <4>2, FinishType
      <4>3. CASE IOError(c)
        BY <4>3, IOErrorType
      <4>4. CASE pc' = [pc EXCEPT ![c] = "header"] /\ UNCHANGED <<outcome, got>>
        BY <4>4 DEF Result
      <4> QED
        BY <2>3, <4>2, <4>3, <4>4 DEF Write
    <3>5. peer' \in {"up", "mute", "stuck", "gone"}
      BY <2>3 DEF Write
    <3> QED
      BY <2>3, <3>1, <3>3, <3>4, <3>5 DEF Write, Result
  <2>4. ASSUME NEW c \in Callers, ReadHeader(c) PROVE TypeOK'
    <3>1. inbound' \in Seq(Part) /\ (inbound # <<>> => Head(inbound).call \in Nat)
      <4>1. inbound # <<>> => Head(inbound) \in Part /\ Tail(inbound) \in Seq(Part)
        BY HeadTailProperties
      <4> QED
        BY <2>4, <4>1 DEF ReadHeader, Part
    <3>2. /\ outcome' \in [Callers -> Result]
          /\ got' \in [Callers -> Nat]
          /\ pc' \in [Callers -> {"idle", "lock", "returned"} \union Exchanging]
          /\ reading' \in [Callers -> Nat]
      <4>1. "reply" \in Result /\ Cause(c, "io") \in Result /\ Cause(c, "malformed") \in Result
        BY CauseType DEF Result
      <4>2. CASE inbound # <<>> /\ Finish(c, "reply", Head(inbound).call) /\ UNCHANGED reading
        BY <3>1, <4>1, <4>2, FinishType
      <4>3. CASE /\ UNCHANGED reading
                 /\ \/ Finish(c, Cause(c, "io"), 0) \/ Finish(c, Cause(c, "malformed"), 0)
                    \/ Finish(c, "reply", 0)
        BY <4>1, <4>3, FinishType
      <4>4. CASE IOError(c) /\ UNCHANGED reading
        BY <4>4, IOErrorType
      <4>5. CASE /\ inbound # <<>>
                 /\ pc' = [pc EXCEPT ![c] = "body"] /\ UNCHANGED <<outcome, got>>
                 /\ reading' = [reading EXCEPT ![c] = Head(inbound).call]
        BY <3>1, <4>5 DEF Result
      <4> QED
        BY <2>4, <4>2, <4>3, <4>4, <4>5 DEF ReadHeader
    <3> QED
      BY <2>4, <3>1, <3>2 DEF ReadHeader, Result
  <2>5. ASSUME NEW c \in Callers, ReadBody(c) PROVE TypeOK'
    <3>1. inbound' \in Seq(Part)
      <4>1. inbound # <<>> => Tail(inbound) \in Seq(Part)
        BY HeadTailProperties
      <4> QED
        BY <2>5, <4>1 DEF ReadBody
    <3>2. /\ outcome' \in [Callers -> Result]
          /\ got' \in [Callers -> Nat]
          /\ pc' \in [Callers -> {"idle", "lock", "returned"} \union Exchanging]
      <4>1. "reply" \in Result /\ Cause(c, "io") \in Result
        BY CauseType DEF Result
      <4>2. CASE Finish(c, "reply", reading[c]) \/ Finish(c, Cause(c, "io"), 0)
        BY <4>1, <4>2, FinishType
      <4>3. CASE IOError(c)
        BY <4>3, IOErrorType
      <4> QED
        BY <2>5, <4>2, <4>3 DEF ReadBody
    <3> QED
      BY <2>5, <3>1, <3>2 DEF ReadBody, Result
  <2>6. ASSUME NEW c \in Callers, Leave(c) PROVE TypeOK'
    BY <2>6 DEF Leave, wireVars
  <2>7. ASSUME NEW c \in Callers, Return(c) PROVE TypeOK'
    <3>1. /\ pc' \in [Callers -> {"idle", "lock", "returned"} \union Exchanging]
          /\ kind' \in [Callers -> ContextKind]
          /\ ctx' \in [Callers -> {"live", "due", "done"}]
      BY <2>7 DEF Return
    <3>2. /\ wantReply' \in [Callers -> BOOLEAN]
          /\ own' \in [Callers -> Nat]
          /\ reading' \in [Callers -> Nat]
      BY <2>7 DEF Return
    <3>3. /\ outcome' \in [Callers -> {"none", "reply", "sent"} \union Failure]
          /\ got' \in [Callers -> Nat]
          /\ sock' \in {"open", "closed"}
      BY <2>7 DEF Return
    <3>4. UNCHANGED <<mu, correlation, deadline, calls, armed, watcher, outbound, inbound, peer>>
      BY <2>7 DEF Return, wireVars
    <3> QED
      BY ONLY TypeOK, <3>1, <3>2, <3>3, <3>4 DEF TypeOK
  <2>8. ASSUME NEW c \in Callers, WatcherSeesDone(c) \/ WatcherFires(c) \/ WatcherSeesStop(c)
        PROVE TypeOK'
    <3>1. /\ watcher' \in [Callers -> {"none", "waiting", "firing"}]
          /\ deadline' \in {"none", "io", "ctx", "past"}
      BY ONLY TypeOK, <2>8 DEF TypeOK, WatcherSeesDone, WatcherFires, WatcherSeesStop
    <3>2. UNCHANGED <<mu, correlation, sock, calls, pc, kind, ctx, wantReply, armed, own,
                      reading, outcome, got, outbound, inbound, peer>>
      BY ONLY <2>8 DEF WatcherSeesDone, WatcherFires, WatcherSeesStop, wireVars
    <3> QED
      BY ONLY TypeOK, <3>1, <3>2 DEF TypeOK
  <2>9. ASSUME NEW c \in Callers, Cancel(c) \/ ContextDue(c) \/ ContextTimer(c)
        PROVE TypeOK'
    <3>1. ctx' \in [Callers -> {"live", "due", "done"}]
      <4>1. \/ ctx' = [ctx EXCEPT ![c] = "done"]
            \/ ctx' = [ctx EXCEPT ![c] = "due"]
        BY ONLY <2>9 DEF Cancel, ContextDue, ContextTimer
      <4>2. ctx \in [Callers -> {"live", "due", "done"}]
        BY ONLY TypeOK DEF TypeOK
      <4> QED
        BY ONLY <4>1, <4>2
    <3>2. UNCHANGED <<mu, correlation, deadline, sock, calls, pc, kind, wantReply, armed,
                      watcher, own, reading, outcome, got, outbound, inbound, peer>>
      BY ONLY <2>9 DEF Cancel, ContextDue, ContextTimer, wireVars
    <3> QED
      BY ONLY TypeOK, <3>1, <3>2 DEF TypeOK
  <2>10. CASE Expire
    BY <2>10 DEF Expire, callerVars, wireVars
  <2>11. CASE Serve
    <3>1. outbound' \in Seq(Request) /\ inbound' \in Seq(Part)
      BY ONLY TypeOK, <2>11, ServeType DEF TypeOK
    <3> QED
      BY <2>11, <3>1 DEF Serve, callerVars
  <2>12. CASE PeerFails
    BY <2>12 DEF PeerFails, callerVars
  <2>13. CASE UNCHANGED vars
    BY <2>13 DEF vars, callerVars, wireVars
  <2> QED
    BY <2>1, <2>2, <2>3, <2>4, <2>5, <2>6, <2>7, <2>8, <2>9, <2>10, <2>11, <2>12, <2>13
    DEF Next
<1> QED
  BY <1>1, <1>2, PTL DEF Spec

-----------------------------------------------------------------------------
\* Only the mutex's holder is between Enter and Leave, and a watcher runs only
\* for the holder.
Exclusion ==
    /\ \A c \in Callers : pc[c] \in Exchanging <=> mu = c
    /\ \A c \in Callers : watcher[c] # "none" => mu = c

LEMMA ExclusionInductive ==
    ASSUME TypeOK, Exclusion, [Next]_vars
    PROVE  Exclusion'
<1> USE ConnectionAssumption DEF TypeOK, Exclusion, Exchanging
<1>1. ASSUME NEW c \in Callers, Call(c) PROVE Exclusion'
  BY <1>1 DEF Call
<1>2. ASSUME NEW c \in Callers, Enter(c) PROVE Exclusion'
  BY <1>2 DEF Enter
<1>3. ASSUME NEW c \in Callers, Write(c) PROVE Exclusion'
  BY <1>3 DEF Write, Finish, IOError
<1>4. ASSUME NEW c \in Callers, ReadHeader(c) PROVE Exclusion'
  BY <1>4 DEF ReadHeader, Finish, IOError
<1>5. ASSUME NEW c \in Callers, ReadBody(c) PROVE Exclusion'
  BY <1>5 DEF ReadBody, Finish, IOError
<1>6. ASSUME NEW c \in Callers, Leave(c) PROVE Exclusion'
  BY <1>6 DEF Leave, Joined
<1>7. ASSUME NEW c \in Callers, Return(c) PROVE Exclusion'
  BY <1>7 DEF Return
<1>8. ASSUME NEW c \in Callers, WatcherSeesDone(c) \/ WatcherFires(c) \/ WatcherSeesStop(c)
      PROVE Exclusion'
  BY <1>8 DEF WatcherSeesDone, WatcherFires, WatcherSeesStop
<1>9. ASSUME NEW c \in Callers, Cancel(c) \/ ContextDue(c) \/ ContextTimer(c)
      PROVE Exclusion'
  BY <1>9 DEF Cancel, ContextDue, ContextTimer
<1>10. CASE Expire \/ Serve \/ PeerFails \/ UNCHANGED vars
  BY <1>10 DEF Expire, Serve, PeerFails, callerVars, vars
<1> QED
  BY <1>1, <1>2, <1>3, <1>4, <1>5, <1>6, <1>7, <1>8, <1>9, <1>10 DEF Next

\* A watcher goroutine never outlives the exchange() that started it.
THEOREM WatcherContained == Spec => []WatcherWithinCall
<1>1. Init => Exclusion
  BY ConnectionAssumption DEF Init, Exclusion, Exchanging
<1>2. TypeOK /\ Exclusion /\ [Next]_vars => Exclusion'
  BY ExclusionInductive
<1>3. Exclusion => WatcherWithinCall
  BY DEF Exclusion, WatcherWithinCall
<1> QED
  BY <1>1, <1>2, <1>3, TypeCorrect, PTL DEF Spec

-----------------------------------------------------------------------------
(***************************************************************************)
(* The handover of the socket's deadline.  A call that is watched must be  *)
(* one that resets the deadline: with an IOTimeout all calls are, without  *)
(* one those that are given a cancellable context without deadline are not.*)
(***************************************************************************)
ArmedIfWatched == IOTimeout \/ "cancel" \notin ContextKinds

\* The contexts of the callers are of the kinds they pass.
KindsPassed == \A c \in Callers : kind[c] \in ContextKinds \union {"background"}

DeadlineOwned ==
    /\ KindsPassed
    /\ CleanHandover
    /\ \A c \in Callers : mu = c /\ ~armed[c] => watcher[c] = "none" /\ deadline = "none"

LEMMA DeadlineOwnedInductive ==
    ASSUME ArmedIfWatched, TypeOK, Exclusion, DeadlineOwned, [Next]_vars
    PROVE  DeadlineOwned'
<1> USE ConnectionAssumption DEF TypeOK, Exclusion, Exchanging, DeadlineOwned, CleanHandover,
                                 KindsPassed
<1>1. ASSUME NEW c \in Callers, Call(c) PROVE DeadlineOwned'
  BY <1>1 DEF Call
<1>2. ASSUME NEW c \in Callers, Enter(c) PROVE DeadlineOwned'
  <2>1. CASE mu' = mu
    BY <1>2, <2>1 DEF Enter
  <2>2. CASE mu' = c /\ Deadlines(c) = {}
    <3>1. ~IOTimeout /\ kind[c] # "deadline"
      <4>1. IOTimeout /\ ~(kind[c] = "deadline" /\ ctx[c] = "due") => "io" \in Deadlines(c)
        BY DEF Deadlines
      <4>2. kind[c] = "deadline" => "ctx" \in Deadlines(c)
        BY DEF Deadlines
      <4> QED
        BY <2>2, <4>1, <4>2
    <3>2. kind[c] = "background"
      BY <3>1 DEF ArmedIfWatched, ContextKind
    <3> QED
      BY <1>2, <2>2, <3>2 DEF Enter, Watched
  <2>3. CASE mu' = c /\ Deadlines(c) # {}
    BY <1>2, <2>3 DEF Enter
  <2> QED
    BY <1>2, <2>1, <2>2, <2>3 DEF Enter
<1>3. ASSUME NEW c \in Callers, Write(c) PROVE DeadlineOwned'
  BY <1>3 DEF Write
<1>4. ASSUME NEW c \in Callers, ReadHeader(c) PROVE DeadlineOwned'
  BY <1>4 DEF ReadHeader
<1>5. ASSUME NEW c \in Callers, ReadBody(c) PROVE DeadlineOwned'
  BY <1>5 DEF ReadBody
<1>6. ASSUME NEW c \in Callers, Leave(c) PROVE DeadlineOwned'
  BY <1>6 DEF Leave, Joined
<1>7. ASSUME NEW c \in Callers, Return(c) PROVE DeadlineOwned'
  BY <1>7 DEF Return
<1>8. ASSUME NEW c \in Callers, WatcherSeesDone(c) \/ WatcherFires(c) \/ WatcherSeesStop(c)
      PROVE DeadlineOwned'
  BY <1>8 DEF WatcherSeesDone, WatcherFires, WatcherSeesStop
<1>9. ASSUME NEW c \in Callers, Cancel(c) \/ ContextDue(c) \/ ContextTimer(c)
      PROVE DeadlineOwned'
  BY <1>9 DEF Cancel, ContextDue, ContextTimer
<1>10. CASE Expire \/ Serve \/ PeerFails \/ UNCHANGED vars
  BY <1>10 DEF Expire, Serve, PeerFails, callerVars, vars
<1> QED
  BY <1>1, <1>2, <1>3, <1>4, <1>5, <1>6, <1>7, <1>8, <1>9, <1>10 DEF Next

\* The next call finds the socket without a deadline, whatever the previous
\* call's watcher and deadline did, unless a call can be watched and not armed.
THEOREM HandoverClean ==
    ASSUME ArmedIfWatched
    PROVE  Spec => []CleanHandover
<1>1. Init => Exclusion /\ DeadlineOwned
  BY ConnectionAssumption
  DEF Init, Exclusion, Exchanging, DeadlineOwned, KindsPassed, CleanHandover
<1>2. TypeOK /\ Exclusion /\ DeadlineOwned /\ [Next]_vars => Exclusion' /\ DeadlineOwned'
  BY ArmedIfWatched, ExclusionInductive, DeadlineOwnedInductive
<1>3. DeadlineOwned => CleanHandover
  BY DEF DeadlineOwned
<1> QED
  BY <1>1, <1>2, <1>3, TypeCorrect, PTL DEF Spec

-----------------------------------------------------------------------------
(***************************************************************************)
(* Timeouts.  Without an IOTimeout the socket's deadline is always that of *)
(* the mutex's holder, and it is past only when the holder's ctx is over.  *)
(***************************************************************************)
DeadlineIsContexts ==
    /\ deadline # "io"
    /\ \A c \in Callers :
          mu = c => /\ deadline # "none" => kind[c] = "deadline"
                    /\ deadline = "past" => ctx[c] # "live"
    /\ \A c \in Callers : watcher[c] # "none" => kind[c] = "deadline"
    /\ \A c \in Callers : watcher[c] = "firing" => ctx[c] = "done"
    /\ \A c \in Callers : outcome[c] # "timeout"

LEMMA CauseNotTimeout ==
    ASSUME TypeOK, Exclusion, DeadlineIsContexts, NEW c \in Callers, mu = c, IOError(c)
    PROVE  /\ outcome' = [outcome EXCEPT ![c] = outcome'[c]]
           /\ outcome'[c] # "timeout"
           /\ pc' = [pc EXCEPT ![c] = "join"]
BY DEF TypeOK, Exclusion, DeadlineIsContexts, IOError, Finish, Cause

LEMMA DeadlineIsContextsInductive ==
    ASSUME ~IOTimeout, "cancel" \notin ContextKinds,
           TypeOK, Exclusion, DeadlineOwned, DeadlineIsContexts, [Next]_vars
    PROVE  DeadlineIsContexts'
<1> USE ConnectionAssumption DEF TypeOK, Exclusion, Exchanging, DeadlineOwned, CleanHandover,
                                 KindsPassed, DeadlineIsContexts
<1>1. ASSUME NEW c \in Callers, Call(c) PROVE DeadlineIsContexts'
  <2>1. mu # c /\ watcher[c] = "none"
    BY <1>1 DEF Call
  <2>2. \A d \in Callers : d # c => kind'[d] = kind[d]
    BY <1>1 DEF Call
  <2> QED
    BY <1>1, <2>1, <2>2 DEF Call
<1>2. ASSUME NEW c \in Callers, Enter(c) PROVE DeadlineIsContexts'
  <2>1. Deadlines(c) \subseteq {"ctx"} /\ (Deadlines(c) # {} => kind[c] = "deadline")
    BY DEF Deadlines
  <2>2. Watched(c) => kind[c] = "deadline"
    BY DEF Watched, ContextKind
  <2> QED
    BY <1>2, <2>1, <2>2 DEF Enter
<1>3. ASSUME NEW c \in Callers, Write(c) PROVE DeadlineIsContexts'
  <2>1. mu = c
    BY <1>3 DEF Write
  <2>2. CASE IOError(c)
    BY <1>3, <2>1, <2>2, CauseNotTimeout DEF Write
  <2>3. CASE ~IOError(c)
    BY <1>3, <2>1, <2>3 DEF Write, Finish, Cause
  <2> QED
    BY <2>2, <2>3
<1>4. ASSUME NEW c \in Callers, ReadHeader(c) PROVE DeadlineIsContexts'
  <2>1. mu = c
    BY <1>4 DEF ReadHeader
  <2>2. CASE IOError(c)
    BY <1>4, <2>1, <2>2, CauseNotTimeout DEF ReadHeader
  <2>3. CASE ~IOError(c)
    BY <1>4, <2>1, <2>3 DEF ReadHeader, Finish, Cause
  <2> QED
    BY <2>2, <2>3
<1>5. ASSUME NEW c \in Callers, ReadBody(c) PROVE DeadlineIsContexts'
  <2>1. mu = c
    BY <1>5 DEF ReadBody
  <2>2. /\ outcome' = [outcome EXCEPT ![c] = outcome'[c]]
        /\ outcome'[c] # "timeout"
    <3>1. CASE IOError(c)
      BY <2>1, <3>1, CauseNotTimeout
    <3>2. CASE Finish(c, "reply", reading[c]) \/ Finish(c, Cause(c, "io"), 0)
      BY <3>2 DEF Finish, Cause
    <3> QED
      BY <1>5, <3>1, <3>2 DEF ReadBody
  <2>3. UNCHANGED <<mu, deadline, kind, ctx, watcher>>
    BY <1>5 DEF ReadBody
  <2> QED
    BY <2>2, <2>3 DEF DeadlineIsContexts
<1>6. ASSUME NEW c \in Callers, Leave(c) PROVE DeadlineIsContexts'
  BY <1>6 DEF Leave, Joined
<1>7. ASSUME NEW c \in Callers, Return(c) PROVE DeadlineIsContexts'
  BY <1>7 DEF Return
<1>8. ASSUME NEW c \in Callers, WatcherSeesDone(c) \/ WatcherFires(c) \/ WatcherSeesStop(c)
      PROVE DeadlineIsContexts'
  BY <1>8 DEF WatcherSeesDone, WatcherFires, WatcherSeesStop
<1>9. ASSUME NEW c \in Callers, Cancel(c) \/ ContextDue(c) \/ ContextTimer(c)
      PROVE DeadlineIsContexts'
  BY <1>9 DEF Cancel, ContextDue, ContextTimer
<1>10. CASE Expire
  BY <1>10 DEF Expire, callerVars
<1>11. CASE Serve \/ PeerFails \/ UNCHANGED vars
  BY <1>11 DEF Serve, PeerFails, callerVars, vars
<1> QED
  BY <1>1, <1>2, <1>3, <1>4, <1>5, <1>6, <1>7, <1>8, <1>9, <1>10, <1>11 DEF Next

\* On a Connection without IOTimeout no call times out for a reason of another
\* call's, when every cancellable context it is given has a deadline.
THEOREM TimeoutsAreOwn ==
    ASSUME "cancel" \notin ContextKinds
    PROVE  Spec => []NoSpuriousTimeout
<1>1. CASE IOTimeout
  <2>1. NoSpuriousTimeout
    BY <1>1 DEF NoSpuriousTimeout
  <2> QED
    BY <2>1, PTL
<1>2. CASE ~IOTimeout
  <2>1. Init => Exclusion /\ DeadlineOwned /\ DeadlineIsContexts
    BY ConnectionAssumption
    DEF Init, Exclusion, Exchanging, DeadlineOwned, KindsPassed, CleanHandover,
        DeadlineIsContexts
  <2>2. TypeOK /\ Exclusion /\ DeadlineOwned /\ DeadlineIsContexts /\ [Next]_vars
        => Exclusion' /\ DeadlineOwned' /\ DeadlineIsContexts'
    BY <1>2, "cancel" \notin ContextKinds, ExclusionInductive, DeadlineOwnedInductive,
       DeadlineIsContextsInductive
    DEF ArmedIfWatched
  <2>3. DeadlineIsContexts => NoSpuriousTimeout
    BY DEF DeadlineIsContexts, NoSpuriousTimeout
  <2> QED
    BY <2>1, <2>2, <2>3, TypeCorrect, PTL DEF Spec
<1> QED
  BY <1>1, <1>2

-----------------------------------------------------------------------------
\* A request never carries the reserved correlation 0: NextCorrelation skips it
\* when the counter wraps.
THEOREM CorrelationNeverReserved == Spec => []ReservedCorrelation
<1> USE ConnectionAssumption DEF TypeOK, ReservedCorrelation
<1>1. Init => ReservedCorrelation
  BY DEF Init
<1>2. TypeOK /\ ReservedCorrelation /\ [Next]_vars => ReservedCorrelation'
  <2> SUFFICES ASSUME TypeOK, ReservedCorrelation, [Next]_vars PROVE ReservedCorrelation'
    OBVIOUS
  <2>1. ASSUME NEW c \in Callers, Write(c) PROVE ReservedCorrelation'
    <3> DEFINE r == [call |-> own[c], corr |-> NextCorrelation, wantReply |-> wantReply[c]]
    <3>1. NextCorrelation \in Nat \ {0}
      BY DEF NextCorrelation
    <3>2. r \in Request /\ r.corr # 0
      BY <3>1 DEF Request
    <3>3. CASE outbound' = Append(outbound, r)
      <4>1. \A i \in DOMAIN Append(outbound, r) : Append(outbound, r)[i].corr # 0
        BY <3>2, AppendProperties, LenProperties
      <4> QED
        BY <3>3, <4>1
    <3>4. CASE outbound' = outbound
      BY <3>4
    <3> QED
      BY <2>1, <3>3, <3>4 DEF Write
  <2>2. CASE Serve
    <3>1. outbound # <<>> /\ outbound' = Tail(outbound)
      BY <2>2 DEF Serve
    <3>2. \A i \in DOMAIN Tail(outbound) : i + 1 \in DOMAIN outbound
                                          /\ Tail(outbound)[i] = outbound[i + 1]
      BY <3>1, HeadTailProperties, LenProperties
    <3> QED
      BY <3>1, <3>2
  <2>3. CASE UNCHANGED outbound
    BY <2>3
  <2> QED
    BY <2>1, <2>2, <2>3
    DEF Next, Call, Enter, ReadHeader, ReadBody, Leave, Return, WatcherSeesDone, WatcherFires,
        WatcherSeesStop, Cancel, ContextDue, ContextTimer, Expire, PeerFails, vars, wireVars
<1> QED
  BY <1>1, <1>2, TypeCorrect, PTL DEF Spec

-----------------------------------------------------------------------------
(***************************************************************************)
(* Replies in step.  A single caller that closes the Connection after any  *)
(* error finds nothing on the wire, whenever it writes, that could be      *)
(* taken for its reply.                                                    *)
(***************************************************************************)
NoneWanted == \A i \in DOMAIN outbound : ~outbound[i].wantReply
Quiet == inbound = <<>> /\ NoneWanted

\* Exactly c's request is still to be answered.
Asked(c) ==
    /\ inbound = <<>>
    /\ \A i \in DOMAIN outbound : outbound[i].wantReply => outbound[i].call = own[c] /\ i = Len(outbound)

\* Exactly the reply to c's request is still to be read.
Answered(c) == NoneWanted /\ \E more \in BOOLEAN : inbound = Reply(own[c], more)

\* The reply's body is.
BodyLeft(c) == NoneWanted /\ Len(inbound) = 1 /\ reading[c] = own[c]

InStep ==
    \A c \in Callers :
       /\ sock = "closed" => pc[c] = "idle"
       /\ pc[c] \in {"idle", "lock", "write"} => outcome[c] # "reply"
       /\ sock = "open" /\ pc[c] \in {"idle", "lock", "write"} => Quiet
       /\ pc[c] = "header" => Asked(c) \/ Answered(c)
       /\ pc[c] = "body" => BodyLeft(c)
       /\ pc[c] \in {"header", "body"} => outcome[c] # "reply"
       /\ pc[c] \in {"join", "returned"} => Quiet \/ outcome[c] \in Failure
       /\ outcome[c] = "reply" => got[c] = own[c]

SingleCaller == \A c, d \in Callers : c = d

\* The two parts of a reply.
LEMMA ReplyParts ==
    ASSUME NEW n \in Nat, NEW more \in BOOLEAN
    PROVE  /\ Reply(n, more) \in Seq(Part)
           /\ Reply(n, more) # <<>>
           /\ Head(Reply(n, more)).call = n
           /\ Head(Reply(n, more)).part = "head"
           /\ Head(Reply(n, more)).more = more
           /\ more => Len(Tail(Reply(n, more))) = 1
           /\ ~more => Tail(Reply(n, more)) = <<>>
<1> DEFINE h == [call |-> n, part |-> "head", more |-> more]
           b == [call |-> n, part |-> "body", more |-> FALSE]
<1>1. h \in Part /\ b \in Part /\ h.call = n /\ h.part = "head" /\ h.more = more
  BY DEF Part
<1>2. CASE more
  <2>1. Reply(n, more) = <<h, b>>
    BY <1>2 DEF Reply
  <2>2. /\ <<h, b>> \in Seq(Part) /\ <<h, b>> # <<>>
        /\ Len(<<h, b>>) = 2 /\ Head(<<h, b>>) = h
    BY <1>1
  <2>3. Len(Tail(<<h, b>>)) = 1
    BY <2>2, HeadTailProperties
  <2> HIDE DEF h, b
  <2> QED
    BY <1>1, <1>2, <2>1, <2>2, <2>3
<1>3. CASE ~more
  <2>1. Reply(n, more) = <<h>>
    BY <1>3 DEF Reply
  <2> QED
    BY <1>1, <1>3, <2>1
<1> QED
  BY <1>2, <1>3

\* What the server does to a wire that holds no more than the caller's exchange.
LEMMA ServeInStep ==
    ASSUME TypeOK, NEW c \in Callers, Serve
    PROVE  /\ Quiet => Quiet'
           /\ Asked(c) => Asked(c)' \/ Answered(c)'
           /\ Answered(c) => Answered(c)'
           /\ BodyLeft(c) => BodyLeft(c)'
<1> USE DEF TypeOK
<1>1. /\ outbound # <<>> /\ outbound \in Seq(Request)
      /\ outbound' = Tail(outbound) /\ outbound' \in Seq(Request)
      /\ Len(outbound) \in Nat \ {0} /\ Len(outbound') = Len(outbound) - 1
      /\ DOMAIN outbound = 1 .. Len(outbound)
      /\ DOMAIN outbound' = 1 .. Len(outbound')
      /\ \A i \in DOMAIN outbound' : i + 1 \in DOMAIN outbound /\ outbound'[i] = outbound[i + 1]
      /\ Head(outbound) = outbound[1] /\ 1 \in DOMAIN outbound
      /\ Head(outbound).wantReply \in BOOLEAN
  <2>1. outbound # <<>> /\ outbound' = Tail(outbound)
    BY DEF Serve
  <2>2. Head(outbound) = outbound[1]
    BY <2>1
  <2>3. Head(outbound) \in Request
    BY <2>1, HeadTailProperties
  <2>4. Head(outbound).wantReply \in BOOLEAN
    BY <2>3 DEF Request
  <2> QED
    BY <2>1, <2>2, <2>4, HeadTailProperties, LenProperties, EmptySeq
<1>2. reading' = reading /\ own' = own
  BY DEF Serve, callerVars
<1>3. CASE Head(outbound).wantReply
  <2>1. ~NoneWanted
    BY <1>1, <1>3 DEF NoneWanted
  <2>2. ASSUME Asked(c) PROVE Answered(c)'
    <3>1. Len(outbound) = 1 /\ outbound[1].call = own[c] /\ inbound = <<>>
      BY <1>1, <1>3, <2>2 DEF Asked
    <3>2. NoneWanted'
      BY <1>1, <3>1 DEF NoneWanted
    <3>3. PICK more \in BOOLEAN : inbound' = inbound \o Reply(own[c], more)
      BY <1>1, <1>3, <3>1 DEF Serve
    <3>4. inbound' = Reply(own[c], more)
      BY <3>1, <3>3, ReplyParts, ConcatEmptySeq
    <3> QED
      BY <1>2, <3>2, <3>4 DEF Answered, Reply
  <2> QED
    BY <2>1, <2>2 DEF Quiet, Answered, BodyLeft
<1>4. CASE ~Head(outbound).wantReply
  <2>1. inbound' = inbound
    BY <1>1, <1>4 DEF Serve
  <2>2. NoneWanted => NoneWanted'
    BY <1>1 DEF NoneWanted
  <2>3. Asked(c) => Asked(c)'
    BY <1>1, <1>2, <2>1 DEF Asked
  <2> QED
    BY <1>2, <2>1, <2>2, <2>3 DEF Quiet, Answered, BodyLeft, Reply
<1> QED
  BY <1>1, <1>3, <1>4

LEMMA InStepInductive ==
    ASSUME SingleCaller, ClosesOnError, TypeOK, Exclusion, InStep, [Next]_vars
    PROVE  InStep'
<1> USE DEF TypeOK, Failure, Exchanging
<1>1. ASSUME NEW c \in Callers, Call(c) PROVE InStep'
  <2>1. outcome' = outcome /\ got' = got /\ inbound' = inbound /\ outbound' = outbound
        /\ sock' = sock /\ sock = "open" /\ pc[c] = "idle" /\ pc' = [pc EXCEPT ![c] = "lock"]
    BY <1>1 DEF Call, wireVars
  <2>2. Quiet' <=> Quiet
    BY <2>1 DEF Quiet, NoneWanted
  <2> QED
    BY <2>1, <2>2, SingleCaller DEF InStep, SingleCaller
<1>2. ASSUME NEW c \in Callers, Enter(c) PROVE InStep'
  <2>1. /\ UNCHANGED <<got, own, reading, sock, inbound, outbound>>
        /\ \/ pc' = [pc EXCEPT ![c] = "write"] /\ outcome' = outcome
           \/ /\ pc' = [pc EXCEPT ![c] = "returned"]
              /\ \/ outcome' = [outcome EXCEPT ![c] = "ctx"]
                 \/ outcome' = [outcome EXCEPT ![c] = "closed"]
        /\ pc[c] = "lock"
    BY <1>2 DEF Enter, wireVars
  <2>2. Quiet' <=> Quiet
    BY <2>1 DEF Quiet, NoneWanted
  <2> QED
    BY <2>1, <2>2, SingleCaller DEF InStep, SingleCaller
<1>3. ASSUME NEW c \in Callers, Write(c) PROVE InStep'
  <2>1. /\ UNCHANGED <<own, reading, sock, inbound>>
        /\ pc[c] = "write" /\ sock = "open" /\ Quiet
    BY <1>3 DEF Write, InStep
  <2>2. CASE pc' = [pc EXCEPT ![c] = "join"] /\ outcome'[c] \in Failure
    BY <2>1, <2>2, SingleCaller DEF InStep, SingleCaller
  <2>3. CASE /\ outbound' = Append(outbound, [call |-> own[c], corr |-> NextCorrelation,
                                              wantReply |-> wantReply[c]])
             /\ \/ /\ wantReply[c] /\ pc' = [pc EXCEPT ![c] = "header"]
                   /\ UNCHANGED <<outcome, got>>
                \/ /\ ~wantReply[c] /\ Finish(c, "sent", 0)
    <3> DEFINE r == [call |-> own[c], corr |-> NextCorrelation, wantReply |-> wantReply[c]]
    <3>1. r \in Request
      BY ConnectionAssumption DEF Request, NextCorrelation
    <3>2. /\ Len(outbound) \in Nat /\ Len(outbound') = Len(outbound) + 1
          /\ DOMAIN outbound = 1 .. Len(outbound)
          /\ DOMAIN outbound' = 1 .. Len(outbound')
          /\ \A i \in 1 .. Len(outbound) : outbound'[i] = outbound[i]
          /\ outbound'[Len(outbound')] = r
      BY <2>3, <3>1, AppendProperties, LenProperties
    <3>3. CASE wantReply[c] /\ pc' = [pc EXCEPT ![c] = "header"] /\ UNCHANGED <<outcome, got>>
      <4>1. ASSUME NEW i \in DOMAIN outbound', outbound'[i].wantReply
            PROVE  outbound'[i].call = own[c] /\ i = Len(outbound')
        <5>1. i \notin 1 .. Len(outbound)
          BY <2>1, <3>2, <4>1 DEF Quiet, NoneWanted
        <5>2. i = Len(outbound')
          BY <3>2, <4>1, <5>1
        <5> QED
          BY <3>2, <5>2
      <4>2. Asked(c)'
        BY <2>1, <4>1 DEF Asked, Quiet
      <4>3. outcome'[c] # "reply"
        BY <2>1, <3>3 DEF InStep
      <4> QED
        BY <2>1, <3>3, <4>2, <4>3, SingleCaller DEF InStep, SingleCaller
    <3>4. CASE ~wantReply[c] /\ Finish(c, "sent", 0)
      <4>1. ASSUME NEW i \in DOMAIN outbound' PROVE ~outbound'[i].wantReply
        <5>1. CASE i \in 1 .. Len(outbound)
          BY <2>1, <3>2, <5>1 DEF Quiet, NoneWanted
        <5>2. CASE i = Len(outbound')
          BY <3>2, <3>4, <5>2
        <5> QED
          BY <3>2, <4>1, <5>1, <5>2
      <4>2. Quiet'
        BY <2>1, <4>1 DEF Quiet, NoneWanted
      <4> QED
        BY <2>1, <3>4, <4>2, SingleCaller DEF InStep, SingleCaller, Finish
    <3> QED
      BY <2>3, <3>3, <3>4
  <2> QED
    BY <1>3, <2>2, <2>3 DEF Write, IOError, Finish, Cause
<1>4. ASSUME NEW c \in Callers, ReadHeader(c) PROVE InStep'
  <2>1. /\ UNCHANGED <<own, sock, outbound>>
        /\ pc[c] = "header" /\ sock = "open" /\ (Asked(c) \/ Answered(c))
        /\ outcome[c] # "reply"
    BY <1>4 DEF ReadHeader, InStep
  <2>2. CASE pc' = [pc EXCEPT ![c] = "join"] /\ outcome'[c] \in Failure
    BY <2>1, <2>2, SingleCaller DEF InStep, SingleCaller
  <2>3. CASE inbound # <<>> /\ inbound' = Tail(inbound)
    <3>1. NoneWanted'
      BY <2>1, <2>3 DEF Asked, Answered, NoneWanted
    <3>2. PICK more \in BOOLEAN : inbound = Reply(own[c], more)
      BY <2>1, <2>3 DEF Asked, Answered
    <3>3. /\ Head(inbound).call = own[c] /\ Head(inbound).part = "head"
          /\ Head(inbound).more = more
          /\ more => Len(inbound') = 1
          /\ ~more => inbound' = <<>>
      <4>1. own[c] \in Nat
        BY ONLY TypeOK, c \in Callers DEF TypeOK
      <4>2. /\ Head(Reply(own[c], more)).call = own[c]
            /\ Head(Reply(own[c], more)).part = "head"
            /\ Head(Reply(own[c], more)).more = more
            /\ more => Len(Tail(Reply(own[c], more))) = 1
            /\ ~more => Tail(Reply(own[c], more)) = <<>>
        BY ONLY <4>1, more \in BOOLEAN, ReplyParts
      <4> QED
        BY ONLY <2>3, <3>2, <4>2
    <3>4. CASE /\ more /\ reading' = [reading EXCEPT ![c] = own[c]]
               /\ pc' = [pc EXCEPT ![c] = "body"] /\ UNCHANGED <<outcome, got>>
      <4>1. BodyLeft(c)'
        BY <2>1, <3>1, <3>3, <3>4 DEF BodyLeft
      <4> QED
        BY <2>1, <3>4, <4>1, SingleCaller DEF InStep, SingleCaller
    <3>5. CASE ~more /\ Finish(c, "reply", own[c])
      <4>1. Quiet'
        BY <3>1, <3>3, <3>5 DEF Quiet
      <4> QED
        BY <2>1, <3>5, <4>1, SingleCaller DEF InStep, SingleCaller, Finish
    <3> QED
      BY <1>4, <2>2, <2>3, <3>3, <3>4, <3>5 DEF ReadHeader, IOError, Finish, Cause, CanIO
  <2> QED
    BY <1>4, <2>2, <2>3 DEF ReadHeader, IOError, Finish, Cause
<1>5. ASSUME NEW c \in Callers, ReadBody(c) PROVE InStep'
  <2>1. /\ UNCHANGED <<own, sock, outbound>>
        /\ pc[c] = "body" /\ sock = "open" /\ BodyLeft(c)
        /\ outcome[c] # "reply"
    BY <1>5 DEF ReadBody, InStep
  <2>2. CASE pc' = [pc EXCEPT ![c] = "join"] /\ outcome'[c] \in Failure
    BY <2>1, <2>2, SingleCaller DEF InStep, SingleCaller
  <2>3. CASE inbound # <<>> /\ inbound' = Tail(inbound) /\ Finish(c, "reply", reading[c])
    <3>1. Len(inbound') = 0 /\ inbound' \in Seq(Part)
      BY <2>1, <2>3, HeadTailProperties DEF BodyLeft
    <3>2. Quiet'
      BY <2>1, <3>1, EmptySeq DEF BodyLeft, Quiet, NoneWanted
    <3> QED
      BY <2>1, <2>3, <3>2, SingleCaller DEF InStep, SingleCaller, Finish, BodyLeft
  <2> QED
    BY <1>5, <2>2, <2>3 DEF ReadBody, IOError, Finish, Cause
<1>6. ASSUME NEW c \in Callers, Leave(c) PROVE InStep'
  BY <1>6, SingleCaller DEF Leave, InStep, SingleCaller, Quiet, NoneWanted, wireVars
<1>7. ASSUME NEW c \in Callers, Return(c) PROVE InStep'
  BY <1>7, SingleCaller, ClosesOnError
  DEF Return, InStep, SingleCaller, Quiet, NoneWanted, Abandoned, wireVars
<1>8. CASE Serve
  <2>1. UNCHANGED <<sock, callerVars>>
    BY <1>8 DEF Serve
  <2> QED
    BY <1>8, <2>1, ServeInStep DEF InStep, callerVars
<1>9. CASE UNCHANGED <<sock, pc, own, reading, outcome, got, inbound, outbound>>
  <2>1. /\ Quiet' <=> Quiet
        /\ \A c \in Callers : /\ Asked(c)' <=> Asked(c)
                              /\ Answered(c)' <=> Answered(c)
                              /\ BodyLeft(c)' <=> BodyLeft(c)
    BY <1>9 DEF Quiet, NoneWanted, Asked, Answered, BodyLeft, Reply
  <2> QED
    BY <1>9, <2>1 DEF InStep
<1>10. (\E c \in Callers : \/ WatcherSeesDone(c) \/ WatcherFires(c) \/ WatcherSeesStop(c)
                           \/ Cancel(c) \/ ContextDue(c) \/ ContextTimer(c))
       \/ Expire \/ PeerFails \/ UNCHANGED vars
       => UNCHANGED <<sock, pc, own, reading, outcome, got, inbound, outbound>>
  BY DEF WatcherSeesDone, WatcherFires, WatcherSeesStop, Cancel, ContextDue, ContextTimer,
         Expire, PeerFails, vars, callerVars, wireVars
<1> QED
  BY <1>1, <1>2, <1>3, <1>4, <1>5, <1>6, <1>7, <1>8, <1>9, <1>10 DEF Next

\* The replies a single caller gets are those to its own requests, although
\* correlation IDs are never compared, if it closes the Connection after an
\* error: what CallContext's comment asks of it is enough.
THEOREM RepliesMatch ==
    ASSUME SingleCaller, ClosesOnError
    PROVE  Spec => []RepliesInStep
<1>1. Init => Exclusion /\ InStep
  BY ConnectionAssumption
  DEF Init, Exclusion, Exchanging, InStep, Quiet, NoneWanted
<1>2. TypeOK /\ Exclusion /\ InStep /\ [Next]_vars => Exclusion' /\ InStep'
  BY SingleCaller, ClosesOnError, ExclusionInductive, InStepInductive
<1>3. InStep => RepliesInStep
  BY DEF InStep, RepliesInStep
<1> QED
  BY <1>1, <1>2, <1>3, TypeCorrect, PTL DEF Spec

=============================================================================
