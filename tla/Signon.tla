------------------------------- MODULE Signon -------------------------------
(***************************************************************************)
(* signon.Client: an exchange of attributes, then Authenticate, which may  *)
(* be tried again on the same connection and with the same seeds.  Bodies  *)
(* are sequences of cells (see Params).                                    *)
(***************************************************************************)
EXTENDS Params

CONSTANTS
    PasswordLevels, \* of servers
    ServerLevels,
    MaxTries

ASSUME SignonAssumption == PasswordLevels \subseteq Nat /\ ServerLevels \subseteq Nat /\ MaxTries \in Nat

VARIABLES
    stage,   \* of the Client
    server,  \* the server's levels, the client seed it was sent, whether it told its own
    attrs,   \* the Client's seeds, passwordLvl, serverLevel and jobName
    given,   \* the password of the latest Authenticate
    sent,    \* the body of a request on its way, if any
    back,    \* that of a reply
    verdict, \* what the server answered, and whether all of it arrived
    result,  \* what the latest Authenticate returned
    tries

signonVars == <<stage, server, attrs, given, sent, back, verdict, result, tries>>

\* Code points.
ServerSeed == 4355      \* 16r1103, also the client's
PasswordLevel == 4377   \* 16r1119
JobName == 4383         \* 16r111F
UserID == 4356          \* 16r1104
AuthData == 4357        \* 16r1105
ClientCCSID == 4371     \* 16r1113
ReturnMessages == 4392  \* 16r1128
CurrentDate == 4358     \* 16r1106
Unread == 4369          \* one the code does not look at

\* Seeds, names, a date and CCSIDs are cells that differ from one another.
TheClientSeed == 71
TheServerSeed == 72
TheJob == 73
TheUser == 74
TheDate == 75
EBCDIC == 37
Unicode == 1200
\* Return codes.
PasswordIncorrect == 196619  \* 16r0003000B
OtherRefusal == 131074       \* 16r00020002

Unset == [seeds |-> <<0, 0>>, level |-> 0, serverLevel |-> 0, job |-> 0]
Undecided == [did |-> "nothing", rc |-> 0, said |-> << >>, whole |-> FALSE]
Nothing == [got |-> "nothing"]

SignonInit ==
    /\ stage = "new"
    /\ server \in [level : PasswordLevels, serverLevel : ServerLevels, clientSeed : {0}, told : {FALSE}]
    /\ attrs = Unset
    /\ given = "none"
    /\ sent = << >> /\ back = << >>
    /\ verdict = Undecided /\ result = Nothing
    /\ tries = 0

-----------------------------------------------------------------------------
(***************************************************************************)
(* The Client.                                                             *)
(***************************************************************************)
\* Mutant: level 4 is taken for SHA-1.
SchemeUpTo4(level) == IF level < 2 THEN "DES" ELSE IF level <= 4 THEN "SHA1" ELSE "SHA512"

\* EncryptPassword: the scheme of a password level.
Scheme(level) == IF level < 2 THEN "DES" ELSE IF level < 4 THEN "SHA1" ELSE "SHA512"

\* A substitute stands for its scheme, the password and both seeds.
Substitute(scheme, password, seeds) ==
    [scheme |-> scheme, password |-> password, seeds |-> seeds]

AuthType(scheme) == CASE scheme = "DES" -> 1 [] scheme = "SHA1" -> 3 [] scheme = "SHA512" -> 7

\* Connect up to its request; a failed dial ends it.
SignonConnect ==
    /\ stage = "new"
    /\ \/ /\ stage' = "exchanging"
          /\ sent' = <<EncodeParams(<<Param(ServerSeed, <<TheClientSeed>>)>>)>>
       \/ stage' = "closed" /\ UNCHANGED sent
    /\ UNCHANGED <<server, attrs, given, back, verdict, result, tries>>

\* The rest of Connect: return code, version, level, then parameters.
ReadAttributes ==
    /\ stage = "exchanging" /\ back # << >>
    /\ back' = << >>
    /\ LET body == Head(back)
           ps == DecodeParams(SubSeq(body, 4, Len(body)))
       IN  IF Len(body) < 3 \/ body[1] # 0 \/ ~ps.ok
           THEN stage' = "closed" /\ UNCHANGED attrs
           ELSE /\ stage' = "ready"
                /\ attrs' = [seeds |-> <<TheClientSeed, Field(ps.params, ServerSeed, 0)>>,
                             level |-> Field(ps.params, PasswordLevel, 0),
                             serverLevel |-> body[3],
                             job |-> Field(ps.params, JobName, 1)]
    /\ UNCHANGED <<server, given, sent, verdict, result, tries>>

\* buildSignonInfoRequest
SignonRequest(password) ==
    LET scheme == Scheme(attrs.level) IN
    <<AuthType(scheme)>>
    \o EncodeParams(<<Param(ClientCCSID, <<Unicode>>),
                      Param(AuthData, <<Substitute(scheme, password, attrs.seeds)>>),
                      Param(UserID, <<TheUser>>)>>
                    \o IF attrs.serverLevel >= 5 THEN <<Param(ReturnMessages, <<1>>)>> ELSE << >>)

\* Authenticate up to its request; a name or a password that is not EBCDIC ends it.
Authenticate ==
    /\ stage = "ready"
    /\ tries < MaxTries
    /\ tries' = tries + 1
    /\ verdict' = Undecided
    /\ \E password \in {"right", "wrong"} :
          /\ given' = password
          /\ \/ /\ stage' = "calling"
                /\ sent' = <<SignonRequest(password)>>
                /\ result' = Nothing
             \/ /\ result' = [got |-> "error"]
                /\ UNCHANGED <<stage, sent>>
    /\ UNCHANGED <<server, attrs, back>>

\* What parseSignonInfoReply takes from the parameters: the user ID comes
\* behind a CCSID, the other fields are read as the date is.
InfoFields(params) ==
    [user |-> Field(params, UserID, 1), date |-> Field(params, CurrentDate, 0)]

\* parseSignonInfoReply
InfoFrom(body) ==
    LET ps == DecodeParams(Tail(body)) IN
    IF body = << >> THEN [got |-> "error"]
    ELSE IF body[1] # 0 THEN [got |-> "refused", rc |-> body[1]]
    ELSE IF ~ps.ok THEN [got |-> "error"]
    ELSE [got |-> "info", info |-> InfoFields(ps.params)]

ReadInfo ==
    /\ stage = "calling" /\ back # << >>
    /\ stage' = "ready"
    /\ back' = << >>
    /\ result' = InfoFrom(Head(back))
    /\ UNCHANGED <<server, attrs, given, sent, verdict, tries>>

\* An exchange fails, before or after the server's part in it.
SignonFails ==
    /\ stage \in {"exchanging", "calling"}
    /\ stage' = IF stage = "exchanging" THEN "closed" ELSE "lost"
    /\ result' = IF stage = "calling" THEN [got |-> "error"] ELSE result
    /\ UNCHANGED <<server, attrs, given, sent, back, verdict, tries>>

SignonClose ==
    /\ stage \in {"ready", "lost"}
    /\ stage' = "closed"
    /\ UNCHANGED <<server, attrs, given, sent, back, verdict, result, tries>>

-----------------------------------------------------------------------------
(***************************************************************************)
(* The sign-on server (not part of the repository).                        *)
(***************************************************************************)
\* Parameters in any order, all of the first set and some of the second.
InAnyOrder(always, perhaps) ==
    UNION {SetToSeqs(always \union some) : some \in SUBSET perhaps}

\* A reply may be cut short.
Replies(did, rc, body, params) ==
    \E n \in 0 .. Len(body) :
        /\ back' = <<SubSeq(body, 1, n)>>
        /\ verdict' = [did |-> did, rc |-> rc, said |-> params, whole |-> n = Len(body)]

GiveAttributes ==
    /\ stage = "exchanging" /\ sent # << >>
    /\ sent' = << >>
    /\ \E params \in InAnyOrder({Param(ServerSeed, <<TheServerSeed>>),
                                 Param(PasswordLevel, <<server.level>>)},
                                {Param(JobName, <<EBCDIC, TheJob>>), Param(Unread, <<EBCDIC>>)}) :
          \/ Replies("attributes", 0, <<0, 1, server.serverLevel>> \o EncodeParams(params), params)
          \/ Replies("refused", OtherRefusal, <<OtherRefusal>>, << >>)
    /\ server' = [server EXCEPT
                     !.clientSeed = Field(DecodeParams(Head(sent)).params, ServerSeed, 0),
                     !.told = verdict'.whole /\ verdict'.did = "attributes"]
    /\ UNCHANGED <<stage, attrs, given, result, tries>>

\* An old server does not know of ReturnMessages.
Known(params) ==
    {params[i].cp : i \in DOMAIN params} \subseteq
        {ClientCCSID, AuthData, UserID}
        \union IF server.serverLevel >= 5 THEN {ReturnMessages} ELSE {}

\* The scheme of a password level.
SchemeOf(level) ==
    CASE level \in {0, 1} -> "DES" [] level \in {2, 3} -> "SHA1" [] OTHER -> "SHA512"

\* The password is right if its substitute is the one the server works out.
Decide ==
    /\ stage = "calling" /\ sent # << >>
    /\ sent' = << >>
    /\ LET body == Head(sent)
           ps == DecodeParams(Tail(body))
           scheme == SchemeOf(server.level)
           right == /\ body[1] = AuthType(scheme)
                    /\ Find(ps.params, AuthData)
                         = <<Substitute(scheme, "right", <<server.clientSeed, TheServerSeed>>)>>
       IN  IF ~ps.ok \/ ~Known(ps.params)
           THEN Replies("protocolError", OtherRefusal, <<OtherRefusal>>, << >>)
           ELSE \/ /\ right
                   /\ \E params \in InAnyOrder({}, {Param(UserID, <<EBCDIC, TheUser>>),
                                                    Param(CurrentDate, <<TheDate>>),
                                                    Param(Unread, <<EBCDIC>>)}) :
                         Replies("accepted", 0, <<0>> \o EncodeParams(params), params)
                \/ /\ ~right
                   /\ Replies("refused", PasswordIncorrect, <<PasswordIncorrect>>, << >>)
                \/ Replies("refused", OtherRefusal, <<OtherRefusal>>, << >>)
    /\ UNCHANGED <<stage, server, attrs, given, result, tries>>

-----------------------------------------------------------------------------
SignonNext ==
    \/ SignonConnect \/ ReadAttributes
    \/ Authenticate \/ ReadInfo \/ SignonFails \/ SignonClose
    \/ GiveAttributes \/ Decide

-----------------------------------------------------------------------------
\* A sign-on succeeds only if the server accepted the password of this
\* attempt, and its SignonInfo holds what the server sent, wherever in the
\* reply, and zero for what it did not send.  A server never gets a request
\* beyond its level, and once it has told its level and seed the right password
\* is never called incorrect: both sides agree on scheme and seeds, in a second
\* attempt too.
SignonTrue ==
    LET sentField(cp) ==
            LET at == {i \in DOMAIN verdict.said : verdict.said[i].cp = cp} IN
            IF at = {} THEN 0 ELSE Last(verdict.said[CHOOSE i \in at : TRUE].data)
        holds(v, cp) == v = sentField(cp) \/ (~verdict.whole /\ v = 0)
    IN  /\ result.got = "info" =>
              /\ verdict.did = "accepted" /\ given = "right"
              /\ holds(result.info.user, UserID)
              /\ holds(result.info.date, CurrentDate)
        /\ result.got = "refused" => verdict.did = "refused" /\ result.rc = verdict.rc
        /\ verdict.rc = PasswordIncorrect /\ server.told => given = "wrong"
        /\ verdict.did # "protocolError"
=============================================================================
