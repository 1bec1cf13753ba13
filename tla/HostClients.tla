----------------------------- MODULE HostClients -----------------------------
(***************************************************************************)
(* A program that uses one of the clients of as-signon, as-rmtcmd and      *)
(* as-database.  They share code (as400, as400/auth) and no state.         *)
(***************************************************************************)
EXTENDS RemoteCommand, Signon, RowWire

VARIABLE client

vars == <<client, remoteVars, signonVars, rowVars>>

\* The client that is used; the others stay in one initial state each.
Init ==
    /\ client \in {"rmtcmd", "signon", "database"}
    /\ RemoteInit /\ SignonInit /\ RowInit
    /\ client # "signon" =>
          server.level = Min(PasswordLevels) /\ server.serverLevel = Min(ServerLevels)
    /\ client # "database" => statement = CHOOSE s \in Statements : TRUE

Next ==
    \/ client = "rmtcmd" /\ RemoteNext /\ UNCHANGED <<client, signonVars, rowVars>>
    \/ client = "signon" /\ SignonNext /\ UNCHANGED <<client, remoteVars, rowVars>>
    \/ client = "database" /\ RowNext /\ UNCHANGED <<client, remoteVars, signonVars>>

Spec == Init /\ [][Next]_vars

-----------------------------------------------------------------------------
(***************************************************************************)
(* A small instance: bytes are base 3, the escape is 2, and a call without *)
(* "all" gets one message.                                                 *)
(***************************************************************************)
P(usage, max) == [usage |-> usage, max |-> max]

\* Two outputs in a row, and one behind three parameters without an entry.
MCSignatures ==
    {<<P("inout", 2), P("output", 2)>>,
     <<P("input", 2), P("null", 0), P("output", 0), P("output", 6)>>}

\* Zeros inside and at the end, an escape, repeated pairs.
MCContents == {<< >>, <<1, 0>>, <<0, 2>>, <<0, 1, 0, 1, 0, 1>>}

Said(byte, texts) ==
    [f \in MessageFields |-> IF f \in FixedFields THEN <<byte>> ELSE texts]
MCMessageLists == {<<Said(3, <<1, 5, 9>>), Said(2, << >>)>>}

\* Fields of both lengths, nullable and not, with names short, long and none.
MCStatements ==
    {[columns |-> <<Column(453, 2, <<7>>), Column(496, 1, <<8, 9>>)>>,
      markers |-> <<Column(452, 2, << >>), Column(497, 1, << >>)>>],
     [columns |-> <<Column(452, 1, <<7, 8, 9>>), Column(453, 1, << >>)>>, markers |-> << >>],
     [columns |-> << >>, markers |-> <<Column(453, 1, << >>), Column(453, 2, << >>)>>]}
=============================================================================
