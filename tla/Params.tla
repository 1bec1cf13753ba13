------------------------------- MODULE Params -------------------------------
(***************************************************************************)
(* LL/CP parameters (as400/params.go), by which as-signon, as-dtaq and     *)
(* as-database requests and replies carry their optional fields.           *)
(*                                                                         *)
(* A datastream's body is a sequence of cells: a cell is a byte of data,   *)
(* or a number, or a text, that the code reads as a whole.  Lengths and    *)
(* offsets count cells, so an LL/CP header of 6 bytes is one of 2 cells.   *)
(***************************************************************************)
EXTENDS Naturals, SequencesExt

Param(cp, data) == [cp |-> cp, data |-> data]

EncodeParams(params) ==
    FlattenSeq([i \in DOMAIN params |-> <<2 + Len(params[i].data), params[i].cp>> \o params[i].data])

\* What DecodeParams makes of a body that is no sequence of parameters.
Malformed == [ok |-> FALSE, params |-> << >>]

\* A parameter's length covers its header and stays inside the body.
EndsInside(ll, left) == ll \in 2 .. left

\* The parameters of body, which is rejected as a whole if one is truncated.
DecodeParams(body) ==
    LET from[i \in 1 .. Len(body) + 1] ==
            IF i > Len(body) THEN [ok |-> TRUE, params |-> << >>]
            ELSE IF i + 1 > Len(body) \/ ~EndsInside(body[i], Len(body) + 1 - i) THEN Malformed
            ELSE LET rest == from[i + body[i]] IN
                 IF ~rest.ok THEN Malformed
                 ELSE [ok |-> TRUE,
                       params |-> <<Param(body[i + 1], SubSeq(body, i + 2, i + body[i] - 1))>>
                                  \o rest.params]
    IN from[1]

\* The data of the first parameter with a code point, if there is one.
Find(params, cp) ==
    LET at == {i \in DOMAIN params : params[i].cp = cp} IN
    IF at = {} THEN << >> ELSE params[Min(at)].data

\* The cell after the first skip ones, which must be there; a field stays zero otherwise.
Field(params, cp, skip) ==
    LET d == Find(params, cp) IN IF Len(d) > skip THEN d[skip + 1] ELSE 0
=============================================================================
