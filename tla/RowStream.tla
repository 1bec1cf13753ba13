------------------------------ MODULE RowStream ------------------------------
(***************************************************************************)
(* What a Rows promises its caller, whatever blocks the server sends the   *)
(* rows in and however often the statement is run again: the rows of its   *)
(* own run, each once and in order, and io.EOF only after the last.        *)
(***************************************************************************)
EXTENDS Naturals, Sequences

CONSTANT Runs   \* runs of statements that use one RPB handle, one after another

VARIABLES
    total,   \* rows in each run's result set
    status,  \* "none" before the run, "open", "closed" once its Rows is
    got,     \* what Next has returned, row i of run r as <<r, i>>
    ended    \* whether Next has returned io.EOF

Init ==
    /\ total \in [Runs -> Nat]
    /\ status = [r \in Runs |-> "none"]
    /\ got = [r \in Runs |-> << >>]
    /\ ended = [r \in Runs |-> FALSE]

\* Only one Rows is open at a time: a run closes the one before.
Open(r) ==
    /\ status[r] = "none"
    /\ status' = [q \in Runs |-> IF q = r THEN "open" ELSE
                                 IF status[q] = "open" THEN "closed" ELSE status[q]]
    /\ UNCHANGED <<total, got, ended>>

Deliver(r) ==
    /\ status[r] = "open"
    /\ Len(got[r]) < total[r]
    /\ got' = [got EXCEPT ![r] = Append(@, <<r, Len(@) + 1>>)]
    /\ UNCHANGED <<total, status, ended>>

End(r) ==
    /\ status[r] = "open"
    /\ Len(got[r]) = total[r]
    /\ ended' = [ended EXCEPT ![r] = TRUE]
    /\ UNCHANGED <<total, status, got>>

Close(r) ==
    /\ status[r] = "open"
    /\ status' = [status EXCEPT ![r] = "closed"]
    /\ UNCHANGED <<total, got, ended>>

Next == \E r \in Runs : Open(r) \/ Deliver(r) \/ End(r) \/ Close(r)

Spec == Init /\ [][Next]_<<total, status, got, ended>>
=============================================================================
