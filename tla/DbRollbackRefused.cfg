\* The server may refuse a ROLLBACK.
CONSTANTS
    Statements = {s1}
    s1 = s1
    NoStmt = NoStmt
    MaxStatements = 1
    Refusals = {"rollback"}
SPECIFICATION Spec
INVARIANTS
    NoWorkLeftBehind
