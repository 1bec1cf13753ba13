\* Three statements for two handles; the server may refuse anything but a
\* ROLLBACK and the deletion of an RPB.
CONSTANTS
    Statements = {s1, s2, s3}
    s1 = s1
    s2 = s2
    s3 = s3
    NoStmt = NoStmt
    MaxStatements = 2
    Refusals = {"prepare", "execute", "open", "fetch", "ping", "begin", "commit", "autocommit"}
SPECIFICATION Spec
INVARIANTS
    TypeOK
    HandlesAgree
    DescriptorsAgree
    CursorsAgree
    TransactionAgrees
    NoWorkLeftBehind
    CommitHonest
    RetryIsSafe
PROPERTIES
    NothingAfterBroken
