------------------------- MODULE DatabaseConnProofs -------------------------
(***************************************************************************)
(* Theorems about DatabaseConn, for any number of statements, any limit of *)
(* handles and any requests the server may refuse.                         *)
(***************************************************************************)
EXTENDS DatabaseConn, TLAPS

StmtStages == {"createRPB", "prepare", "closeCursor", "changeDescriptor", "execute", "open",
               "fetch", "deleteDescriptor", "deleteRPB"}

\* What a call at a request relies on of its statement.
Shape(stage, name, t) ==
    /\ stage \in {"createRPB", "prepare"} =>
          name = "prepare" /\ t.phase = "preparing" /\ t.cursor = "none" /\ ~t.descriptorSent
    /\ stage = "closeCursor" =>
          /\ t.cursor = "open"
          /\ \/ name = "closeStmt" /\ t.phase = "closing"
             \/ name \in {"query", "closeRows"} /\ t.phase = "open"
    /\ stage = "changeDescriptor" => name \in {"exec", "query"} /\ ~t.descriptorSent
    /\ stage = "execute" => name = "exec"
    /\ stage = "open" => name = "query"
    /\ stage \in {"changeDescriptor", "execute", "open", "fetch"} => t.phase = "open"
    /\ stage \in {"changeDescriptor", "open"} /\ name = "query" => t.cursor # "open"
    /\ stage = "fetch" => name = "next" /\ t.cursor = "open"
    /\ stage = "deleteDescriptor" => name = "closeStmt" /\ t.descriptorSent
    /\ stage = "deleteRPB" => name \in {"prepare", "closeStmt"}
    /\ stage \in {"deleteDescriptor", "deleteRPB"} => t.phase = "closing" /\ t.cursor # "open"

\* Only the statement of the call in progress is half made or half closed.
CallShape ==
    /\ op.stage \in StmtStages => S \in Statements /\ Shape(op.stage, op.name, st[S])
    /\ \A s \in Statements :
          /\ st[s].phase \in {"preparing", "closing"} => s = S /\ op.stage \in StmtStages
          /\ st[s].cursor = "done" => st[s].eof

\* The handles in use are those of the statements, one each.
Owners ==
    /\ \A s \in Statements : IF st[s].phase = "free" THEN st[s] = FreeStmt ELSE st[s].id \in ids
    /\ \A s, t \in Statements : st[s].phase # "free" /\ st[s].id = st[t].id => s = t
    /\ \A h \in ids : \E s \in Statements : st[s].id = h

\* What the job has for a statement, and for a handle that is free.
Deleting(s) == op.stage = "deleteRPB" /\ op.stmt = s

Served(s) ==
    LET h == st[s].id IN
    /\ st[s].phase = "open" => rpb[h] = s
    /\ st[s].descriptorSent /\ ~Deleting(s) => descriptor[h] = s
    /\ ~st[s].descriptorSent \/ Deleting(s) => descriptor[h] = NoStmt
    /\ st[s].cursor = "open" <=> h \in cursors

Unused(h) ==
    /\ "deleteRPB" \notin Refusals => rpb[h] = NoStmt
    /\ descriptor[h] = NoStmt
    /\ h \notin cursors

JobAgrees ==
    Usable =>
        /\ \A s \in Statements : st[s].phase # "free" => Served(s)
        /\ \A h \in Handles \ ids : Unused(h)

SInv == TypeOK /\ CallShape /\ Owners /\ JobAgrees

-----------------------------------------------------------------------------
\* A step about the statement s makes it n; h is the handle it has before or
\* after: taken, kept or freed.
Assigns(s, n, h) ==
    \/ /\ st[s].phase = "free" /\ n.phase # "free" /\ n.id = h
       /\ h \in Handles \ ids /\ ids' = ids \union {h}
    \/ /\ st[s].phase # "free" /\ n.phase # "free" /\ st[s].id = h /\ n.id = h
       /\ ids' = ids
    \/ /\ st[s].phase # "free" /\ n = FreeStmt /\ st[s].id = h
       /\ ids' = ids \ {h}

Fits(s, n) ==
    /\ op'.stage \in StmtStages => op'.stmt = s /\ Shape(op'.stage, op'.name, n)
    /\ n.phase \in {"preparing", "closing"} => op'.stmt = s /\ op'.stage \in StmtStages
    /\ n.cursor = "done" => n.eof

Answered(s, n, h) ==
    Usable' =>
        /\ Usable
        /\ \A g \in Handles : g # h =>
              /\ rpb'[g] = rpb[g] /\ descriptor'[g] = descriptor[g]
              /\ g \in cursors' <=> g \in cursors
        /\ n.phase = "open" => rpb'[h] = s
        /\ n.descriptorSent /\ op'.stage # "deleteRPB" => descriptor'[h] = s
        /\ ~n.descriptorSent \/ op'.stage = "deleteRPB" => descriptor'[h] = NoStmt
        /\ n.cursor = "open" <=> h \in cursors'
        /\ n.phase = "free" /\ "deleteRPB" \notin Refusals => rpb'[h] = NoStmt

Kept == ids' \subseteq Handles /\ st' \in [Statements -> Stmt] /\ CallShape' /\ Owners' /\ JobAgrees'

LEMMA StmtStep ==
  ASSUME SInv, NEW s \in Statements, NEW n \in Stmt, NEW h,
         Idle \/ s = S,
         st' = [st EXCEPT ![s] = n], op' \in Op,
         Assigns(s, n, h), Fits(s, n), Answered(s, n, h)
  PROVE  Kept
<1>0. /\ ids \subseteq Handles /\ st \in [Statements -> Stmt] /\ op \in Op
      /\ st'[s] = n /\ \A t \in Statements \ {s} : st'[t] = st[t]
  BY DEF SInv, TypeOK
<1>1. ids' \subseteq Handles /\ st' \in [Statements -> Stmt] /\ h \in Handles
  <2>1. ids' \subseteq Handles /\ h \in Handles
    BY <1>0 DEF Assigns, SInv, Owners
  <2> QED
    BY <1>0, <2>1
<1>2. \A t \in Statements \ {s} : st[t].phase \notin {"preparing", "closing"}
  BY DEF SInv, CallShape, Idle, StmtStages
<1>3. CallShape'
  <2>1. op'.stage \in StmtStages => op'.stmt = s /\ Shape(op'.stage, op'.name, st'[s])
    BY <1>0 DEF Fits
  <2>2. \A t \in Statements :
          /\ st'[t].phase \in {"preparing", "closing"} => t = op'.stmt /\ op'.stage \in StmtStages
          /\ st'[t].cursor = "done" => st'[t].eof
    <3>1. \A t \in Statements \ {s} : st[t].cursor = "done" => st[t].eof
      BY DEF SInv, CallShape
    <3> QED
      BY <1>0, <1>2, <3>1 DEF Fits
  <2> QED
    BY <2>1, <2>2 DEF CallShape, S
<1>4. \A t \in Statements \ {s} : st[t].phase # "free" => st[t].id # h /\ st[t].id \in ids /\ st[t].id \in ids'
  BY <1>0 DEF Assigns, SInv, Owners
<1>5. Owners'
  <2>0. st[s].phase = "free" => st[s] = FreeStmt
    BY DEF SInv, Owners
  <2>1. \A t \in Statements : IF st'[t].phase = "free" THEN st'[t] = FreeStmt ELSE st'[t].id \in ids'
    <3>1. \A t \in Statements \ {s} : IF st[t].phase = "free" THEN st[t] = FreeStmt ELSE st[t].id \in ids'
      BY <1>4 DEF SInv, Owners
    <3>2. IF n.phase = "free" THEN n = FreeStmt ELSE n.id \in ids'
      BY DEF Assigns, FreeStmt, SInv, Owners
    <3> QED
      BY <1>0, <3>1, <3>2
  <2>2. ASSUME NEW t \in Statements, NEW u \in Statements, st'[t].phase # "free", st'[t].id = st'[u].id
        PROVE  t = u
    <3>1. st'[u].phase # "free"
      <4>1. st'[t].id \in Handles
        BY <1>1, <2>1, <2>2
      <4> QED
        BY <2>1, <2>2, <4>1, DatabaseConnAssumption DEF FreeStmt, NoHandle, Handles
    <3>2. CASE t # s /\ u # s
      BY <1>0, <2>2, <3>2 DEF SInv, Owners
    <3>3. CASE t = s /\ u # s
      BY <1>0, <1>4, <2>2, <3>1, <3>3 DEF Assigns, FreeStmt
    <3>4. CASE t # s /\ u = s
      BY <1>0, <1>4, <2>2, <3>1, <3>4 DEF Assigns, FreeStmt
    <3> QED
      BY <3>2, <3>3, <3>4
  <2>3. ASSUME NEW g \in ids' PROVE \E t \in Statements : st'[t].id = g
    <3>1. CASE g = h
      BY <1>0, <3>1, <2>3 DEF Assigns
    <3>2. CASE g # h
      <4>1. g \in ids
        BY <2>3, <3>2 DEF Assigns
      <4>2. PICK t \in Statements : st[t].id = g
        BY <4>1 DEF SInv, Owners
      <4>3. t # s
        BY <2>0, <3>2, <4>1, <4>2, <1>0, DatabaseConnAssumption DEF Assigns, FreeStmt, NoHandle, Handles
      <4> QED
        BY <1>0, <4>2, <4>3
    <3> QED
      BY <3>1, <3>2
  <2> QED
    BY <2>1, <2>2, <2>3 DEF Owners
<1>6. JobAgrees'
  <2> SUFFICES ASSUME Usable'
               PROVE  /\ \A t \in Statements : st'[t].phase # "free" => Served(t)'
                      /\ \A g \in Handles \ ids' : Unused(g)'
    BY DEF JobAgrees
  <2>1. /\ \A t \in Statements : st[t].phase # "free" => Served(t)
        /\ \A g \in Handles \ ids : Unused(g)
    BY DEF SInv, JobAgrees, Answered
  <2>2. ASSUME NEW t \in Statements, t # s, st'[t].phase # "free" PROVE Served(t)'
    <3>1. st'[t] = st[t] /\ st[t].id \in Handles /\ st[t].id # h /\ Served(t)
      BY <1>0, <1>4, <2>1, <2>2
    <3>2. /\ rpb'[st[t].id] = rpb[st[t].id] /\ descriptor'[st[t].id] = descriptor[st[t].id]
          /\ st[t].id \in cursors' <=> st[t].id \in cursors
      BY <3>1 DEF Answered
    <3>3. ~Deleting(t) /\ ~Deleting(t)'
      BY <2>2 DEF Deleting, Idle, Fits, StmtStages, S
    <3> QED
      BY <3>1, <3>2, <3>3 DEF Served
  <2>3. ASSUME st'[s].phase # "free" PROVE Served(s)'
    <3>1. n.id = h /\ n = st'[s]
      BY <1>0, <2>3 DEF Assigns, FreeStmt
    <3>2. op'.stage = "deleteRPB" => op'.stmt = s
      BY DEF Fits, StmtStages
    <3> QED
      BY <3>1, <3>2 DEF Served, Answered, Deleting
  <2>4. ASSUME NEW g \in Handles \ ids' PROVE Unused(g)'
    <3>1. CASE g # h
      <4>1. Unused(g)
        BY <2>1, <2>4, <3>1 DEF Assigns
      <4> QED
        BY <4>1, <3>1, <2>4 DEF Unused, Answered
    <3>2. CASE g = h
      <4>1. n = FreeStmt
        BY <1>0, <2>4, <3>2, <1>5 DEF Assigns, SInv, Owners
      <4>2. n.phase = "free" /\ ~n.descriptorSent /\ n.cursor # "open"
        BY <4>1 DEF FreeStmt
      <4> QED
        BY <3>2, <4>2 DEF Unused, Answered
    <3> QED
      BY <3>1, <3>2
  <2> QED
    BY <2>2, <2>3, <2>4
<1> QED
  BY <1>1, <1>3, <1>5, <1>6 DEF Kept

\* A step that changes no statement, and no request for one follows.
LEMMA OtherStep ==
  ASSUME SInv, UNCHANGED <<ids, st>>, op.stage \notin StmtStages \/ st[S].phase = "open",
         op'.stage \notin StmtStages,
         Usable' => Usable /\ UNCHANGED <<rpb, descriptor, cursors>>
  PROVE  Kept
<1>1. ids' \subseteq Handles /\ st' \in [Statements -> Stmt]
  BY DEF SInv, TypeOK
<1>2. \A s \in Statements : st[s].phase \notin {"preparing", "closing"}
  BY DEF SInv, CallShape
<1>3. CallShape'
  <2>1. \A s \in Statements : st'[s].phase \notin {"preparing", "closing"}
    BY <1>2
  <2>2. \A s \in Statements : st'[s].cursor = "done" => st'[s].eof
    BY DEF SInv, CallShape
  <2> QED
    BY <2>1, <2>2 DEF CallShape
<1>4. Owners'
  BY DEF SInv, Owners
<1>5. JobAgrees'
  <2>1. op.stage # "deleteRPB" /\ op'.stage # "deleteRPB"
    BY DEF StmtStages, SInv, CallShape, Shape
  <2>2. \A s : ~Deleting(s) /\ ~Deleting(s)'
    BY <2>1 DEF Deleting
  <2> QED
    BY <2>2 DEF SInv, JobAgrees, Served, Unused
<1> QED
  BY <1>1, <1>3, <1>4, <1>5 DEF Kept

\* The rest of the types.
Typed ==
    /\ inTx \in BOOLEAN /\ broken \in BOOLEAN /\ closed \in BOOLEAN
    /\ op \in Op
    /\ rpb \in [Handles -> Statements \union {NoStmt, "created"}]
    /\ descriptor \in [Handles -> Statements \union {NoStmt}]
    /\ cursors \subseteq Handles
    /\ autocommit \in BOOLEAN
    /\ work \in {"none", "pending", "committed", "rolledback"}

LEMMA KeptTyped == Kept /\ Typed' => SInv'
<1>1. Kept /\ Typed' => TypeOK'
  BY DEF Kept, Typed, TypeOK
<1> QED
  BY <1>1 DEF Kept, SInv

LEMMA IsTyped == SInv => Typed
  BY DEF SInv, TypeOK, Typed

-----------------------------------------------------------------------------
\* What a call's start and its going on make of op.
LEMMA StartOp ==
  ASSUME NEW name \in Names, NEW s \in Statements \union {NoStmt}, NEW stage \in Stages,
         NEW errs \in SUBSET Errors, Start(name, s, stage, errs)
  PROVE  /\ op' \in Op
         /\ op'.name = name /\ op'.stmt = s /\ op'.stage = stage /\ op'.errs = errs /\ ~op'.sent
  BY DEF Start, Op

LEMMA ProceedOp ==
  ASSUME op \in Op, NEW stage \in Stages, NEW errs \in SUBSET Errors, Proceed(stage, errs)
  PROVE  /\ op' \in Op
         /\ op'.name = op.name /\ op'.stmt = op.stmt /\ op'.stage = stage
         /\ op'.errs = op.errs \union errs /\ (op'.sent <=> (op.sent \/ Usable))
<1>1. op.errs \union errs \in SUBSET Errors /\ (op.sent \/ Usable) \in BOOLEAN
  BY DEF Op
<1>2. op' = [op EXCEPT !.stage = stage, !.errs = op.errs \union errs, !.sent = (op.sent \/ Usable)]
  BY DEF Proceed
<1> HIDE DEF Usable
<1> QED
  BY <1>1, <1>2 DEF Op

\* What is known while a request for a statement is made.
LEMMA AtRequest ==
  ASSUME SInv, op.stage \in StmtStages
  PROVE  /\ S \in Statements /\ st[S] \in Stmt /\ st[S].phase # "free"
         /\ op.stmt = S /\ H = st[S].id /\ H \in Handles /\ H \in ids
         /\ Shape(op.stage, op.name, st[S])
         /\ st = [st EXCEPT ![S] = st[S]] /\ (st[S].cursor = "done" => st[S].eof)
         /\ Usable => Served(S)
<1>1. S \in Statements /\ Shape(op.stage, op.name, st[S]) /\ (st[S].cursor = "done" => st[S].eof)
  BY DEF SInv, CallShape
<1>2. st \in [Statements -> Stmt] /\ st[S] \in Stmt /\ ids \subseteq Handles
  BY <1>1 DEF SInv, TypeOK
<1>3. st[S].phase # "free"
  BY <1>1 DEF StmtStages, Shape
<1>4. st[S].id \in ids
  BY <1>1, <1>3 DEF SInv, Owners
<1> QED
  BY <1>1, <1>2, <1>3, <1>4 DEF SInv, JobAgrees, S, H

\* The end of a call that releases its statement.
LEMMA ReleaseStep ==
  ASSUME SInv, op.stage \in StmtStages, Release(S), op' \in Op, op'.stage = "idle",
         Usable' =>
            /\ Usable
            /\ \A g \in Handles : g # H =>
                  /\ rpb'[g] = rpb[g] /\ descriptor'[g] = descriptor[g]
                  /\ g \in cursors' <=> g \in cursors
            /\ "deleteRPB" \notin Refusals => rpb'[H] = NoStmt
            /\ descriptor'[H] = NoStmt /\ H \notin cursors'
  PROVE  Kept
<1>1. FreeStmt \in Stmt
  BY DEF FreeStmt, Stmt
<1>2. Assigns(S, FreeStmt, H)
  BY AtRequest DEF Assigns, Release
<1>3. Fits(S, FreeStmt)
  BY DEF Fits, FreeStmt, StmtStages
<1>4. Answered(S, FreeStmt, H)
  BY DEF Answered, FreeStmt
<1>5. S \in Statements /\ st' = [st EXCEPT ![S] = FreeStmt]
  BY AtRequest DEF Release
<1> QED
  BY <1>1, <1>2, <1>3, <1>4, <1>5, StmtStep

-----------------------------------------------------------------------------
LEMMA StepCreateRPB == SInv /\ CreateRPB => SInv'
<1> SUFFICES ASSUME SInv, CreateRPB PROVE SInv'
  OBVIOUS
<1>0. Typed /\ op.stage \in StmtStages /\ "io" \in Errors /\ {"idle", "prepare"} \subseteq Stages
  BY IsTyped DEF CreateRPB, StmtStages, Errors, Stages
<1>1. S \in Statements /\ st[S] \in Stmt /\ st[S].phase # "free" /\ H \in Handles
      /\ st[S].id = H /\ Shape("createRPB", op.name, st[S])
  BY <1>0, AtRequest DEF CreateRPB
<1> DEFINE created == [rpb EXCEPT ![H] = IF @ = NoStmt THEN "created" ELSE @]
<1>2. created \in [Handles -> Statements \union {NoStmt, "created"}]
  BY <1>0, <1>1 DEF Typed
<1>3. CASE /\ Usable /\ rpb' = created /\ Proceed("prepare", {})
           /\ UNCHANGED <<ids, st, broken, inTx, closed, descriptor, cursors, autocommit, work>>
  <2>1. op' \in Op /\ op'.name = op.name /\ op'.stmt = S /\ op'.stage = "prepare"
    BY <1>0, <1>3, ProceedOp DEF Typed, S
  <2>2. Assigns(S, st[S], H)
    BY <1>1, <1>3 DEF Assigns
  <2>3. Fits(S, st[S])
    BY <1>1, <2>1 DEF Fits, Shape, StmtStages
  <2>4. Answered(S, st[S], H)
    BY <1>0, <1>1, <1>3, <2>1, AtRequest DEF Answered, Shape, Served, Deleting, CreateRPB, Typed
  <2>5. Kept
    BY <1>0, <1>1, <1>3, <2>1, <2>2, <2>3, <2>4, AtRequest, StmtStep
  <2> QED
    BY <1>0, <1>2, <1>3, <2>1, <2>5, KeptTyped DEF Typed
<1>4. CASE /\ IOFails /\ rpb' \in {rpb, created} /\ Release(S) /\ Proceed("idle", {"io"})
           /\ UNCHANGED <<inTx, closed, descriptor, cursors, autocommit, work>>
  <2>1. op' \in Op /\ op'.stage = "idle"
    BY <1>0, <1>4, ProceedOp DEF Typed
  <2>2. Kept
    BY <1>0, <1>4, <2>1, ReleaseStep DEF IOFails, Usable
  <2> QED
    BY <1>0, <1>2, <1>4, <2>1, <2>2, KeptTyped DEF Typed, IOFails
<1> QED
  BY <1>3, <1>4 DEF CreateRPB

LEMMA StepPrepareDescribe == SInv /\ PrepareDescribe => SInv'
<1> SUFFICES ASSUME SInv, PrepareDescribe PROVE SInv'
  OBVIOUS
<1>0. /\ Typed /\ op.stage \in StmtStages
      /\ {"io", "server", "local"} \subseteq Errors /\ {"idle", "deleteRPB"} \subseteq Stages
  BY IsTyped DEF PrepareDescribe, StmtStages, Errors, Stages
<1>1. S \in Statements /\ st[S] \in Stmt /\ st[S].phase = "preparing" /\ H \in Handles
      /\ st[S].id = H /\ Shape("prepare", op.name, st[S])
  BY <1>0, AtRequest DEF PrepareDescribe, Shape
<1>2. [rpb EXCEPT ![H] = S] \in [Handles -> Statements \union {NoStmt, "created"}]
  BY <1>0, <1>1 DEF Typed
<1>3. CASE /\ Usable /\ rpb' = [rpb EXCEPT ![H] = S]
           /\ \E c, p \in BOOLEAN :
                 st' = [st EXCEPT ![S].phase = "open", ![S].columns = c, ![S].params = p]
           /\ Proceed("idle", {})
           /\ UNCHANGED <<ids, broken, inTx, closed, descriptor, cursors, autocommit, work>>
  <2>1. op' \in Op /\ op'.stage = "idle"
    BY <1>0, <1>3, ProceedOp DEF Typed
  <2>2. PICK c \in BOOLEAN, p \in BOOLEAN :
            st' = [st EXCEPT ![S].phase = "open", ![S].columns = c, ![S].params = p]
    BY <1>3
  <2> DEFINE n == [st[S] EXCEPT !.phase = "open", !.columns = c, !.params = p]
  <2>3. /\ n \in Stmt /\ n.phase = "open" /\ n.id = H /\ n.cursor = "none" /\ ~n.descriptorSent
        /\ st' = [st EXCEPT ![S] = n]
    <3>1. n \in Stmt
      BY <1>1 DEF Stmt
    <3>2. n.phase = "open" /\ n.id = H /\ n.cursor = "none" /\ ~n.descriptorSent
      BY <1>1 DEF Stmt, Shape
    <3>3. st' = [st EXCEPT ![S] = n]
      BY <1>1, <2>2 DEF SInv, TypeOK, Stmt
    <3> QED
      BY <3>1, <3>2, <3>3
  <2> HIDE DEF n
  <2>4. Assigns(S, n, H)
    BY <1>1, <1>3, <2>3 DEF Assigns
  <2>5. Fits(S, n)
    BY <2>1, <2>3 DEF Fits, StmtStages
  <2>6. Answered(S, n, H)
    BY <1>0, <1>1, <1>3, <2>1, <2>3, AtRequest
       DEF Answered, Shape, Served, Deleting, PrepareDescribe, Typed
  <2>7. Kept
    BY <1>0, <1>1, <2>1, <2>3, <2>4, <2>5, <2>6, StmtStep
  <2> QED
    BY <1>0, <1>2, <1>3, <2>1, <2>7, KeptTyped DEF Typed
<1>4. ASSUME NEW e \in {"server", "local"}, Proceed("deleteRPB", {e}),
             st' = [st EXCEPT ![S].phase = "closing"], Usable,
             UNCHANGED <<ids, rpb, broken, inTx, closed, descriptor, cursors, autocommit, work>>
      PROVE  SInv'
  <2>1. op' \in Op /\ op'.stage = "deleteRPB" /\ op'.name = "prepare" /\ op'.stmt = S
    BY <1>0, <1>1, <1>4, ProceedOp DEF Typed, Shape, S
  <2> DEFINE n == [st[S] EXCEPT !.phase = "closing"]
  <2>3. /\ n \in Stmt /\ n.phase = "closing" /\ n.id = H /\ n.cursor = "none" /\ ~n.descriptorSent
        /\ st' = [st EXCEPT ![S] = n]
    BY <1>1, <1>4 DEF SInv, TypeOK, Stmt, Shape
  <2> HIDE DEF n
  <2>4. Assigns(S, n, H)
    BY <1>1, <1>4, <2>3 DEF Assigns
  <2>5. Fits(S, n)
    BY <2>1, <2>3 DEF Fits, StmtStages, Shape
  <2>6. Answered(S, n, H)
    BY <1>0, <1>1, <1>4, <2>1, <2>3, AtRequest
       DEF Answered, Shape, Served, Deleting, PrepareDescribe, Typed
  <2>7. Kept
    BY <1>0, <1>1, <2>1, <2>3, <2>4, <2>5, <2>6, StmtStep
  <2> QED
    BY <1>0, <1>4, <2>1, <2>7, KeptTyped DEF Typed
<1>5. CASE /\ IOFails /\ rpb' \in {rpb, [rpb EXCEPT ![H] = S]} /\ Release(S)
           /\ Proceed("idle", {"io"})
           /\ UNCHANGED <<inTx, closed, descriptor, cursors, autocommit, work>>
  <2>1. op' \in Op /\ op'.stage = "idle"
    BY <1>0, <1>5, ProceedOp DEF Typed
  <2>2. Kept
    BY <1>0, <1>5, <2>1, ReleaseStep DEF IOFails, Usable
  <2> QED
    BY <1>0, <1>2, <1>5, <2>1, <2>2, KeptTyped DEF Typed, IOFails
<1> QED
  BY <1>3, <1>4, <1>5 DEF PrepareDescribe, Refused

\* AfterCursor names a request that its statement is fit for.
LEMMA AfterCursorFits ==
  ASSUME NEW s \in Statements, NEW t, t.phase = "closing", t.cursor # "open",
         t.descriptorSent = st[s].descriptorSent
  PROVE  /\ AfterCursor(s) \in {"deleteDescriptor", "deleteRPB"}
         /\ Shape(AfterCursor(s), "closeStmt", t)
         /\ AfterCursor(s) = "deleteRPB" => ~t.descriptorSent
  BY DEF AfterCursor, Shape

LEMMA BindStagesFit ==
  ASSUME NEW s \in Statements, NEW t, NEW run \in {"execute", "open"}, NEW name,
         NEW stage \in BindStages(s, run), st[s] \in Stmt, name = IF run = "open" THEN "query" ELSE "exec",
         t.phase = "open", t.descriptorSent = st[s].descriptorSent, run = "open" => t.cursor # "open"
  PROVE  /\ stage \in {"idle", "changeDescriptor", run}
         /\ Shape(stage, name, t)
         /\ BindErrors(stage) \in SUBSET Errors
  BY DEF BindStages, BindErrors, Shape, Errors, Stmt

LEMMA StepCloseCursor == SInv /\ CloseCursor => SInv'
<1> SUFFICES ASSUME SInv, CloseCursor PROVE SInv'
  OBVIOUS
<1>0. Typed /\ op.stage \in StmtStages
  BY IsTyped DEF CloseCursor, StmtStages
<1>1. S \in Statements /\ st[S] \in Stmt /\ st[S].phase # "free" /\ H \in Handles
      /\ st[S].id = H /\ Shape("closeCursor", op.name, st[S])
  BY <1>0, AtRequest DEF CloseCursor
<1> DEFINE n == [st[S] EXCEPT !.cursor = "none", !.eof = FALSE]
<1>2. /\ n \in Stmt /\ n.phase = st[S].phase /\ n.id = H /\ n.cursor = "none"
      /\ n.descriptorSent = st[S].descriptorSent
      /\ st' = [st EXCEPT ![S] = n]
  BY <1>1 DEF CloseCursor, SInv, TypeOK, Stmt
<1> HIDE DEF n
<1>3. ASSUME NEW stage \in Stages, NEW errs \in SUBSET Errors, Proceed(stage, errs),
             broken' \in BOOLEAN, Usable' => Usable /\ cursors' = cursors \ {H},
             cursors' \in {cursors, cursors \ {H}},
             \/ stage = "idle" /\ n.phase = "open"
             \/ stage \in StmtStages /\ Shape(stage, op.name, n) /\ (stage = "deleteRPB" => ~n.descriptorSent)
      PROVE  SInv'
  <2>0. UNCHANGED <<ids, inTx, closed, rpb, descriptor, autocommit, work>>
    BY DEF CloseCursor
  <2>1. op' \in Op /\ op'.stage = stage /\ op'.name = op.name /\ op'.stmt = S
    BY <1>0, <1>3, ProceedOp DEF Typed, S
  <2>2. Typed'
    BY <1>0, <1>3, <2>0, <2>1 DEF Typed
  <2>3. Assigns(S, n, H)
    BY <1>1, <1>2, <2>0 DEF Assigns
  <2>4. Fits(S, n)
    <3>1. "idle" \notin StmtStages
      BY DEF StmtStages
    <3> QED
      BY <1>2, <1>3, <2>1, <3>1 DEF Fits
  <2>5. Answered(S, n, H)
    <3> SUFFICES ASSUME Usable' PROVE Answered(S, n, H)
      BY DEF Answered
    <3>1. Usable /\ cursors' = cursors \ {H}
      BY <1>3
    <3>2. Served(S) /\ ~Deleting(S)
      BY <1>0, <3>1, AtRequest DEF Deleting, CloseCursor
    <3>3. /\ n.phase = "open" => rpb[H] = S
          /\ n.descriptorSent => descriptor[H] = S
          /\ ~n.descriptorSent => descriptor[H] = NoStmt
      BY <1>1, <1>2, <3>2 DEF Served
    <3>4. n.phase # "free" /\ op'.stage = stage
      BY <1>1, <1>2, <2>1
    <3> QED
      BY <1>2, <1>3, <2>0, <3>1, <3>3, <3>4 DEF Answered
  <2>6. Kept
    BY <1>0, <1>1, <1>2, <2>1, <2>3, <2>4, <2>5, StmtStep
  <2> QED
    BY <2>2, <2>6, KeptTyped
<1>4. ASSUME op.name = "closeStmt" PROVE n.phase = "closing" /\ AfterCursor(S) \in Stages \cap StmtStages
                 /\ Shape(AfterCursor(S), op.name, n) /\ (AfterCursor(S) = "deleteRPB" => ~n.descriptorSent)
  <2>1. n.phase = "closing"
    BY <1>1, <1>2, <1>4 DEF Shape
  <2>2. n.cursor # "open"
    BY <1>2
  <2> QED
    BY <1>1, <1>2, <1>4, <2>1, <2>2, AfterCursorFits DEF Stages, StmtStages
<1>5. op.name # "closeStmt" => n.phase = "open"
  BY <1>1, <1>2 DEF Shape
<1>6. {} \in SUBSET Errors /\ {"io"} \in SUBSET Errors /\ "idle" \in Stages /\ "idle" # "deleteRPB"
  BY DEF Errors, Stages
<1>7. CASE /\ Usable /\ cursors' = cursors \ {H} /\ UNCHANGED broken
           /\ \/ op.name = "closeStmt" /\ Proceed(AfterCursor(S), {})
              \/ op.name = "closeRows" /\ Proceed("idle", {})
              \/ /\ op.name = "query"
                 /\ \E stage \in BindStages(S, "open") : Proceed(stage, BindErrors(stage))
  <2>0. broken' \in BOOLEAN
    BY <1>0, <1>7 DEF Typed
  <2>1. ASSUME op.name = "closeStmt", Proceed(AfterCursor(S), {}) PROVE SInv'
    <3>1. AfterCursor(S) # "idle"
      BY <1>4, <2>1 DEF StmtStages
    <3> QED
      BY <1>3, <1>4, <1>6, <1>7, <2>0, <2>1, <3>1
  <2>2. ASSUME op.name = "closeRows", Proceed("idle", {}) PROVE SInv'
    <3>1. "idle" = "idle" /\ n.phase = "open"
      BY <1>5, <2>2
    <3>2. Usable' => Usable /\ cursors' = cursors \ {H}
      BY <1>7
    <3> QED
      BY <1>3, <1>6, <1>7, <2>0, <2>2, <3>1, <3>2
  <2>3. ASSUME op.name = "query", NEW stage \in BindStages(S, "open"), Proceed(stage, BindErrors(stage))
        PROVE  SInv'
    <3>1. n.phase = "open" /\ n.cursor # "open"
      BY <1>2, <1>5, <2>3
    <3>2. stage \in {"idle", "changeDescriptor", "open"} /\ Shape(stage, op.name, n)
          /\ BindErrors(stage) \in SUBSET Errors
      BY <1>1, <1>2, <2>3, <3>1, BindStagesFit
    <3>3. stage \in Stages /\ stage # "deleteRPB" /\ (stage = "idle" \/ stage \in StmtStages)
      BY <3>2 DEF Stages, StmtStages
    <3> QED
      BY <1>3, <1>7, <2>0, <2>3, <3>1, <3>2, <3>3
  <2> QED
    BY <1>7, <2>1, <2>2, <2>3
<1>8. CASE IOFails /\ cursors' \in {cursors, cursors \ {H}} /\ Proceed(AfterCloseFails(op.name), {"io"})
  <2>0. broken' \in BOOLEAN /\ ~Usable'
    BY <1>8 DEF IOFails, Usable
  <2>1. CASE op.name = "closeStmt"
    <3>1. AfterCloseFails(op.name) = AfterCursor(S) /\ AfterCursor(S) # "idle"
      BY <1>4, <2>1 DEF StmtStages, AfterCloseFails
    <3>2. Proceed(AfterCursor(S), {"io"})
      BY <1>8, <3>1
    <3> QED
      BY <1>3, <1>4, <1>6, <1>8, <2>0, <2>1, <3>1, <3>2
  <2>2. CASE op.name # "closeStmt"
    <3>1. Proceed("idle", {"io"})
      BY <1>8, <2>2 DEF AfterCloseFails
    <3> QED
      BY <1>3, <1>5, <1>6, <1>8, <2>0, <2>2, <3>1
  <2> QED
    BY <2>1, <2>2
<1> QED
  BY <1>7, <1>8 DEF CloseCursor

LEMMA StepChangeDescriptor == SInv /\ ChangeDescriptor => SInv'
<1> SUFFICES ASSUME SInv, ChangeDescriptor PROVE SInv'
  OBVIOUS
<1>0. /\ Typed /\ op.stage \in StmtStages /\ {} \in SUBSET Errors /\ {"io"} \in SUBSET Errors
      /\ {"idle", "execute", "open"} \subseteq Stages /\ "idle" \notin StmtStages
  BY IsTyped DEF ChangeDescriptor, StmtStages, Errors, Stages
<1>1. S \in Statements /\ st[S] \in Stmt /\ st[S].phase = "open" /\ H \in Handles
      /\ st[S].id = H /\ Shape("changeDescriptor", op.name, st[S])
  BY <1>0, AtRequest DEF ChangeDescriptor, Shape
<1>2. [descriptor EXCEPT ![H] = S] \in [Handles -> Statements \union {NoStmt}]
  BY <1>0, <1>1 DEF Typed
<1>3. CASE /\ Usable /\ descriptor' = [descriptor EXCEPT ![H] = S]
           /\ st' = [st EXCEPT ![S].descriptorSent = TRUE]
           /\ Proceed(IF op.name = "exec" THEN "execute" ELSE "open", {})
           /\ UNCHANGED <<broken, ids, inTx, closed, rpb, cursors, autocommit, work>>
  <2> DEFINE stage == IF op.name = "exec" THEN "execute" ELSE "open"
             n == [st[S] EXCEPT !.descriptorSent = TRUE]
  <2>1. stage \in {"execute", "open"} /\ stage \in Stages
    BY <1>0
  <2>2. /\ n \in Stmt /\ n.phase = "open" /\ n.id = H /\ n.cursor = st[S].cursor /\ n.eof = st[S].eof
        /\ n.descriptorSent /\ st' = [st EXCEPT ![S] = n]
    BY <1>1, <1>3 DEF SInv, TypeOK, Stmt
  <2> HIDE DEF n
  <2>3. Shape(stage, op.name, n)
    BY <1>1, <2>2 DEF Shape
  <2> HIDE DEF stage
  <2>4. Proceed(stage, {})
    BY <1>3 DEF stage
  <2>5. op' \in Op /\ op'.stage = stage /\ op'.name = op.name /\ op'.stmt = S
    BY <1>0, <2>1, <2>4, ProceedOp DEF Typed, S
  <2>6. Assigns(S, n, H)
    BY <1>1, <1>3, <2>2 DEF Assigns
  <2>7. Fits(S, n)
    <3>1. n.cursor = "done" => n.eof
      BY <1>1, <2>2 DEF SInv, CallShape
    <3> QED
      BY <2>2, <2>3, <2>5, <3>1 DEF Fits
  <2>8. Answered(S, n, H)
    <3>1. Served(S)
      BY <1>0, <1>3, AtRequest
    <3>2. rpb[H] = S /\ (n.cursor = "open" <=> H \in cursors)
      BY <1>1, <2>2, <3>1 DEF Served
    <3> QED
      BY <1>0, <1>1, <1>3, <2>1, <2>2, <2>5, <3>2 DEF Answered, Typed
  <2>9. Kept
    BY <1>0, <1>1, <2>2, <2>5, <2>6, <2>7, <2>8, StmtStep
  <2> QED
    BY <1>0, <1>2, <1>3, <2>5, <2>9, KeptTyped DEF Typed
<1>4. CASE /\ IOFails /\ descriptor' \in {descriptor, [descriptor EXCEPT ![H] = S]}
           /\ Proceed("idle", {"io"})
           /\ UNCHANGED <<st, ids, inTx, closed, rpb, cursors, autocommit, work>>
  <2>1. op' \in Op /\ op'.stage = "idle"
    BY <1>0, <1>4, ProceedOp DEF Typed
  <2>2. Kept
    BY <1>0, <1>1, <1>4, <2>1, OtherStep DEF IOFails, Usable
  <2> QED
    BY <1>0, <1>2, <1>4, <2>1, <2>2, KeptTyped DEF Typed, IOFails
<1> QED
  BY <1>3, <1>4 DEF ChangeDescriptor

LEMMA StepExecute == SInv /\ Execute => SInv'
<1> SUFFICES ASSUME SInv, Execute PROVE SInv'
  OBVIOUS
<1>0. /\ Typed /\ op.stage \in StmtStages /\ "idle" \in Stages /\ "idle" \notin StmtStages
      /\ {} \in SUBSET Errors /\ {"io"} \in SUBSET Errors /\ {"server"} \in SUBSET Errors
  BY IsTyped DEF Execute, StmtStages, Errors, Stages
<1>1. st[S].phase = "open"
  BY <1>0, AtRequest DEF Execute, Shape
<1>2. PICK errs \in SUBSET Errors : Proceed("idle", errs)
  BY <1>0 DEF Execute
<1>3. op' \in Op /\ op'.stage = "idle"
  BY <1>0, <1>2, ProceedOp DEF Typed
<1>4. /\ UNCHANGED <<ids, inTx, closed, st, rpb, descriptor, cursors, autocommit>>
      /\ work' \in {work, "pending"} /\ broken' \in BOOLEAN /\ (Usable' => Usable)
  BY <1>0 DEF Execute, IOFails, Refused, Typed, Usable
<1>5. Kept
  BY <1>0, <1>1, <1>3, <1>4, OtherStep
<1> QED
  BY <1>0, <1>3, <1>4, <1>5, KeptTyped DEF Typed

\* What the answer to OPEN_DESCRIBE_FETCH or FETCH does to the Rows.
Blocks ==
    /\ Usable /\ UNCHANGED broken
    /\ \E e \in BlockEnds, f \in BOOLEAN :
          /\ st' = [st EXCEPT ![S].cursor = CursorAfter(e), ![S].eof = f]
          /\ e = "closed" => f
          /\ \/ e = "closed" /\ cursors' = cursors \ {H}
             \/ e # "closed" /\ op.stage = "open" /\ cursors' = cursors \union {H}
             \/ e # "closed" /\ op.stage = "fetch" /\ cursors' = cursors

\* A reply that carries a block, or a refusal, an error or no request at all.
LEMMA BlockStep ==
  ASSUME SInv, op.stage \in {"open", "fetch"}, NEW errs \in SUBSET Errors, Proceed("idle", errs),
         UNCHANGED <<ids, inTx, closed, rpb, descriptor, autocommit, work>>,
         \/ Blocks
         \/ UNCHANGED <<st, cursors, broken>>
         \/ IOFails /\ UNCHANGED st /\ cursors' \in {cursors, cursors \ {H}, cursors \union {H}}
  PROVE  SInv'
<1>0. /\ Typed /\ op.stage \in StmtStages /\ "idle" \in Stages /\ "idle" \notin StmtStages
  BY IsTyped DEF StmtStages, Errors, Stages
<1>1. S \in Statements /\ st[S] \in Stmt /\ st[S].phase = "open" /\ H \in Handles
      /\ st[S].id = H /\ (op.stage = "fetch" => st[S].cursor = "open")
  BY <1>0, AtRequest DEF Shape
<1>2. op' \in Op /\ op'.stage = "idle"
  BY <1>0, ProceedOp DEF Typed
<1>3. Typed'
  BY <1>0, <1>1, <1>2 DEF Typed, IOFails, Blocks
<1>4. ASSUME Usable, UNCHANGED broken, NEW e \in BlockEnds, NEW f \in BOOLEAN,
             st' = [st EXCEPT ![S].cursor = CursorAfter(e), ![S].eof = f], e = "closed" => f,
             \/ e = "closed" /\ cursors' = cursors \ {H}
             \/ e # "closed" /\ op.stage = "open" /\ cursors' = cursors \union {H}
             \/ e # "closed" /\ op.stage = "fetch" /\ cursors' = cursors
      PROVE  Kept
  <2> DEFINE n == [st[S] EXCEPT !.cursor = CursorAfter(e), !.eof = f]
  <2>1. CursorAfter(e) = IF e = "closed" THEN "done" ELSE "open"
    BY DEF CursorAfter
  <2>2. /\ n \in Stmt /\ n.phase = "open" /\ n.id = H /\ n.descriptorSent = st[S].descriptorSent
        /\ n.cursor = CursorAfter(e) /\ n.eof = f
        /\ st' = [st EXCEPT ![S] = n]
    <3>1. st \in [Statements -> Stmt]
      BY DEF SInv, TypeOK
    <3>2. st' = [st EXCEPT ![S] = n]
      BY <1>1, <1>4, <3>1
    <3>3. CursorAfter(e) \in {"open", "done"} /\ f \in BOOLEAN
      BY <1>4, <2>1
    <3>4. n \in Stmt /\ n.phase = "open" /\ n.id = H /\ n.descriptorSent = st[S].descriptorSent
      BY <1>1, <3>3 DEF Stmt
    <3>5. n.cursor = CursorAfter(e) /\ n.eof = f
      BY <1>1, <3>3 DEF Stmt
    <3> QED
      BY <3>2, <3>4, <3>5
  <2> HIDE DEF n
  <2>3. Assigns(S, n, H)
    BY <1>1, <2>2 DEF Assigns
  <2>4. Fits(S, n)
    BY <1>0, <1>2, <1>4, <2>1, <2>2 DEF Fits
  <2>5. n.cursor = "open" <=> H \in cursors'
    <3>1. Served(S)
      BY <1>0, <1>4, AtRequest
    <3>2. st[S].cursor = "open" <=> H \in cursors
      BY <1>1, <3>1 DEF Served
    <3> QED
      BY <1>1, <1>4, <2>1, <2>2, <3>2
  <2>6. Answered(S, n, H)
    <3>1. Served(S) /\ ~Deleting(S)
      BY <1>0, <1>4, AtRequest DEF Deleting
    <3>2. /\ n.phase = "open" => rpb[H] = S
          /\ n.descriptorSent => descriptor[H] = S
          /\ ~n.descriptorSent => descriptor[H] = NoStmt
      BY <1>1, <2>2, <3>1 DEF Served
    <3>3. \A g \in Handles : g # H => (g \in cursors' <=> g \in cursors)
      BY <1>4
    <3>4. n.phase # "free" /\ op'.stage # "deleteRPB"
      BY <1>2, <2>2
    <3> QED
      BY <1>4, <2>5, <3>2, <3>3, <3>4 DEF Answered
  <2> QED
    BY <1>0, <1>1, <1>2, <2>2, <2>3, <2>4, <2>6, StmtStep
<1>5. ASSUME UNCHANGED <<st, cursors, broken>> PROVE Kept
  BY <1>0, <1>1, <1>2, <1>5, OtherStep DEF Usable
<1>6. ASSUME IOFails, UNCHANGED st PROVE Kept
  BY <1>0, <1>1, <1>2, <1>6, OtherStep DEF Usable, IOFails
<1>7. Kept
  BY <1>4, <1>5, <1>6 DEF Blocks
<1> QED
  BY <1>3, <1>7, KeptTyped

LEMMA StepBlock == SInv /\ (Open \/ Fetch) => SInv'
<1> SUFFICES ASSUME SInv, Open \/ Fetch PROVE SInv'
  OBVIOUS
<1>1. {} \in SUBSET Errors /\ {"io"} \in SUBSET Errors /\ {"server"} \in SUBSET Errors
      /\ {ConnError} \in SUBSET Errors
  BY DEF Errors, ConnError
<1>2. op.stage \in {"open", "fetch"}
      /\ UNCHANGED <<ids, inTx, closed, rpb, descriptor, autocommit, work>>
  BY DEF Open, Fetch
<1>3. PICK errs \in SUBSET Errors : Proceed("idle", errs)
  BY <1>1 DEF Open, Fetch
<1>4. \/ Blocks
      \/ UNCHANGED <<st, cursors, broken>>
      \/ IOFails /\ UNCHANGED st /\ cursors' \in {cursors, cursors \ {H}, cursors \union {H}}
  <2>1. CASE Open
    <3>1. ASSUME Usable, UNCHANGED broken, NEW e \in BlockEnds,
                 st' = [st EXCEPT ![S].cursor = CursorAfter(e), ![S].eof = e \in {"end", "closed"}],
                 cursors' = IF e = "closed" THEN cursors \ {H} ELSE cursors \union {H},
                 op.stage = "open"
          PROVE Blocks
      <4> DEFINE f == e \in {"end", "closed"}
      <4>1. f \in BOOLEAN /\ (e = "closed" => f) /\ st' = [st EXCEPT ![S].cursor = CursorAfter(e), ![S].eof = f]
        BY <3>1
      <4> HIDE DEF f
      <4> QED
        BY <3>1, <4>1 DEF Blocks
    <3> QED
      BY <2>1, <3>1 DEF Open
  <2>2. CASE Fetch
    <3>1. ASSUME Usable, UNCHANGED broken, NEW e \in BlockEnds,
                 st' = [st EXCEPT ![S].cursor = CursorAfter(e), ![S].eof = e # "more"],
                 cursors' = IF e = "closed" THEN cursors \ {H} ELSE cursors,
                 op.stage = "fetch"
          PROVE Blocks
      <4> DEFINE f == e # "more"
      <4>1. f \in BOOLEAN /\ (e = "closed" => f) /\ st' = [st EXCEPT ![S].cursor = CursorAfter(e), ![S].eof = f]
        BY <3>1
      <4> HIDE DEF f
      <4> QED
        BY <3>1, <4>1 DEF Blocks
    <3> QED
      BY <2>2, <3>1 DEF Fetch
  <2> QED
    BY <2>1, <2>2
<1> QED
  BY <1>2, <1>3, <1>4, BlockStep

LEMMA StepDeleteDescriptor == SInv /\ DeleteDescriptor => SInv'
<1> SUFFICES ASSUME SInv, DeleteDescriptor PROVE SInv'
  OBVIOUS
<1>0. /\ Typed /\ op.stage \in StmtStages /\ {"idle", "deleteRPB"} \subseteq Stages
      /\ {} \in SUBSET Errors /\ {"io"} \in SUBSET Errors /\ {ConnError} \in SUBSET Errors
  BY IsTyped DEF DeleteDescriptor, StmtStages, Errors, Stages, ConnError
<1>1. S \in Statements /\ st[S] \in Stmt /\ st[S].phase = "closing" /\ H \in Handles
      /\ st[S].id = H /\ Shape("deleteDescriptor", op.name, st[S])
      /\ (st[S].cursor = "done" => st[S].eof)
  BY <1>0, AtRequest DEF DeleteDescriptor, Shape
<1> DEFINE deleted == [descriptor EXCEPT ![H] = NoStmt]
<1>2. deleted \in [Handles -> Statements \union {NoStmt}]
  BY <1>0 DEF Typed
<1>3. CASE /\ Usable /\ descriptor' = deleted /\ Proceed("deleteRPB", {})
           /\ UNCHANGED <<ids, st, broken, inTx, closed, rpb, cursors, autocommit, work>>
  <2>1. op' \in Op /\ op'.stage = "deleteRPB" /\ op'.name = op.name /\ op'.stmt = S
    BY <1>0, <1>3, ProceedOp DEF Typed, S
  <2>2. Assigns(S, st[S], H)
    BY <1>1, <1>3 DEF Assigns
  <2>3. Fits(S, st[S])
    BY <1>1, <2>1 DEF Fits, StmtStages, Shape
  <2>4. Answered(S, st[S], H)
    <3>1. Served(S)
      BY <1>0, <1>3, AtRequest
    <3>2. st[S].cursor = "open" <=> H \in cursors
      BY <1>1, <3>1 DEF Served
    <3> QED
      BY <1>0, <1>1, <1>3, <2>1, <3>2 DEF Answered, Typed
  <2>5. Kept
    BY <1>0, <1>1, <1>3, <2>1, <2>2, <2>3, <2>4, AtRequest, StmtStep
  <2> QED
    BY <1>0, <1>2, <1>3, <2>1, <2>5, KeptTyped DEF Typed
<1>4. CASE /\ \/ IOFails /\ descriptor' \in {descriptor, deleted} /\ Proceed("idle", {"io"})
              \/ ~Usable /\ Proceed("idle", {ConnError}) /\ UNCHANGED <<descriptor, broken>>
           /\ Release(S)
           /\ UNCHANGED <<inTx, closed, rpb, cursors, autocommit, work>>
  <2>1. op' \in Op /\ op'.stage = "idle"
    BY <1>0, <1>4, ProceedOp DEF Typed
  <2>2. ~Usable'
    BY <1>4 DEF IOFails, Usable
  <2>3. Kept
    BY <1>0, <1>4, <2>1, <2>2, ReleaseStep
  <2> QED
    BY <1>0, <1>2, <1>4, <2>1, <2>3, KeptTyped DEF Typed, IOFails
<1> QED
  BY <1>3, <1>4 DEF DeleteDescriptor

LEMMA StepDeleteRPB == SInv /\ DeleteRPB => SInv'
<1> SUFFICES ASSUME SInv, DeleteRPB PROVE SInv'
  OBVIOUS
<1>0. /\ Typed /\ op.stage \in StmtStages /\ "idle" \in Stages /\ {} \in SUBSET Errors
      /\ \A e \in {"server", "io", ConnError} : ReleaseErrors(e) \in SUBSET Errors
  BY IsTyped DEF DeleteRPB, StmtStages, Errors, Stages, ConnError, ReleaseErrors
<1>1. S \in Statements /\ st[S].phase = "closing" /\ H \in Handles
      /\ st[S].id = H /\ st[S].cursor # "open"
  BY <1>0, AtRequest DEF DeleteRPB, Shape
<1> DEFINE deleted == [rpb EXCEPT ![H] = NoStmt]
<1>2. deleted \in [Handles -> Statements \union {NoStmt, "created"}]
  BY <1>0 DEF Typed
<1>3. /\ Release(S)
      /\ UNCHANGED <<inTx, closed, descriptor, cursors, autocommit, work>>
      /\ rpb' \in {rpb, deleted}
      /\ broken' \in BOOLEAN
      /\ Usable' => Usable /\ (rpb' = deleted \/ "deleteRPB" \in Refusals)
  BY <1>0 DEF DeleteRPB, Refused, IOFails, Usable, Typed
<1>4. PICK errs \in SUBSET Errors : Proceed("idle", errs)
  BY <1>0 DEF DeleteRPB
<1>5. op' \in Op /\ op'.stage = "idle"
  BY <1>0, <1>4, ProceedOp DEF Typed
<1>6. ASSUME Usable'
      PROVE  /\ Usable
             /\ \A g \in Handles : g # H =>
                   /\ rpb'[g] = rpb[g] /\ descriptor'[g] = descriptor[g]
                   /\ g \in cursors' <=> g \in cursors
             /\ "deleteRPB" \notin Refusals => rpb'[H] = NoStmt
             /\ descriptor'[H] = NoStmt /\ H \notin cursors'
  <2>1. Usable
    BY <1>3, <1>6
  <2>2. Served(S) /\ Deleting(S)
    BY <1>0, <2>1, AtRequest DEF Deleting, DeleteRPB
  <2>3. descriptor[H] = NoStmt /\ H \notin cursors
    BY <1>1, <2>2 DEF Served
  <2>4. rpb' = deleted => rpb'[H] = NoStmt
    BY <1>0, <1>1 DEF Typed
  <2> QED
    BY <1>0, <1>3, <1>6, <2>1, <2>3, <2>4 DEF Typed
<1>7. Kept
  BY <1>0, <1>3, <1>5, <1>6, ReleaseStep
<1> QED
  BY <1>0, <1>2, <1>3, <1>5, <1>7, KeptTyped DEF Typed

-----------------------------------------------------------------------------
\* Calls that return at once, or whose first request is none for a statement.
LEMMA StartStep ==
  ASSUME SInv, Idle, NEW name \in Names, NEW s \in Statements \union {NoStmt},
         NEW stage \in Stages \ StmtStages, NEW errs \in SUBSET Errors,
         Start(name, s, stage, errs), UNCHANGED <<ids, inTx, broken, closed, st, job>>
  PROVE  SInv'
<1>1. op' \in Op /\ op'.stage = stage
  BY StartOp
<1>2. Kept
  BY <1>1, OtherStep DEF Idle, StmtStages, job, Usable
<1> QED
  BY <1>1, <1>2, IsTyped, KeptTyped DEF Typed, job

\* What is known of an open statement between calls.
LEMMA OpenStmt ==
  ASSUME SInv, Idle, NEW s \in Statements, st[s].phase = "open"
  PROVE  /\ st[s] \in Stmt /\ st[s].id \in ids /\ st[s].id \in Handles
         /\ st = [st EXCEPT ![s] = st[s]]
         /\ st[s].cursor = "done" => st[s].eof
         /\ Usable => Served(s) /\ ~Deleting(s)
  BY DEF SInv, TypeOK, Owners, CallShape, JobAgrees, Idle, Deleting

\* A call for an open statement begins with a request for it.
LEMMA StartStmt ==
  ASSUME SInv, Idle, NEW s \in Statements, st[s].phase = "open", NEW n \in Stmt,
         st' = [st EXCEPT ![s] = n], n.phase # "free", n.id = st[s].id,
         n.descriptorSent = st[s].descriptorSent,
         n.cursor = "open" <=> st[s].cursor = "open", n.cursor = "done" => n.eof,
         NEW name \in Names, NEW stage \in Stages, NEW errs \in SUBSET Errors,
         Start(name, s, stage, errs),
         \/ stage \in StmtStages /\ Shape(stage, name, n)
         \/ stage = "idle" /\ n.phase = "open",
         stage = "deleteRPB" => ~n.descriptorSent,
         UNCHANGED <<ids, inTx, broken, closed, job>>
  PROVE  SInv'
<1>1. op' \in Op /\ op'.stage = stage /\ op'.name = name /\ op'.stmt = s
  BY StartOp
<1>2. st[s].id \in Handles /\ (Usable => Served(s) /\ ~Deleting(s))
  BY OpenStmt
<1>3. Assigns(s, n, st[s].id)
  BY DEF Assigns
<1>4. Fits(s, n)
  BY <1>1 DEF Fits, StmtStages
<1>5. Answered(s, n, st[s].id)
  <2> SUFFICES ASSUME Usable' PROVE Answered(s, n, st[s].id)
    BY DEF Answered
  <2>1. Usable /\ UNCHANGED <<rpb, descriptor, cursors>>
    BY DEF Usable, job
  <2> QED
    BY <1>1, <1>2, <2>1 DEF Answered, Served
<1>6. Kept
  BY <1>1, <1>3, <1>4, <1>5, StmtStep
<1> QED
  BY <1>1, <1>6, IsTyped, KeptTyped DEF Typed, job

LEMMA StepPrepare == \A s \in Statements : SInv /\ Prepare(s) => SInv'
<1> SUFFICES ASSUME NEW s \in Statements, SInv, Prepare(s) PROVE SInv'
  OBVIOUS
<1>0. /\ Typed /\ Idle /\ st[s].phase = "free" /\ "prepare" \in Names
      /\ {} \in SUBSET Errors /\ {ConnError} \in SUBSET Errors /\ {"local"} \in SUBSET Errors
      /\ "idle" \in Stages \ StmtStages /\ "createRPB" \in Stages
      /\ UNCHANGED <<inTx, broken, closed, job>>
  BY IsTyped DEF Prepare, Names, Errors, Stages, StmtStages, ConnError
<1>1. ASSUME NEW errs \in SUBSET Errors, Start("prepare", s, "idle", errs), UNCHANGED <<ids, st>>
      PROVE  SInv'
  BY <1>0, <1>1, StartStep
<1>2. ASSUME Usable, NEW h \in FreeHandles, ids' = ids \union {h},
             st' = [st EXCEPT ![s] = [FreeStmt EXCEPT !.phase = "preparing", !.id = h]],
             Start("prepare", s, "createRPB", {})
      PROVE  SInv'
  <2> DEFINE n == [FreeStmt EXCEPT !.phase = "preparing", !.id = h]
  <2>0. h \in Handles \ ids
    BY DEF FreeHandles
  <2>1. n \in Stmt /\ n.phase = "preparing" /\ n.id = h /\ n.cursor = "none" /\ ~n.descriptorSent
    BY <2>0 DEF FreeStmt, Stmt
  <2>2. st' = [st EXCEPT ![s] = n]
    BY <1>2
  <2> HIDE DEF n
  <2>3. op' \in Op /\ op'.stage = "createRPB" /\ op'.name = "prepare" /\ op'.stmt = s
    BY <1>0, <1>2, StartOp
  <2>4. Assigns(s, n, h)
    BY <1>0, <1>2, <2>0, <2>1 DEF Assigns
  <2>5. Fits(s, n)
    BY <2>1, <2>3 DEF Fits, StmtStages, Shape
  <2>6. Answered(s, n, h)
    <3>1. Unused(h)
      BY <1>2, <2>0 DEF SInv, JobAgrees
    <3> QED
      BY <1>0, <1>2, <2>1, <2>3, <3>1 DEF Answered, Unused, job
  <2>7. Kept
    BY <1>0, <2>1, <2>2, <2>3, <2>4, <2>5, <2>6, StmtStep
  <2> QED
    BY <1>0, <2>3, <2>7, KeptTyped DEF Typed, job
<1> QED
  BY <1>0, <1>1, <1>2 DEF Prepare

LEMMA StepCloseStmt == \A s \in Statements : SInv /\ CloseStmt(s) => SInv'
<1> SUFFICES ASSUME NEW s \in Statements, SInv, CloseStmt(s) PROVE SInv'
  OBVIOUS
<1>0. /\ Typed /\ Idle /\ st[s].phase = "open" /\ "closeStmt" \in Names /\ {} \in SUBSET Errors
      /\ "idle" \in Stages /\ UNCHANGED <<inTx, broken, closed, job>>
  BY IsTyped DEF CloseStmt, Names, Errors, Stages
<1>1. CASE ~Usable /\ Release(s) /\ Start("closeStmt", s, "idle", {})
  <2>1. op' \in Op /\ op'.stage = "idle"
    BY <1>0, <1>1, StartOp
  <2>2. FreeStmt \in Stmt
    BY DEF FreeStmt, Stmt
  <2>3. st[s].id \in ids /\ st' = [st EXCEPT ![s] = FreeStmt] /\ ids' = ids \ {st[s].id}
    BY <1>0, <1>1, OpenStmt DEF Release
  <2>4. Assigns(s, FreeStmt, st[s].id)
    BY <1>0, <2>3 DEF Assigns
  <2>5. Fits(s, FreeStmt)
    BY <2>1 DEF Fits, FreeStmt, StmtStages
  <2>6. Answered(s, FreeStmt, st[s].id)
    BY <1>0, <1>1 DEF Answered, Usable
  <2>7. Kept
    BY <1>0, <2>1, <2>2, <2>3, <2>4, <2>5, <2>6, StmtStep
  <2> QED
    BY <1>0, <2>1, <2>7, KeptTyped DEF Typed, job
<1>2. CASE /\ st' = [st EXCEPT ![s].phase = "closing"]
           /\ Start("closeStmt", s, IF st[s].cursor = "open" THEN "closeCursor" ELSE AfterCursor(s), {})
           /\ UNCHANGED ids
  <2> DEFINE stage == IF st[s].cursor = "open" THEN "closeCursor" ELSE AfterCursor(s)
             n == [st[s] EXCEPT !.phase = "closing"]
  <2>1. /\ n \in Stmt /\ n.phase = "closing" /\ n.id = st[s].id /\ n.cursor = st[s].cursor
        /\ n.eof = st[s].eof /\ n.descriptorSent = st[s].descriptorSent
        /\ st' = [st EXCEPT ![s] = n]
    BY <1>0, <1>2, OpenStmt DEF SInv, TypeOK, Stmt
  <2> HIDE DEF n
  <2>2. stage \in Stages \cap StmtStages /\ Shape(stage, "closeStmt", n)
        /\ (stage = "deleteRPB" => ~n.descriptorSent)
    <3>1. CASE st[s].cursor = "open"
      BY <2>1, <3>1 DEF Stages, StmtStages, Shape
    <3>2. CASE st[s].cursor # "open"
      BY <2>1, <3>2, AfterCursorFits DEF Stages, StmtStages
    <3> QED
      BY <3>1, <3>2
  <2>3. Start("closeStmt", s, stage, {})
    BY <1>2
  <2> HIDE DEF stage
  <2>4. n.cursor = "done" => n.eof
    BY <1>0, <2>1, OpenStmt
  <2>5. (n.cursor = "open" <=> st[s].cursor = "open") /\ n.phase # "free"
    BY <2>1
  <2> QED
    BY <1>0, <1>2, <2>1, <2>2, <2>3, <2>4, <2>5, StartStmt
<1> QED
  BY <1>1, <1>2 DEF CloseStmt

LEMMA StepExec == \A s \in Statements : SInv /\ Exec(s) => SInv'
<1> SUFFICES ASSUME NEW s \in Statements, SInv, Exec(s) PROVE SInv'
  OBVIOUS
<1>0. /\ Idle /\ st[s].phase = "open" /\ "exec" \in Names /\ {ConnError} \in SUBSET Errors
      /\ "idle" \in Stages \ StmtStages /\ UNCHANGED <<ids, inTx, broken, closed, st, job>>
  BY DEF Exec, Names, Errors, Stages, StmtStages, ConnError
<1>1. CASE ~Usable /\ Start("exec", s, "idle", {ConnError})
  BY <1>0, <1>1, StartStep
<1>2. ASSUME NEW stage \in BindStages(s, "execute"), Start("exec", s, stage, BindErrors(stage))
      PROVE  SInv'
  <2>1. st[s] \in Stmt /\ st' = [st EXCEPT ![s] = st[s]] /\ (st[s].cursor = "done" => st[s].eof)
    BY <1>0, OpenStmt
  <2>2. /\ stage \in {"idle", "changeDescriptor", "execute"} /\ Shape(stage, "exec", st[s])
        /\ BindErrors(stage) \in SUBSET Errors
    <3>1. "exec" = IF "execute" = "open" THEN "query" ELSE "exec"
      OBVIOUS
    <3> QED
      BY <1>0, <1>2, <2>1, <3>1, BindStagesFit
  <2>3. stage \in Stages /\ stage # "deleteRPB" /\ st[s].phase # "free"
        /\ ((stage \in StmtStages /\ Shape(stage, "exec", st[s])) \/ (stage = "idle" /\ st[s].phase = "open"))
    BY <1>0, <2>2 DEF Stages, StmtStages
  <2> QED
    BY <1>0, <1>2, <2>1, <2>2, <2>3, StartStmt
<1> QED
  BY <1>1, <1>2 DEF Exec

LEMMA StepQuery == \A s \in Statements : SInv /\ Query(s) => SInv'
<1> SUFFICES ASSUME NEW s \in Statements, SInv, Query(s) PROVE SInv'
  OBVIOUS
<1>0. /\ Idle /\ st[s].phase = "open" /\ "query" \in Names
      /\ {} \in SUBSET Errors /\ {ConnError} \in SUBSET Errors /\ "closeCursor" \in Stages
      /\ "idle" \in Stages \ StmtStages /\ UNCHANGED <<ids, inTx, broken, closed, job>>
  BY DEF Query, Names, Errors, Stages, StmtStages, ConnError
<1>1. st[s] \in Stmt /\ st = [st EXCEPT ![s] = st[s]] /\ (st[s].cursor = "done" => st[s].eof)
  BY <1>0, OpenStmt
<1>2. CASE Start("query", s, "idle", {ConnError}) /\ UNCHANGED st
  BY <1>0, <1>2, StartStep
<1>3. CASE st[s].cursor = "open" /\ Start("query", s, "closeCursor", {}) /\ UNCHANGED st
  <2>1. "closeCursor" \in StmtStages /\ Shape("closeCursor", "query", st[s])
        /\ "closeCursor" # "deleteRPB" /\ st[s].phase # "free" /\ st' = [st EXCEPT ![s] = st[s]]
    BY <1>0, <1>1, <1>3 DEF StmtStages, Shape
  <2> QED
    BY <1>0, <1>1, <1>3, <2>1, StartStmt
<1>4. ASSUME st[s].cursor # "open", st' = [st EXCEPT ![s].cursor = "none", ![s].eof = FALSE],
             NEW stage \in BindStages(s, "open"), Start("query", s, stage, BindErrors(stage))
      PROVE  SInv'
  <2> DEFINE n == [st[s] EXCEPT !.cursor = "none", !.eof = FALSE]
  <2>1. /\ n \in Stmt /\ n.phase = "open" /\ n.id = st[s].id /\ n.cursor = "none"
        /\ n.descriptorSent = st[s].descriptorSent
        /\ st' = [st EXCEPT ![s] = n]
    <3>1. st[s] \in Stmt /\ st \in [Statements -> Stmt]
      BY <1>1 DEF SInv, TypeOK
    <3>2. st' = [st EXCEPT ![s] = n]
      BY <1>4, <3>1
    <3> QED
      BY <1>0, <3>1, <3>2 DEF Stmt
  <2> HIDE DEF n
  <2>2. /\ stage \in {"idle", "changeDescriptor", "open"} /\ Shape(stage, "query", n)
        /\ BindErrors(stage) \in SUBSET Errors
    <3>1. n.cursor # "open" /\ "query" = IF "open" = "open" THEN "query" ELSE "exec"
      BY <2>1
    <3> QED
      BY <1>0, <1>1, <1>4, <2>1, <3>1, BindStagesFit
  <2>3. stage \in Stages /\ stage # "deleteRPB" /\ n.phase # "free"
        /\ ((stage \in StmtStages /\ Shape(stage, "query", n)) \/ (stage = "idle" /\ n.phase = "open"))
    BY <2>1, <2>2 DEF Stages, StmtStages
  <2>4. (n.cursor = "open" <=> st[s].cursor = "open") /\ (n.cursor = "done" => n.eof)
    BY <1>4, <2>1
  <2> QED
    BY <1>0, <1>4, <2>1, <2>2, <2>3, <2>4, StartStmt
<1> QED
  BY <1>2, <1>3, <1>4 DEF Query

LEMMA StepNextBlock == \A s \in Statements : SInv /\ NextBlock(s) => SInv'
<1> SUFFICES ASSUME NEW s \in Statements, SInv, NextBlock(s) PROVE SInv'
  OBVIOUS
<1>0. /\ Idle /\ st[s].phase = "open" /\ "next" \in Names /\ {} \in SUBSET Errors
      /\ "fetch" \in Stages /\ "fetch" \in StmtStages /\ "fetch" # "deleteRPB"
      /\ Start("next", s, "fetch", {}) /\ UNCHANGED <<ids, inTx, broken, closed, job>>
  BY DEF NextBlock, Names, Errors, Stages, StmtStages
<1>1. /\ st[s] \in Stmt /\ st' = [st EXCEPT ![s] = st[s]] /\ (st[s].cursor = "done" => st[s].eof)
      /\ st[s].phase # "free"
  BY <1>0, OpenStmt DEF NextBlock
<1>2. Shape("fetch", "next", st[s])
  BY <1>0, <1>1 DEF NextBlock, Shape, Stmt
<1> QED
  BY <1>0, <1>1, <1>2, StartStmt

LEMMA StepCloseRows == \A s \in Statements : SInv /\ CloseRows(s) => SInv'
<1> SUFFICES ASSUME NEW s \in Statements, SInv, CloseRows(s) PROVE SInv'
  OBVIOUS
<1>0. /\ Typed /\ Idle /\ st[s].phase = "open" /\ "closeRows" \in Names /\ {} \in SUBSET Errors
      /\ "closeCursor" \in Stages /\ "closeCursor" \in StmtStages /\ "closeCursor" # "deleteRPB"
      /\ "idle" \in Stages /\ UNCHANGED <<ids, inTx, broken, closed, job>>
  BY IsTyped DEF CloseRows, Names, Errors, Stages, StmtStages
<1>1. /\ st[s] \in Stmt /\ st = [st EXCEPT ![s] = st[s]] /\ (st[s].cursor = "done" => st[s].eof)
      /\ st[s].id \in Handles /\ (Usable => Served(s) /\ ~Deleting(s))
  BY <1>0, OpenStmt
<1>2. CASE st[s].cursor = "open" /\ Start("closeRows", s, "closeCursor", {}) /\ UNCHANGED st
  <2>1. Shape("closeCursor", "closeRows", st[s]) /\ st[s].phase # "free" /\ st' = [st EXCEPT ![s] = st[s]]
    BY <1>0, <1>1, <1>2 DEF Shape
  <2> QED
    BY <1>0, <1>1, <1>2, <2>1, StartStmt
<1>3. CASE /\ ~(Usable /\ st[s].cursor = "open") /\ Start("closeRows", s, "idle", {})
           /\ st' = [st EXCEPT ![s].cursor = "none", ![s].eof = FALSE]
  <2> DEFINE n == [st[s] EXCEPT !.cursor = "none", !.eof = FALSE]
  <2>1. /\ n \in Stmt /\ n.phase = "open" /\ n.id = st[s].id /\ n.cursor = "none"
        /\ n.descriptorSent = st[s].descriptorSent
        /\ st' = [st EXCEPT ![s] = n]
    <3>1. st[s] \in Stmt /\ st \in [Statements -> Stmt]
      BY <1>1 DEF SInv, TypeOK
    <3>2. st' = [st EXCEPT ![s] = n]
      BY <1>3, <3>1
    <3> QED
      BY <1>0, <3>1, <3>2 DEF Stmt
  <2> HIDE DEF n
  <2>2. op' \in Op /\ op'.stage = "idle"
    BY <1>0, <1>3, StartOp
  <2>3. Assigns(s, n, st[s].id)
    BY <1>0, <2>1 DEF Assigns
  <2>4. Fits(s, n)
    BY <2>1, <2>2 DEF Fits, StmtStages
  <2>5. Answered(s, n, st[s].id)
    <3> SUFFICES ASSUME Usable' PROVE Answered(s, n, st[s].id)
      BY DEF Answered
    <3>1. Usable /\ UNCHANGED <<rpb, descriptor, cursors>>
      BY <1>0 DEF Usable, job
    <3>2. st[s].cursor # "open" /\ Served(s) /\ ~Deleting(s)
      BY <1>1, <1>3, <3>1
    <3> QED
      BY <1>0, <2>1, <2>2, <3>1, <3>2 DEF Answered, Served
  <2>6. Kept
    BY <1>0, <2>1, <2>2, <2>3, <2>4, <2>5, StmtStep
  <2> QED
    BY <1>0, <2>2, <2>6, KeptTyped DEF Typed, job
<1> QED
  BY <1>2, <1>3 DEF CloseRows

LEMMA StepCall == SInv /\ (Ping \/ Begin \/ \E name \in {"commit", "rollback"} : EndTransaction(name)) => SInv'
<1> SUFFICES ASSUME SInv, Ping \/ Begin \/ \E name \in {"commit", "rollback"} : EndTransaction(name)
             PROVE  SInv'
  OBVIOUS
<1>1. Idle /\ UNCHANGED <<ids, inTx, broken, closed, st, job>>
  BY DEF Ping, Begin, EndTransaction
<1>2. \E name \in Names, stage \in Stages \ StmtStages, errs \in SUBSET Errors :
         Start(name, NoStmt, stage, errs)
  <2>1. /\ {"ping", "begin", "commit", "rollback"} \subseteq Names
        /\ {"ping", "begin", "commit", "rollback", "idle"} \subseteq Stages \ StmtStages
        /\ {} \in SUBSET Errors /\ {"local"} \in SUBSET Errors
    BY DEF Names, Stages, StmtStages, Errors
  <2>2. CASE Ping
    BY <2>1, <2>2 DEF Ping
  <2>3. CASE Begin
    BY <2>1, <2>3 DEF Begin
  <2>4. ASSUME NEW name \in {"commit", "rollback"}, EndTransaction(name) PROVE <1>2
    BY <2>1, <2>4 DEF EndTransaction
  <2> QED
    BY <2>2, <2>3, <2>4
<1> QED
  BY <1>1, <1>2, StartStep

LEMMA StepClose == SInv /\ Close => SInv'
<1> SUFFICES ASSUME SInv, Close PROVE SInv'
  OBVIOUS
<1>0. Typed /\ "close" \in Names /\ "idle" \in Stages /\ {} \in SUBSET Errors
  BY IsTyped DEF Names, Stages, Errors
<1>1. op' \in Op /\ op'.stage = "idle"
  BY <1>0, StartOp DEF Close
<1>2. Kept
  BY <1>1, OtherStep DEF Close, Idle, StmtStages, Usable
<1>3. Typed'
  BY <1>0, <1>1 DEF Close, Typed
<1> QED
  BY <1>2, <1>3, KeptTyped

Ends == PingJob \/ AutocommitOff \/ CommitWork \/ RollbackWork \/ AutocommitOn

LEMMA StepEnds == SInv /\ Ends => SInv'
<1> SUFFICES ASSUME SInv, Ends PROVE SInv'
  OBVIOUS
<1>0. /\ Typed /\ {"idle", "rollback", "autocommit"} \subseteq Stages \ StmtStages
      /\ {} \in SUBSET Errors /\ {"io"} \in SUBSET Errors /\ {"server"} \in SUBSET Errors
      /\ {ConnError} \in SUBSET Errors
  BY IsTyped DEF Stages, StmtStages, Errors, ConnError
<1>1. op.stage \notin StmtStages
  BY DEF Ends, PingJob, AutocommitOff, CommitWork, RollbackWork, AutocommitOn, StmtStages
<1>2. \E stage \in Stages \ StmtStages, errs \in SUBSET Errors : Proceed(stage, errs)
  <2>1. CASE PingJob
    BY <1>0, <2>1 DEF PingJob
  <2>2. CASE AutocommitOff
    BY <1>0, <2>2 DEF AutocommitOff
  <2>3. CASE CommitWork
    BY <1>0, <2>3 DEF CommitWork, AfterFailedCommit
  <2>4. CASE RollbackWork
    <3>1. \A e \in {"server", ConnError} : AfterFailedRollback(e) => <1>2
      BY <1>0 DEF AfterFailedRollback
    <3> QED
      BY <1>0, <2>4, <3>1 DEF RollbackWork
  <2>5. CASE AutocommitOn
    BY <1>0, <2>5 DEF AutocommitOn, Unrestored
  <2> QED
    BY <2>1, <2>2, <2>3, <2>4, <2>5 DEF Ends
<1>3. op' \in Op /\ op'.stage \notin StmtStages
  BY <1>0, <1>2, ProceedOp DEF Typed
<1>4. UNCHANGED <<ids, closed, st, rpb, descriptor, cursors>>
  BY DEF Ends, PingJob, AutocommitOff, CommitWork, RollbackWork, AutocommitOn, job
<1>5. broken' \in BOOLEAN /\ (~broken' => ~broken)
  <2>1. CASE PingJob
    BY <1>0, <2>1 DEF PingJob, Typed, IOFails
  <2>2. CASE AutocommitOff
    BY <1>0, <2>2 DEF AutocommitOff, Typed, IOFails
  <2>3. CASE CommitWork
    BY <1>0, <2>3 DEF CommitWork, Typed, IOFails
  <2>4. CASE RollbackWork
    BY <1>0, <2>4 DEF RollbackWork, AfterFailedRollback, Typed, IOFails
  <2>5. CASE AutocommitOn
    BY <1>0, <2>5 DEF AutocommitOn, Unrestored, Typed
  <2> QED
    BY <2>1, <2>2, <2>3, <2>4, <2>5 DEF Ends
<1>6. inTx' \in BOOLEAN /\ autocommit' \in BOOLEAN /\ work' \in {"none", "pending", "committed", "rolledback"}
  <2>1. CASE PingJob
    BY <1>0, <2>1 DEF PingJob, Typed, job
  <2>2. CASE AutocommitOff
    BY <1>0, <2>2 DEF AutocommitOff, Typed
  <2>3. CASE CommitWork
    BY <1>0, <2>3 DEF CommitWork, Typed
  <2>4. CASE RollbackWork
    BY <1>0, <2>4 DEF RollbackWork, Typed
  <2>5. CASE AutocommitOn
    BY <1>0, <2>5 DEF AutocommitOn, Unrestored, Typed
  <2> QED
    BY <2>1, <2>2, <2>3, <2>4, <2>5 DEF Ends
<1>7. Kept
  BY <1>1, <1>3, <1>4, <1>5, OtherStep DEF Usable
<1>8. Typed'
  BY <1>0, <1>3, <1>4, <1>5, <1>6 DEF Typed
<1> QED
  BY <1>7, <1>8, KeptTyped

-----------------------------------------------------------------------------
LEMMA InitSInv == Init => SInv
<1> SUFFICES ASSUME Init PROVE SInv
  OBVIOUS
<1>1. FreeStmt \in Stmt /\ FreeStmt.phase = "free" /\ FreeStmt.cursor = "none"
      /\ FreeStmt.id = NoHandle
  BY DEF FreeStmt, Stmt
<1>2. st \in [Statements -> Stmt] /\ \A s \in Statements : st[s] = FreeStmt
  BY <1>1 DEF Init
<1>3. op.stage = "idle" /\ "idle" \notin StmtStages /\ op \in Op
  BY DEF Init, StmtStages, Op, Names, Stages
<1>4. TypeOK
  BY <1>2, <1>3 DEF Init, TypeOK
<1>5. CallShape
  BY <1>1, <1>2, <1>3 DEF CallShape
<1>6. Owners
  BY <1>1, <1>2 DEF Init, Owners
<1>7. JobAgrees
  BY <1>1, <1>2 DEF Init, JobAgrees, Unused
<1> QED
  BY <1>4, <1>5, <1>6, <1>7 DEF SInv

LEMMA StepSInv == SInv /\ [Next]_vars => SInv'
<1> SUFFICES ASSUME SInv, [Next]_vars PROVE SInv'
  OBVIOUS
<1>1. CASE UNCHANGED vars
  <2>1. TypeOK'
    BY <1>1 DEF vars, job, SInv, TypeOK
  <2>2. CallShape'
    BY <1>1 DEF vars, job, SInv, CallShape, S
  <2>3. Owners'
    BY <1>1 DEF vars, job, SInv, Owners
  <2>4. JobAgrees'
    BY <1>1 DEF vars, job, SInv, JobAgrees, Served, Unused, Usable, Deleting
  <2> QED
    BY <2>1, <2>2, <2>3, <2>4 DEF SInv
<1>2. ASSUME NEW s \in Statements,
             Prepare(s) \/ CloseStmt(s) \/ Exec(s) \/ Query(s) \/ NextBlock(s) \/ CloseRows(s)
      PROVE  SInv'
  BY <1>2, StepPrepare, StepCloseStmt, StepExec, StepQuery, StepNextBlock, StepCloseRows
<1>3. CASE \/ CreateRPB \/ PrepareDescribe \/ CloseCursor \/ ChangeDescriptor \/ Execute \/ Open
           \/ Fetch \/ DeleteDescriptor \/ DeleteRPB
  BY <1>3, StepCreateRPB, StepPrepareDescribe, StepCloseCursor, StepChangeDescriptor, StepExecute,
     StepBlock, StepDeleteDescriptor, StepDeleteRPB
<1>4. CASE \/ Ping \/ Begin \/ Close \/ \E name \in {"commit", "rollback"} : EndTransaction(name)
           \/ PingJob \/ AutocommitOff \/ CommitWork \/ RollbackWork \/ AutocommitOn
  BY <1>4, StepCall, StepClose, StepEnds DEF Ends
<1> QED
  BY <1>1, <1>2, <1>3, <1>4 DEF Next

\* The job has what the Stmts say: their handles, RPBs, descriptors and cursors,
\* at every request of every call, as long as the connection is usable.
THEOREM InvCorrect == Spec => []SInv
<1> QED
  BY InitSInv, StepSInv, PTL DEF Spec

-----------------------------------------------------------------------------
\* The types of the connection, its statements, the call in progress and the job.
THEOREM TypeCorrect == Spec => []TypeOK
<1>1. SInv => TypeOK
  BY DEF SInv
<1> QED
  BY <1>1, InvCorrect, PTL

\* No parameter descriptor is left under a free handle or describes another's markers.
THEOREM DescriptorsExact == Spec => []DescriptorsAgree
<1>1. SInv => DescriptorsAgree
  <2> SUFFICES ASSUME SInv, Settled, NEW h \in Handles
               PROVE  descriptor[h] # NoStmt <=> \E s \in Statements :
                         st[s].id = h /\ st[s].descriptorSent /\ descriptor[h] = s
    BY DEF DescriptorsAgree
  <2>1. Usable /\ \A s : ~Deleting(s)
    BY DEF Settled, Idle, Deleting
  <2>2. CASE h \in ids
    <3>1. PICK s \in Statements : st[s].id = h
      BY <2>2 DEF SInv, Owners
    <3>2. st[s].phase # "free"
      BY <3>1, DatabaseConnAssumption DEF SInv, Owners, FreeStmt, NoHandle, Handles
    <3>3. Served(s)
      BY <2>1, <3>2 DEF SInv, JobAgrees
    <3>4. \A t \in Statements : st[t].id = h => t = s
      BY <3>1, <3>2 DEF SInv, Owners
    <3> QED
      BY <2>1, <3>1, <3>3, <3>4, DatabaseConnAssumption DEF Served
  <2>3. CASE h \notin ids
    <3>1. descriptor[h] = NoStmt
      BY <2>1, <2>3 DEF SInv, JobAgrees, Unused
    <3> QED
      BY <3>1, DatabaseConnAssumption
  <2> QED
    BY <2>2, <2>3
<1> QED
  BY <1>1, InvCorrect, PTL

\* The job's open cursors are those whose Rows will close them.
THEOREM CursorsExact == Spec => []CursorsAgree
<1>1. SInv => CursorsAgree
  <2> SUFFICES ASSUME SInv, Settled
               PROVE  cursors = {st[s].id : s \in {t \in Statements : st[t].cursor = "open"}}
    BY DEF CursorsAgree
  <2>1. Usable /\ cursors \subseteq Handles
    BY DEF Settled, SInv, TypeOK
  <2>2. ASSUME NEW h \in cursors PROVE \E s \in Statements : st[s].cursor = "open" /\ st[s].id = h
    <3>1. h \in ids
      BY <2>1 DEF SInv, JobAgrees, Unused
    <3>2. PICK s \in Statements : st[s].id = h
      BY <3>1 DEF SInv, Owners
    <3>3. st[s].phase # "free"
      BY <2>1, <3>2, DatabaseConnAssumption DEF SInv, Owners, FreeStmt, NoHandle, Handles
    <3> QED
      BY <2>1, <3>2, <3>3 DEF SInv, JobAgrees, Served
  <2>3. ASSUME NEW s \in Statements, st[s].cursor = "open" PROVE st[s].id \in cursors
    <3>1. st[s].phase # "free"
      BY <2>3 DEF SInv, Owners, FreeStmt
    <3> QED
      BY <2>1, <2>3, <3>1 DEF SInv, JobAgrees, Served
  <2> QED
    BY <2>2, <2>3
<1> QED
  BY <1>1, InvCorrect, PTL

\* Unless the server refuses DELETE_RPB, its RPBs are those of the open Stmts.
THEOREM HandlesExact ==
    ASSUME "deleteRPB" \notin Refusals
    PROVE  Spec => []HandlesAgree
<1>1. SInv => HandlesAgree
  <2> SUFFICES ASSUME SInv, Settled
               PROVE  /\ \A h \in Handles : h \in ids <=> \E s \in Statements : st[s].id = h
                      /\ \A h \in Handles : rpb[h] = NoStmt <=> h \notin ids
                      /\ \A s \in Statements : st[s].phase = "open" => rpb[st[s].id] = s
    BY DEF HandlesAgree
  <2>1. Usable /\ \A s \in Statements : st[s] \in Stmt /\ st[s].phase \in {"free", "open"}
    BY DEF Settled, Idle, SInv, CallShape, TypeOK, Stmt, StmtStages
  <2>2. ASSUME NEW s \in Statements, NEW h \in Handles, st[s].id = h PROVE st[s].phase = "open" /\ h \in ids
    <3>1. st[s].phase # "free"
      BY <2>2, DatabaseConnAssumption DEF SInv, Owners, FreeStmt, NoHandle, Handles
    <3> QED
      BY <2>1, <2>2, <3>1 DEF SInv, Owners
  <2>3. \A s \in Statements : st[s].phase = "open" => rpb[st[s].id] = s
    BY <2>1 DEF SInv, JobAgrees, Served
  <2>4. \A h \in Handles : h \in ids <=> \E s \in Statements : st[s].id = h
    BY <2>2 DEF SInv, Owners
  <2>5. ASSUME NEW h \in Handles PROVE rpb[h] = NoStmt <=> h \notin ids
    <3>1. CASE h \in ids
      <4>1. PICK s \in Statements : st[s].id = h
        BY <2>4, <3>1
      <4> QED
        BY <2>2, <2>3, <3>1, <4>1, DatabaseConnAssumption
    <3>2. CASE h \notin ids
      BY <2>1, <3>2 DEF SInv, JobAgrees, Unused
    <3> QED
      BY <3>1, <3>2
  <2> QED
    BY <2>3, <2>4, <2>5
<1> QED
  BY <1>1, InvCorrect, PTL

\* The RPB under an open statement's handle is prepared with its own SQL.
OwnText == Usable => \A s \in Statements : st[s].phase = "open" => rpb[st[s].id] = s

\* An open statement runs its own SQL, even under a handle whose last RPB the
\* server refused to delete: Prepare replaces what the job has under it.
THEOREM OwnTextRuns == Spec => []OwnText
<1>1. SInv => OwnText
  BY DEF SInv, JobAgrees, Served, OwnText
<1> QED
  BY <1>1, InvCorrect, PTL

-----------------------------------------------------------------------------
(***************************************************************************)
(* Transactions.  Here the statements do not matter, only which request a  *)
(* call is at, what it has met, and the two sides' idea of the transaction. *)
(***************************************************************************)
RunStages == {"createRPB", "prepare", "changeDescriptor", "execute", "open", "fetch"}

\* Which calls have come to which request.
TxShape ==
    /\ op.stage = "commit" => op.name = "commit"
    /\ op.stage \in {"rollback", "autocommit"} => op.name \in {"commit", "rollback"}
    /\ op.stage \in {"commit", "rollback", "autocommit"} => inTx
    /\ op.name \in {"commit", "rollback"} => op.stage \in {"idle", "commit", "rollback", "autocommit"}

\* How far a transaction is, and what a commit's errors tell of its work.
Transaction ==
    /\ Usable => (inTx <=> ~autocommit)
    /\ Usable /\ inTx /\ op.stage # "autocommit" => work \in {"none", "pending"}
    /\ op.stage = "commit" => op.errs = {}
    /\ op.stage = "rollback" /\ op.name = "commit" => op.errs # {} /\ "local" \notin op.errs
    /\ op.stage = "autocommit" /\ op.name = "commit" =>
          /\ Usable /\ "local" \notin op.errs
          /\ op.errs = {} => work \in {"none", "committed"}
          /\ op.errs # {} => work \in {"none", "rolledback"}
    /\ CommitHonest

\* Work is pending in a transaction only, and not when it is about to end.
Work == "rollback" \notin Refusals /\ Usable /\ (~inTx \/ op.stage = "autocommit") => work # "pending"

TInv == TxShape /\ Transaction /\ Work

\* A step that has to do with neither leaves both as they are.
LEMMA Unrelated ==
  ASSUME Typed, Typed', TInv, Usable' => Usable, inTx' = inTx, autocommit' = autocommit,
         op.stage \notin {"rollback", "autocommit"},
         op.stage = "commit" => UNCHANGED op,
         op'.stage \notin {"rollback", "autocommit"},
         \/ UNCHANGED op
         \/ op'.stage # "commit" /\ op'.name \notin {"commit", "rollback"}
         \/ op'.stage = "idle" /\ op'.errs = {"local"}
         \/ op'.stage = "commit" /\ op'.name = "commit" /\ inTx /\ op'.errs = {},
         work' = work \/ (work' = "pending" /\ ~autocommit /\ op'.name # "commit")
  PROVE  TInv'
  BY DEF TInv, TxShape, Transaction, Work, CommitHonest, Idle

LEMMA BothTyped == SInv /\ SInv' => Typed /\ Typed' /\ op \in Op
  BY DEF SInv, TypeOK, Typed

LEMMA TxRequest ==
  ASSUME SInv, SInv', TInv,
         \/ CreateRPB \/ PrepareDescribe \/ CloseCursor \/ ChangeDescriptor \/ Execute \/ Open
         \/ Fetch \/ DeleteDescriptor \/ DeleteRPB \/ PingJob
  PROVE  TInv'
<1>0. Typed /\ Typed' /\ op \in Op
  BY BothTyped
<1> DEFINE Away == {"idle", "prepare", "execute", "open", "changeDescriptor", "deleteDescriptor", "deleteRPB"}
<1>1. op.stage \in StmtStages \union {"ping"} /\ op.name \notin {"commit", "rollback"}
  BY DEF TInv, TxShape, CreateRPB, PrepareDescribe, CloseCursor, ChangeDescriptor, Execute, Open, Fetch,
     DeleteDescriptor, DeleteRPB, PingJob, StmtStages
<1>2. (Usable' => Usable) /\ inTx' = inTx /\ autocommit' = autocommit
  <2>1. UNCHANGED <<inTx, closed, autocommit>>
    BY DEF CreateRPB, PrepareDescribe, CloseCursor, ChangeDescriptor, Execute, Open, Fetch,
       DeleteDescriptor, DeleteRPB, PingJob, job
  <2>2. UNCHANGED broken \/ broken'
    BY DEF CreateRPB, PrepareDescribe, CloseCursor, ChangeDescriptor, Execute, Open, Fetch,
       DeleteDescriptor, DeleteRPB, PingJob, IOFails
  <2> QED
    BY <2>1, <2>2 DEF Usable
<1>3. work' = work \/ (work' = "pending" /\ ~autocommit)
  BY DEF CreateRPB, PrepareDescribe, CloseCursor, ChangeDescriptor, Execute, Open, Fetch,
     DeleteDescriptor, DeleteRPB, PingJob, job
<1>4. \E stage \in Away : \E errs : Proceed(stage, errs)
  <2>1. CASE CreateRPB \/ PrepareDescribe
    BY <2>1 DEF CreateRPB, PrepareDescribe
  <2>2. CASE CloseCursor
    BY <2>2 DEF CloseCursor, AfterCloseFails, AfterCursor, BindStages
  <2>3. CASE ChangeDescriptor \/ Execute
    BY <2>3 DEF ChangeDescriptor, Execute
  <2>4. CASE Open \/ Fetch
    BY <2>4 DEF Open, Fetch
  <2>5. CASE DeleteDescriptor \/ DeleteRPB \/ PingJob
    BY <2>5 DEF DeleteDescriptor, DeleteRPB, PingJob
  <2> QED
    BY <2>1, <2>2, <2>3, <2>4, <2>5
<1>5. op'.name = op.name /\ op'.stage \in Away
  BY <1>0, <1>4 DEF Proceed, Op
<1>6. op'.stage \notin {"commit", "rollback", "autocommit"}
      /\ op.stage \notin {"commit", "rollback", "autocommit"}
  BY <1>1, <1>5 DEF StmtStages
<1> HIDE DEF Away
<1> QED
  BY <1>0, <1>1, <1>2, <1>3, <1>5, <1>6, Unrelated

LEMMA TxStart ==
  ASSUME SInv, SInv', TInv,
         \/ \E s \in Statements :
               Prepare(s) \/ CloseStmt(s) \/ Exec(s) \/ Query(s) \/ NextBlock(s) \/ CloseRows(s)
         \/ Ping \/ Begin \/ Close \/ \E name \in {"commit", "rollback"} : EndTransaction(name)
  PROVE  TInv'
<1>0. Typed /\ Typed' /\ op \in Op
  BY BothTyped
<1>1. Idle
  BY DEF Prepare, CloseStmt, Exec, Query, NextBlock, CloseRows, Ping, Begin, Close, EndTransaction
<1>2. ASSUME NEW s \in Statements,
             Prepare(s) \/ CloseStmt(s) \/ Exec(s) \/ Query(s) \/ NextBlock(s) \/ CloseRows(s)
      PROVE  TInv'
  <2> DEFINE Others == {"prepare", "closeStmt", "exec", "query", "next", "closeRows"}
  <2>1. UNCHANGED <<inTx, broken, closed, autocommit, work>>
    BY <1>2 DEF Prepare, CloseStmt, Exec, Query, NextBlock, CloseRows, job
  <2>2. \E name \in Others, stage \in StmtStages \union {"idle"} : \E errs : Start(name, s, stage, errs)
    <3>1. CASE Prepare(s)
      BY <3>1 DEF Prepare, StmtStages
    <3>2. CASE CloseStmt(s)
      BY <3>2 DEF CloseStmt, AfterCursor, StmtStages
    <3>3. CASE Exec(s) \/ Query(s)
      BY <3>3 DEF Exec, Query, BindStages, StmtStages
    <3>4. CASE NextBlock(s) \/ CloseRows(s)
      BY <3>4 DEF NextBlock, CloseRows, StmtStages
    <3> QED
      BY <1>2, <3>1, <3>2, <3>3, <3>4
  <2>3. op'.name \in Others /\ op'.stage \in StmtStages \union {"idle"}
    BY <2>2 DEF Start
  <2>4. op'.name \notin {"commit", "rollback"} /\ op'.stage \notin {"commit", "rollback", "autocommit"}
    BY <2>3 DEF StmtStages
  <2> HIDE DEF Others
  <2> QED
    BY <1>0, <1>1, <2>1, <2>4, Unrelated DEF Idle, Usable
<1>3. CASE Ping \/ Begin
  <2>1. UNCHANGED <<inTx, broken, closed, autocommit, work>>
    BY <1>3 DEF Ping, Begin, job
  <2>2. op'.name \in {"ping", "begin"} /\ op'.stage \in {"idle", "ping", "begin"}
    BY <1>3 DEF Ping, Begin, Start
  <2> QED
    BY <1>0, <1>1, <2>1, <2>2, Unrelated DEF Idle, Usable
<1>4. CASE Close
  <2>1. op'.name = "close" /\ op'.stage = "idle" /\ ~Usable'
    BY <1>4 DEF Close, Start, Usable
  <2> QED
    BY <2>1 DEF TInv, TxShape, Transaction, Work, CommitHonest
<1>5. ASSUME NEW name \in {"commit", "rollback"}, EndTransaction(name) PROVE TInv'
  <2>1. UNCHANGED <<inTx, broken, closed, autocommit, work>>
    BY <1>5 DEF EndTransaction, job
  <2>2. CASE ~inTx
    <3>1. op'.stage = "idle" /\ op'.errs = {"local"}
      BY <1>5, <2>2 DEF EndTransaction, Start
    <3> QED
      BY <1>0, <1>1, <2>1, <3>1, Unrelated DEF Idle, Usable
  <2>3. CASE inTx /\ name = "commit"
    <3>1. op'.stage = "commit" /\ op'.name = "commit" /\ op'.errs = {}
      BY <1>5, <2>3 DEF EndTransaction, Start
    <3> QED
      BY <1>0, <1>1, <2>1, <2>3, <3>1, Unrelated DEF Idle, Usable
  <2>4. CASE inTx /\ name = "rollback"
    <3>1. op'.stage = "rollback" /\ op'.name = "rollback"
      BY <1>5, <2>4 DEF EndTransaction, Start
    <3> QED
      BY <1>0, <1>1, <2>1, <2>4, <3>1
      DEF TInv, TxShape, Transaction, Work, CommitHonest, Idle, Usable
  <2> QED
    BY <2>2, <2>3, <2>4
<1> QED
  BY <1>2, <1>3, <1>4, <1>5

LEMMA TxAutocommitOff == SInv /\ SInv' /\ TInv /\ AutocommitOff => TInv'
<1> SUFFICES ASSUME SInv, SInv', TInv, AutocommitOff PROVE TInv'
  OBVIOUS
<1>0. Typed /\ Typed' /\ op \in Op
  BY BothTyped
<1>1. op.name \notin {"commit", "rollback"} /\ op.stage = "begin"
  BY DEF TInv, TxShape, AutocommitOff
<1>2. op'.name = op.name /\ op'.stage = "idle"
  BY <1>0 DEF AutocommitOff, Proceed, Op
<1>3. CASE Usable /\ UNCHANGED broken /\ autocommit' = FALSE /\ work' = "none" /\ inTx' = TRUE
  BY <1>0, <1>1, <1>2, <1>3 DEF TInv, TxShape, Transaction, Work, CommitHonest, Idle, Usable
<1>4. CASE UNCHANGED <<inTx, autocommit, work, broken>>
  BY <1>0, <1>1, <1>2, <1>4, Unrelated DEF AutocommitOff, Usable
<1>5. CASE broken'
  BY <1>0, <1>1, <1>2, <1>5 DEF TInv, TxShape, Transaction, Work, CommitHonest, Idle, Usable
<1> QED
  BY <1>3, <1>4, <1>5 DEF AutocommitOff, IOFails

LEMMA TxCommitWork == SInv /\ SInv' /\ TInv /\ CommitWork => TInv'
<1> SUFFICES ASSUME SInv, SInv', TInv, CommitWork PROVE TInv'
  OBVIOUS
<1>0. Typed /\ Typed' /\ op \in Op /\ UNCHANGED <<inTx, closed, autocommit>>
  BY BothTyped DEF CommitWork
<1>1. op.name = "commit" /\ op.stage = "commit" /\ inTx /\ op.errs = {}
  BY DEF TInv, TxShape, Transaction, CommitWork
<1>2. CASE /\ Usable /\ work' = IF work = "pending" THEN "committed" ELSE work
           /\ Proceed("autocommit", {}) /\ UNCHANGED broken
  <2>1. op'.name = "commit" /\ op'.stage = "autocommit" /\ op'.errs = {}
    BY <1>0, <1>1, <1>2 DEF Proceed, Op
  <2>2. work \in {"none", "pending"} /\ work' \in {"none", "committed"}
    BY <1>1, <1>2 DEF TInv, Transaction
  <2> QED
    BY <1>0, <1>1, <1>2, <2>1, <2>2 DEF TInv, TxShape, Transaction, Work, CommitHonest, Idle, Usable
<1>3. ASSUME NEW e \in {"io", "server", ConnError}, Proceed("rollback", {e}),
             Usable' => Usable /\ work' = work
      PROVE  TInv'
  <2>1. op'.name = "commit" /\ op'.stage = "rollback" /\ op'.errs = {e} /\ e # "local"
    BY <1>0, <1>1, <1>3 DEF Proceed, Op, ConnError
  <2> QED
    BY <1>0, <1>1, <1>3, <2>1 DEF TInv, TxShape, Transaction, Work, CommitHonest, Idle, Usable
<1> QED
  BY <1>0, <1>2, <1>3 DEF CommitWork, AfterFailedCommit, Refused, IOFails, Usable

LEMMA TxRollbackWork == SInv /\ SInv' /\ TInv /\ RollbackWork => TInv'
<1> SUFFICES ASSUME SInv, SInv', TInv, RollbackWork PROVE TInv'
  OBVIOUS
<1>0. Typed /\ Typed' /\ op \in Op /\ UNCHANGED <<inTx, closed, autocommit>>
  BY BothTyped DEF RollbackWork
<1>1. /\ op.name \in {"commit", "rollback"} /\ op.stage = "rollback" /\ inTx
      /\ op.name = "commit" => op.errs # {} /\ "local" \notin op.errs
      /\ Usable => work \in {"none", "pending"}
  BY DEF TInv, TxShape, Transaction, RollbackWork
<1>2. CASE /\ Usable /\ work' = IF work = "pending" THEN "rolledback" ELSE work
           /\ Proceed("autocommit", {}) /\ UNCHANGED broken
  <2>1. op'.name = op.name /\ op'.stage = "autocommit" /\ op'.errs = op.errs
    BY <1>0, <1>1, <1>2 DEF Proceed, Op
  <2>2. work' \in {"none", "rolledback"}
    BY <1>1, <1>2
  <2> QED
    BY <1>0, <1>1, <1>2, <2>1, <2>2 DEF TInv, TxShape, Transaction, Work, CommitHonest, Idle, Usable
<1>3. ASSUME op.name = "commit", NEW e \in {"io", "server", ConnError}, Proceed("idle", {e}), ~Usable'
      PROVE  TInv'
  <2>1. op'.name = "commit" /\ op'.stage = "idle" /\ op'.errs # {}
    BY <1>0, <1>3 DEF Proceed, Op
  <2> QED
    BY <1>3, <2>1 DEF TInv, TxShape, Transaction, Work, CommitHonest, Idle
<1>4. ASSUME op.name = "rollback", NEW e \in {"io", "server", ConnError}, Proceed("autocommit", {e}),
             Usable' => Usable /\ "rollback" \in Refusals
      PROVE  TInv'
  <2>1. op'.name = "rollback" /\ op'.stage = "autocommit"
    BY <1>0, <1>4 DEF Proceed, Op
  <2> QED
    BY <1>0, <1>1, <1>4, <2>1 DEF TInv, TxShape, Transaction, Work, CommitHonest, Idle
<1>5. CASE op.name = "commit"
  BY <1>0, <1>2, <1>3, <1>5 DEF RollbackWork, AfterFailedRollback, Refused, IOFails, Usable
<1>6. CASE op.name = "rollback"
  BY <1>0, <1>2, <1>4, <1>6 DEF RollbackWork, AfterFailedRollback, Refused, IOFails, Usable
<1> QED
  BY <1>1, <1>5, <1>6

LEMMA TxAutocommitOn == SInv /\ SInv' /\ TInv /\ AutocommitOn => TInv'
<1> SUFFICES ASSUME SInv, SInv', TInv, AutocommitOn PROVE TInv'
  OBVIOUS
<1>0. Typed /\ Typed' /\ op \in Op /\ UNCHANGED <<closed, work>>
  BY BothTyped DEF AutocommitOn
<1>1. op.name \in {"commit", "rollback"} /\ op.stage = "autocommit"
  BY DEF TInv, TxShape, AutocommitOn
<1>2. CASE /\ Usable /\ autocommit' = TRUE /\ inTx' = FALSE /\ Proceed("idle", {}) /\ UNCHANGED broken
  <2>1. op'.name = op.name /\ op'.stage = "idle" /\ op'.errs = op.errs
    BY <1>0, <1>2 DEF Proceed, Op
  <2> QED
    BY <1>0, <1>1, <1>2, <2>1 DEF TInv, TxShape, Transaction, Work, CommitHonest, Idle, Usable
<1>3. ASSUME NEW e \in {"io", "server", ConnError}, Unrestored(e) PROVE TInv'
  <2>1. op'.name = op.name /\ op'.stage = "idle" /\ op'.errs # {} /\ ~Usable'
    BY <1>0, <1>3 DEF Unrestored, Proceed, Op, Usable
  <2> QED
    BY <1>1, <2>1 DEF TInv, TxShape, Transaction, Work, CommitHonest, Idle
<1> QED
  BY <1>2, <1>3 DEF AutocommitOn, Refused

LEMMA StepTInv == SInv /\ SInv' /\ TInv /\ [Next]_vars => TInv'
<1> SUFFICES ASSUME SInv, SInv', TInv, [Next]_vars PROVE TInv'
  OBVIOUS
<1>1. CASE UNCHANGED vars
  BY <1>1 DEF vars, job, TInv, TxShape, Transaction, Work, CommitHonest, Idle, Usable
<1> QED
  BY <1>1, TxRequest, TxStart, TxAutocommitOff, TxCommitWork, TxRollbackWork, TxAutocommitOn DEF Next

\* Client and job agree on the transaction at every request of every call, and
\* the errors of a commit tell what has become of its work.
THEOREM TransactionInv == Spec => []TInv
<1>1. Init => TInv
  BY DEF Init, TInv, TxShape, Transaction, Work, CommitHonest, Idle
<1> QED
  BY <1>1, StepTInv, InvCorrect, PTL DEF Spec

\* A usable connection is in a transaction exactly when its job is.
THEOREM TransactionsAgree == Spec => []TransactionAgrees
<1>1. TInv => TransactionAgrees
  BY DEF TInv, Transaction, TransactionAgrees, Settled
<1> QED
  BY <1>1, TransactionInv, PTL

\* Commit succeeds only with work that is committed, and a failure on a usable
\* connection means that it is rolled back.
THEOREM CommitsHonest == Spec => []CommitHonest
<1>1. TInv => CommitHonest
  BY DEF TInv, Transaction
<1> QED
  BY <1>1, TransactionInv, PTL

\* Unless the server refuses a rollback, no job is used again with work pending.
THEOREM NothingLeft ==
    ASSUME "rollback" \notin Refusals
    PROVE  Spec => []NoWorkLeftBehind
<1>1. TInv => NoWorkLeftBehind
  BY DEF TInv, Work, NoWorkLeftBehind, Settled
<1> QED
  BY <1>1, TransactionInv, PTL

-----------------------------------------------------------------------------
(***************************************************************************)
(* Calls that database/sql may repeat.                                     *)
(***************************************************************************)
\* Such a call finds the connection broken before it has sent anything, or not at all.
Retries ==
    /\ op.name \in Retried /\ ~Idle => "broken" \notin op.errs
    /\ op.stage \in {"ping", "begin"} => ~op.sent
    /\ op.stage \in {"createRPB", "prepare", "changeDescriptor", "execute", "open"} => Usable
    /\ RetryIsSafe

\* A request whose errors do not say that the connection was broken before.
LEMMA GoesOn ==
  ASSUME SInv, Retries, ~Idle, NEW stage \in Stages, NEW errs \in SUBSET (Errors \ {"broken"}),
         Proceed(stage, errs), stage \notin {"ping", "begin"},
         Usable' \/ stage \notin {"createRPB", "prepare", "changeDescriptor", "execute", "open"}
  PROVE  Retries'
<1>1. op \in Op /\ errs \in SUBSET Errors
  BY DEF SInv, TypeOK
<1>2. op'.name = op.name /\ op'.stage = stage /\ op'.errs = op.errs \union errs
  BY <1>1, ProceedOp
<1>3. op'.name \in Retried => "broken" \notin op'.errs
  BY <1>2 DEF Retries
<1> HIDE DEF Retried
<1> QED
  BY <1>2, <1>3 DEF Retries, RetryIsSafe

\* A request of another kind of call, or one that has sent nothing.
LEMMA GivesUp ==
  ASSUME SInv, NEW stage \in Stages, NEW errs \in SUBSET Errors,
         Proceed(stage, errs), stage \notin {"ping", "begin"} \union RunStages,
         op.name \notin Retried \/ (stage = "idle" /\ ~op.sent /\ ~Usable)
  PROVE  Retries'
<1>1. op \in Op
  BY DEF SInv, TypeOK
<1>2. op'.name = op.name /\ op'.stage = stage /\ (op'.sent <=> (op.sent \/ Usable))
  BY <1>1, ProceedOp
<1> QED
  BY <1>2 DEF Retries, RetryIsSafe, RunStages, Idle

LEMMA RetryRequest ==
  ASSUME SInv, TInv, Retries,
         \/ CreateRPB \/ PrepareDescribe \/ CloseCursor \/ ChangeDescriptor \/ Execute \/ Open
         \/ Fetch \/ DeleteDescriptor \/ DeleteRPB
  PROVE  Retries'
<1>0. /\ {} \in SUBSET (Errors \ {"broken"}) /\ {"io"} \in SUBSET (Errors \ {"broken"})
      /\ {"server"} \in SUBSET (Errors \ {"broken"}) /\ {"local"} \in SUBSET (Errors \ {"broken"})
      /\ {ConnError} \in SUBSET Errors /\ {"io"} \in SUBSET Errors /\ {"server"} \in SUBSET Errors
      /\ {} \in SUBSET Errors
  BY DEF Errors, ConnError
<1>1. /\ {"idle", "prepare", "deleteRPB", "changeDescriptor", "execute", "open", "deleteDescriptor"} \subseteq Stages
      /\ {"idle", "deleteRPB", "deleteDescriptor"} \cap ({"ping", "begin"} \union RunStages) = {}
  BY DEF Stages, RunStages
<1>2. ~Idle /\ op.stage \in StmtStages
  BY DEF Idle, CreateRPB, PrepareDescribe, CloseCursor, ChangeDescriptor, Execute, Open,
     Fetch, DeleteDescriptor, DeleteRPB, StmtStages
<1>3. S \in Statements /\ Shape(op.stage, op.name, st[S]) /\ st[S] \in Stmt
  BY <1>2, AtRequest
<1>4. CASE CreateRPB
  <2>1. CASE Usable /\ Proceed("prepare", {}) /\ UNCHANGED <<broken, closed>>
    BY <1>0, <1>1, <1>2, <2>1, GoesOn DEF Usable
  <2>2. CASE Proceed("idle", {"io"})
    BY <1>0, <1>1, <1>2, <2>2, GoesOn
  <2> QED
    BY <1>4, <2>1, <2>2 DEF CreateRPB
<1>5. CASE PrepareDescribe
  <2>1. ASSUME NEW stage \in {"idle", "deleteRPB"}, NEW errs \in SUBSET (Errors \ {"broken"}),
               Proceed(stage, errs)
        PROVE  Retries'
    BY <1>1, <1>2, <2>1, GoesOn
  <2> QED
    BY <1>0, <1>5, <2>1 DEF PrepareDescribe
<1>6. CASE CloseCursor
  <2>1. AfterCursor(S) \in {"deleteDescriptor", "deleteRPB"}
    BY DEF AfterCursor
  <2>2. CASE Usable /\ UNCHANGED <<broken, closed>>
    <3>1. ASSUME NEW stage \in {"idle", "deleteRPB", "deleteDescriptor", "changeDescriptor", "open"},
                 NEW errs \in SUBSET (Errors \ {"broken"}), Proceed(stage, errs)
          PROVE  Retries'
      BY <1>1, <1>2, <2>2, <3>1, GoesOn DEF Usable
    <3>2. \A stage \in BindStages(S, "open") :
             /\ stage \in {"idle", "changeDescriptor", "open"}
             /\ BindErrors(stage) \in SUBSET (Errors \ {"broken"})
      BY DEF BindStages, BindErrors, Errors
    <3>3. \E stage \in {"idle", "deleteRPB", "deleteDescriptor", "changeDescriptor", "open"},
             errs \in SUBSET (Errors \ {"broken"}) : Proceed(stage, errs)
      <4>1. CASE Proceed(AfterCursor(S), {}) \/ Proceed("idle", {})
        BY <1>0, <2>1, <4>1
      <4>2. CASE \E stage \in BindStages(S, "open") : Proceed(stage, BindErrors(stage))
        BY <3>2, <4>2
      <4>3. CASE IOFails
        BY <2>2, <4>3 DEF IOFails, Usable
      <4> QED
        BY <1>6, <4>1, <4>2, <4>3 DEF CloseCursor
    <3> QED
      BY <3>1, <3>3
  <2>3. CASE Proceed(AfterCloseFails(op.name), {"io"})
    <3>1. AfterCloseFails(op.name) \in {"idle", "deleteRPB", "deleteDescriptor"}
      BY <2>1 DEF AfterCloseFails
    <3>2. /\ AfterCloseFails(op.name) \in Stages /\ AfterCloseFails(op.name) \notin {"ping", "begin"}
          /\ AfterCloseFails(op.name) \notin {"createRPB", "prepare", "changeDescriptor", "execute", "open"}
      BY <1>1, <3>1
    <3> QED
      BY <1>0, <1>2, <2>3, <3>2, GoesOn
  <2> QED
    BY <1>6, <2>2, <2>3 DEF CloseCursor
<1>7. CASE ChangeDescriptor
  <2>1. CASE Usable /\ UNCHANGED <<broken, closed>> /\ Proceed(IF op.name = "exec" THEN "execute" ELSE "open", {})
    <3>1. PICK stage \in {"execute", "open"} : Proceed(stage, {})
      BY <2>1
    <3> QED
      BY <1>0, <1>1, <1>2, <2>1, <3>1, GoesOn DEF Usable
  <2>2. CASE Proceed("idle", {"io"})
    BY <1>0, <1>1, <1>2, <2>2, GoesOn
  <2> QED
    BY <1>7, <2>1, <2>2 DEF ChangeDescriptor
<1>8. CASE Execute \/ Open
  <2>1. Usable
    BY <1>8 DEF Retries, Execute, Open
  <2>2. \E errs \in SUBSET (Errors \ {"broken"}) : Proceed("idle", errs)
    BY <1>0, <1>8, <2>1 DEF Execute, Open
  <2> QED
    BY <1>1, <1>2, <2>2, GoesOn
<1>9. CASE Fetch
  <2>1. op.name \notin Retried
    BY <1>3, <1>9 DEF Fetch, Shape, Retried
  <2>2. \E errs \in SUBSET Errors : Proceed("idle", errs)
    BY <1>0, <1>9 DEF Fetch
  <2> QED
    BY <1>1, <2>1, <2>2, GivesUp
<1>10. CASE DeleteDescriptor
  <2>1. op.name \notin Retried
    BY <1>3, <1>10 DEF DeleteDescriptor, Shape, Retried
  <2>2. \E stage \in {"idle", "deleteRPB"}, errs \in SUBSET Errors : Proceed(stage, errs)
    BY <1>0, <1>10 DEF DeleteDescriptor
  <2> QED
    BY <1>1, <2>1, <2>2, GivesUp
<1>11. CASE DeleteRPB
  <2>1. op.name = "prepare" \/ op.name \notin Retried
    BY <1>3, <1>11 DEF DeleteRPB, Shape, Retried
  <2>2. CASE op.name = "prepare"
    <3>1. Proceed("idle", {})
      BY <1>11, <2>2 DEF DeleteRPB, ReleaseErrors
    <3> QED
      BY <1>0, <1>1, <1>2, <3>1, GoesOn
  <2>3. CASE op.name \notin Retried
    <3>1. \E errs \in SUBSET Errors : Proceed("idle", errs)
      BY <1>0, <1>11, <2>3 DEF DeleteRPB, ReleaseErrors
    <3> QED
      BY <1>1, <2>3, <3>1, GivesUp
  <2> QED
    BY <2>1, <2>2, <2>3
<1> QED
  BY <1>4, <1>5, <1>6, <1>7, <1>8, <1>9, <1>10, <1>11

LEMMA RetryEnds ==
  ASSUME SInv, TInv, Retries, Ends
  PROVE  Retries'
<1>0. /\ {} \in SUBSET (Errors \ {"broken"}) /\ {"io"} \in SUBSET (Errors \ {"broken"})
      /\ {"server"} \in SUBSET (Errors \ {"broken"}) /\ {ConnError} \in SUBSET Errors
      /\ \A e \in {"io", "server", ConnError} : {e} \in SUBSET Errors
      /\ {} \in SUBSET Errors
  BY DEF Errors, ConnError
<1>1. /\ {"idle", "rollback", "autocommit"} \subseteq Stages
      /\ {"idle", "rollback", "autocommit"} \cap ({"ping", "begin"} \union RunStages) = {}
      /\ {"idle", "rollback", "autocommit"} \cap {"createRPB", "prepare", "changeDescriptor", "execute", "open"} = {}
  BY DEF Stages, RunStages
<1>2. ~Idle
  BY DEF Idle, Ends, PingJob, AutocommitOff, CommitWork, RollbackWork, AutocommitOn
<1>3. CASE PingJob \/ AutocommitOff
  <2>1. CASE Usable
    <3>1. \E errs \in SUBSET (Errors \ {"broken"}) : Proceed("idle", errs)
      BY <1>0, <1>3, <2>1 DEF PingJob, AutocommitOff
    <3> QED
      BY <1>1, <1>2, <3>1, GoesOn
  <2>2. CASE ~Usable
    <3>1. Proceed("idle", {ConnError}) /\ ~op.sent
      BY <1>3, <2>2 DEF PingJob, AutocommitOff, Refused, IOFails, Retries
    <3> QED
      BY <1>0, <1>1, <2>2, <3>1, GivesUp
  <2> QED
    BY <2>1, <2>2
<1>4. CASE CommitWork \/ RollbackWork \/ AutocommitOn
  <2>1. op.name \notin Retried
    BY <1>4 DEF TInv, TxShape, CommitWork, RollbackWork, AutocommitOn, Retried
  <2>2. \E stage \in {"idle", "rollback", "autocommit"}, errs \in SUBSET Errors : Proceed(stage, errs)
    <3>1. CASE CommitWork
      BY <1>0, <3>1 DEF CommitWork, AfterFailedCommit
    <3>2. CASE RollbackWork
      BY <1>0, <3>2 DEF RollbackWork, AfterFailedRollback
    <3>3. CASE AutocommitOn
      BY <1>0, <3>3 DEF AutocommitOn, Unrestored
    <3> QED
      BY <1>4, <3>1, <3>2, <3>3
  <2> QED
    BY <1>1, <2>1, <2>2, GivesUp
<1> QED
  BY <1>3, <1>4 DEF Ends

\* A call starts with no errors, or ends at once without having sent anything.
LEMMA RetryStart ==
  ASSUME SInv, Retries,
         \/ \E s \in Statements :
               Prepare(s) \/ CloseStmt(s) \/ Exec(s) \/ Query(s) \/ NextBlock(s) \/ CloseRows(s)
         \/ Ping \/ Begin \/ Close \/ \E name \in {"commit", "rollback"} : EndTransaction(name)
  PROVE  Retries'
<1>1. ASSUME NEW name, NEW s, NEW stage, NEW errs, Start(name, s, stage, errs),
             stage = "idle" \/ errs = {}, Usable' \/ stage \notin RunStages \ {"fetch"}
      PROVE  Retries'
  <2>1. op'.name = name /\ op'.stage = stage /\ op'.errs = errs /\ ~op'.sent
    BY <1>1 DEF Start
  <2> QED
    BY <1>1, <2>1 DEF Retries, RetryIsSafe, Idle, RunStages
<1>2. ASSUME NEW s \in Statements,
             Prepare(s) \/ CloseStmt(s) \/ Exec(s) \/ Query(s) \/ NextBlock(s) \/ CloseRows(s)
      PROVE  Retries'
  <2>1. Usable' <=> Usable
    <3>1. UNCHANGED <<broken, closed>>
      BY <1>2 DEF Prepare, CloseStmt, Exec, Query, NextBlock, CloseRows
    <3> QED
      BY <3>1 DEF Usable
  <2>2. \E name, stage, errs : /\ Start(name, s, stage, errs)
                               /\ stage = "idle" \/ errs = {}
                               /\ Usable \/ stage \notin RunStages \ {"fetch"}
    <3>1. CASE Prepare(s)
      <4>1. \/ \E errs : Start("prepare", s, "idle", errs)
            \/ Usable /\ Start("prepare", s, "createRPB", {})
        BY <3>1 DEF Prepare
      <4> QED
        BY <4>1 DEF RunStages
    <3>2. CASE CloseStmt(s)
      BY <3>2 DEF CloseStmt, RunStages
    <3>3. CASE Exec(s)
      BY <3>3 DEF Exec, BindErrors, RunStages
    <3>4. CASE Query(s)
      BY <3>4 DEF Query, BindErrors, RunStages
    <3>5. CASE NextBlock(s) \/ CloseRows(s)
      BY <3>5 DEF NextBlock, CloseRows, RunStages
    <3> QED
      BY <1>2, <3>1, <3>2, <3>3, <3>4, <3>5
  <2> QED
    BY <1>1, <2>1, <2>2
<1>3. CASE Ping \/ Begin \/ Close \/ \E name \in {"commit", "rollback"} : EndTransaction(name)
  <2>1. \E name, stage, errs : /\ Start(name, NoStmt, stage, errs)
                               /\ stage = "idle" \/ errs = {}
                               /\ stage \notin RunStages
    BY <1>3 DEF Ping, Begin, Close, EndTransaction, RunStages
  <2> QED
    BY <1>1, <2>1
<1> QED
  BY <1>2, <1>3

LEMMA StepRetries == SInv /\ TInv /\ Retries /\ [Next]_vars => Retries'
<1> SUFFICES ASSUME SInv, TInv, Retries, [Next]_vars PROVE Retries'
  OBVIOUS
<1>1. CASE UNCHANGED vars
  BY <1>1 DEF vars, Retries, RetryIsSafe, Idle, Usable
<1> QED
  BY <1>1, RetryRequest, RetryEnds, RetryStart DEF Next, Ends

\* A call that fails with ErrConnBroken and that the driver lets database/sql
\* repeat has sent nothing.
THEOREM RetriesSafe == Spec => []RetryIsSafe
<1>1. Init => Retries
  BY DEF Init, Retries, RetryIsSafe, Idle
<1>2. Retries => RetryIsSafe
  BY DEF Retries
<1> QED
  BY <1>1, <1>2, StepRetries, InvCorrect, TransactionInv, PTL DEF Spec

\* A broken connection stays broken, and until it is closed nothing changes in its job.
THEOREM BrokenForGood == Spec => NothingAfterBroken
<1> DEFINE Silent == broken => broken' /\ (closed' = closed => job' = job)
<1>1. ASSUME [Next]_vars PROVE Silent
  <2>1. CASE UNCHANGED vars
    BY <2>1 DEF vars
  <2>2. ASSUME NEW s \in Statements,
               Prepare(s) \/ CloseStmt(s) \/ Exec(s) \/ Query(s) \/ NextBlock(s) \/ CloseRows(s)
        PROVE  Silent
    BY <2>2 DEF Prepare, CloseStmt, Exec, Query, NextBlock, CloseRows
  <2>3. CASE Ping \/ Begin \/ \E name \in {"commit", "rollback"} : EndTransaction(name)
    BY <2>3 DEF Ping, Begin, EndTransaction
  <2>9. CASE Close
    <3>1. closed' # closed /\ UNCHANGED broken
      BY <2>9 DEF Close
    <3> QED
      BY <3>1
  <2>4. CASE CreateRPB \/ PrepareDescribe \/ CloseCursor \/ ChangeDescriptor \/ Execute
    BY <2>4 DEF CreateRPB, PrepareDescribe, CloseCursor, ChangeDescriptor, Execute, Refused, IOFails, Usable
  <2>5. CASE Open \/ Fetch \/ DeleteDescriptor \/ DeleteRPB
    BY <2>5 DEF Open, Fetch, DeleteDescriptor, DeleteRPB, Refused, IOFails, Usable, job
  <2>6. CASE PingJob \/ AutocommitOff
    BY <2>6 DEF PingJob, AutocommitOff, Refused, IOFails, Usable, job
  <2>7. CASE CommitWork \/ RollbackWork
    BY <2>7 DEF CommitWork, RollbackWork, AfterFailedRollback, Refused, IOFails, Usable, job
  <2>8. CASE AutocommitOn
    BY <2>8 DEF AutocommitOn, Unrestored, Refused, Usable, job
  <2> QED
    BY <1>1, <2>1, <2>2, <2>3, <2>4, <2>5, <2>6, <2>7, <2>8, <2>9 DEF Next
<1> QED
  BY <1>1, PTL DEF Spec, NothingAfterBroken
=============================================================================
