----------------------------- MODULE WitnessAst -----------------------------
(***************************************************************************)
(* How src/witness2ast.py turns the steps of a witness into calls of the   *)
(* harness in the program's syntax tree.                                   *)
(*                                                                         *)
(* A tree is the sequence of its functions, in source order.  A line has   *)
(* at most one statement, so a line identifies it; what the tool inserts   *)
(* has no coordinates and line 0.  A leaf's form says what the finders     *)
(* tell statements apart by, and its instr what it does when it runs.  The *)
(* value of an input is 0, and of a condition 0 or 1.                      *)
(***************************************************************************)
EXTENDS Instructions, SequencesExt

\* What a thread id is when the step of the witness does not state one.
Unstated == -1

\* Forms of a leaf:
\*   plain         an assignment or expression without a call
\*   call          a statement that calls a function
\*   nondet        x = __VERIFIER_nondet_int(), or a declaration that does so
\*   bare          a statement with such a call as a part of it
\*   pinned        what is left of one of these once a value is substituted,
\*                 with the call behind the alternatives
\*   return        a return statement without a call
\*   retnondet     return __VERIFIER_nondet_int()
\*   retpinned     what is left of it
\*   create, error a call of pthread_create, of reach_error
Leaf(line, form, instr) ==
    [kind |-> "leaf", line |-> line, form |-> form, instr |-> instr, callee |-> "",
     typed |-> TRUE]
\* A nondet call whose name nondet_return_types does not list.
Untyped(leaf) == [leaf EXCEPT !.typed = FALSE]
\* A call of a function of the program.
Call(line, callee) == [Leaf(line, "call", Plain(line)) EXCEPT !.callee = callee]
Block(line, items) == [kind |-> "block", line |-> line, items |-> items]
If(line, var, then, else) ==
    [kind |-> "if", line |-> line, var |-> var, then |-> then, else |-> else]
While(line, var, body) ==
    [kind |-> "while", line |-> line, var |-> var, body |-> body]
\* A switch, each of whose cases ends with a break: they are what its body lists.
Switch(line, var, cases) ==
    [kind |-> "switch", line |-> line, var |-> var, body |-> Block(line, cases)]
CaseOfSwitch(line, val, items) ==
    [kind |-> "case", line |-> line, val |-> val, items |-> items]
Function(name, body) == [name |-> name, body |-> body]

Nothing == [kind |-> "nothing", line |-> 0]  \* None, and an absent else
Inserted(instr) == Leaf(0, "call", instr)    \* a FuncCall without coordinates

\* f itself.  TLC evaluates the values of a function each time they are used,
\* but those of the operands of @@ only once.
Tabulated(f) == f @@ <<>>

FirstOf(hits) == IF hits = <<>> THEN Nothing ELSE hits[1]

\* The first of a sequence of search results that is one.
FirstHit(results) == FirstOf(SelectSeq(results, LAMBDA r : r # Nothing))

\* The statements that are the children of one.
Branches(node) ==
    CASE node.kind \in {"block", "case"} -> node.items
      [] node.kind = "if" -> <<node.then, node.else>>
      [] node.kind \in {"while", "switch"} -> <<node.body>>
      [] OTHER -> <<>>

-----------------------------------------------------------------------------
(* The finders.                                                            *)

RECURSIVE Leaves(_)
\* The leaves in and below some nodes in the order a NodeVisitor comes by them.
Leaves(nodes) ==
    IF nodes = <<>> THEN <<>>
    ELSE (IF Head(nodes).kind = "leaf" THEN <<Head(nodes)>> ELSE Leaves(Branches(Head(nodes))))
           \o Leaves(Tail(nodes))

AllLeaves(ast) == Leaves([f \in DOMAIN ast |-> ast[f].body])

Matching(ast, Test(_)) == FirstOf(SelectSeq(AllLeaves(ast), Test))

RECURSIVE FirstStatementIn(_, _)

\* A statement of a block is looked at before what is in it; the body of a
\* loop or the branch of an if that has no braces is looked at with its owner.
FirstStatementAt(item, line) ==
    LET Unbraced(b) == item.kind \in {"if", "while"} /\ b.kind # "block" /\ b.line >= line
    IN  IF item.line >= line THEN item
        ELSE FirstHit(SelectSeq(Branches(item), Unbraced) \o <<FirstStatementIn(item, line)>>)

\* Below a statement that does not match only blocks are searched: a case is a
\* statement of the body of its switch, but what the case lists is in no block.
FirstStatementIn(node, line) ==
    FirstHit([i \in DOMAIN Branches(node) |->
                IF node.kind = "block" THEN FirstStatementAt(node.items[i], line)
                                       ELSE FirstStatementIn(Branches(node)[i], line)])

FindFirstStatement(ast, line) ==
    FirstHit([f \in DOMAIN ast |-> FirstStatementIn(ast[f].body, line)])

RECURSIVE VisitForNondet(_, _)

\* A match among the statements of a block goes before one that is nested in
\* them, even in an earlier one: the search goes on behind that and overwrites it.
\* Below a statement of a block, only further blocks list statements to match.
VisitForNondet(node, line) ==
    LET Below(n) == FirstHit([i \in DOMAIN Branches(n) |-> VisitForNondet(Branches(n)[i], line)])
        listed == SelectSeq(Branches(node), LAMBDA n : n.kind = "leaf" /\ n.line >= line
                                                                     /\ n.form = "nondet")
    IN  IF node.kind # "block" THEN Below(node)
        ELSE FirstHit(listed \o [i \in DOMAIN node.items |-> Below(node.items[i])])

FindNondetAssignment(ast, line) ==
    FirstHit([f \in DOMAIN ast |-> VisitForNondet(ast[f].body, line)])

LatestOf(hits) ==
    IF hits = {} THEN Nothing
    ELSE CHOOSE n \in hits : \A other \in hits : other.line <= n.line

FindLastNondetAssignmentBefore(ast, line, var) ==
    LatestOf({n \in ToSet(AllLeaves(ast)) :
                n.form = "nondet" /\ n.line <= line /\ n.instr.var = var})

FindReturnNondet(ast, line) ==
    Matching(ast, LAMBDA n : n.line >= line /\ n.form = "retnondet")

\* Any nondet call: one that is stored or returned has been found before, unless
\* the store is not a statement of a block, or the call is what is left behind a
\* value that has been substituted for it.
FindBareNondet(ast, line) ==
    Matching(ast, LAMBDA n : n.line >= line
                             /\ n.form \in {"bare", "nondet", "pinned", "retpinned"})

FindPthreadCreate(ast, line) ==
    Matching(ast, LAMBDA n : n.line = line /\ n.form = "create")

-----------------------------------------------------------------------------
(* Changes of the tree.                                                    *)

RECURSIVE ReplaceIn(_, _, _)

\* A branch without braces gets them unless a single leaf takes its place.
ReplaceBranch(branch, line, nodes) ==
    IF branch.line # line \/ branch.kind = "block" THEN ReplaceIn(branch, line, nodes)
    ELSE IF Len(nodes) = 1 /\ nodes[1].kind = "leaf" THEN nodes[1]
    ELSE Block(0, nodes)

ReplaceIn(node, line, nodes) ==
    CASE node.kind \in {"block", "case"} ->
           [node EXCEPT !.items = FlattenSeq(Tabulated([i \in DOMAIN @ |->
              IF @[i].line = line THEN nodes ELSE <<ReplaceIn(@[i], line, nodes)>>]))]
      [] node.kind = "if" ->
           [node EXCEPT !.then = ReplaceBranch(@, line, nodes),
                        !.else = ReplaceBranch(@, line, nodes)]
      [] node.kind \in {"while", "switch"} ->
           [node EXCEPT !.body = ReplaceBranch(@, line, nodes)]
      [] OTHER -> node

\* The tree with the given nodes in the place of one of its statements.
Replace(ast, statement, nodes) ==
    Tabulated([f \in DOMAIN ast |->
                 [ast[f] EXCEPT !.body = ReplaceIn(@, statement.line, nodes)]])

\* The first link of the chain is the one inserted last.
InsertLink(ast, call, link) ==
    IF call = Nothing THEN ast
    ELSE Replace(ast, call, <<[call EXCEPT !.instr.alts = <<link>> \o @]>>)

InstrumentPthreadCreate(ast, line, slot, caller, id) ==
    InsertLink(ast, FindPthreadCreate(ast, line), [slot |-> slot, tid |-> caller, id |-> id])

\* Mutant: the value is for the segment behind.
MakeLateNondet(leaf, slot, tid, val) ==
    [leaf EXCEPT !.form = IF @ = "retnondet" THEN "retpinned" ELSE "pinned",
                 !.instr = Pinned(leaf.line, slot + 1, tid, @.var, val)]

\* The call goes where none of the values does, be they one or several.
MakeGuardedNondet(leaf, slot, tid, val) ==
    IF leaf.form \in {"pinned", "retpinned"}
      THEN [leaf EXCEPT !.instr.alts = Append(@, [slot |-> slot, tid |-> tid, id |-> val])]
      ELSE [leaf EXCEPT !.form = IF @ = "retnondet" THEN "retpinned" ELSE "pinned",
                        !.instr = Pinned(leaf.line, slot, tid, @.var, val)]

SubstituteValue(ast, leaf, slot, tid, val) ==
    IF leaf = Nothing \/ ~leaf.typed THEN ast
    ELSE Replace(ast, leaf, <<MakeGuardedNondet(leaf, slot, tid, val)>>)

\* The guard goes right before the statement, behind what is there already.
InsertGuard(ast, statement, slot, tid, var, val) ==
    IF statement = Nothing THEN ast
    ELSE Replace(ast, statement, <<Inserted(Assume(slot, tid, var, val)), statement>>)

\* A step constrains a variable to a value by an "equality", which may be pinned,
\* or by an "expression", which is guarded; what cannot be parsed is "unreadable".
PinOrGuard(ast, leaf, step, slot, tid) ==
    IF step.constraint = "equality" /\ leaf # Nothing
         /\ leaf.instr.var = step.var /\ leaf.typed
      THEN SubstituteValue(ast, leaf, slot, tid, step.val)
    ELSE IF step.constraint = "unreadable" THEN ast
    ELSE InsertGuard(ast, FindFirstStatement(ast, step.line), slot, tid, step.var, step.val)

ApplyAssumption(ast, step, anchoredAfter, slot, tid) ==
    PinOrGuard(ast,
               IF anchoredAfter THEN FindLastNondetAssignmentBefore(ast, step.line, step.var)
                                ELSE FindNondetAssignment(ast, step.line),
               step, slot, tid)

\* Only the value matters: the variable is whichever the call is stored in.
ApplyFunctionReturn(ast, step, slot, tid) ==
    SubstituteValue(ast, FirstHit(<<FindReturnNondet(ast, step.line),
                                    FindNondetAssignment(ast, step.line),
                                    FindBareNondet(ast, step.line)>>), slot, tid, step.val)

\* The recorded "direction" of a condition, and the "label" of a switch if it is a
\* number, are the value of the variable; of anything else nothing is made.
GuardCondition(ast, statement, step, slot, tid) ==
    IF statement.kind \in {"if", "while", "switch"}
         /\ step.constraint \in {"direction", "label"}
      THEN InsertGuard(ast, statement, slot, tid, statement.var, step.val)
      ELSE ast

ApplyBranching(ast, step, slot, tid) ==
    GuardCondition(ast, FindFirstStatement(ast, step.line), step, slot, tid)

ContainsFuncCall(node) ==
    \E leaf \in ToSet(Leaves(<<node>>)) : leaf.form \notin {"plain", "return"}

\* Mutant: the release goes before every statement.
ReleaseFirst(statement, release) == <<release, statement>>

\* Where the release goes.
WithRelease(statement, release) ==
    CASE statement.kind = "block" ->
           <<[statement EXCEPT !.items = <<release>> \o @]>>
      [] statement.kind = "while" ->
           <<[statement EXCEPT !.body = Block(0, <<release, @>>)]>>
      [] statement.kind = "if" ->
           <<[statement EXCEPT !.then = Block(0, <<release, @>>),
                !.else = IF @ = Nothing THEN @ ELSE Block(0, <<release, @>>)]>>
      [] OTHER -> IF ContainsFuncCall(statement)
                       \/ (statement.kind = "leaf" /\ statement.form = "return")
                    THEN <<release, statement>> ELSE <<statement, release>>

InsertSchedulePoint(ast, statement, slot, tid, release, inputOnly) ==
    Replace(ast, statement,
            (IF inputOnly THEN <<>> ELSE <<Inserted(Yield(slot, tid))>>)
              \o (IF release THEN WithRelease(statement, Inserted(Release(slot, tid)))
                             ELSE <<statement>>))

InjectExpectedFinalSlot(s) ==
    [s EXCEPT !.ast = Tabulated([f \in DOMAIN @ |->
       IF @[f].name = "main"
         THEN [@[f] EXCEPT !.body.items = <<Inserted(Final(s.slot))>> \o @]
         ELSE @[f]])]

-----------------------------------------------------------------------------
(* apply_witness.  A witness is a record of its steps, a sequence, and of   *)
(* what else the tool reads off it: yaml, dataRace, inputOnly.  A step has  *)
(* a type ("statement" when it has none), a thread id or Unstated, a line   *)
(* (0 when its coordinates are not usable) and a constraint that var is     *)
(* val, where var is NoVar when there is none.                              *)

\* Mutant: the next thread gets the same number.
CreateStepUncounted(s, step, tid) ==
    IF step.type = "function_enter" /\ step.line # 0
      THEN [s EXCEPT !.ast = InstrumentPthreadCreate(@, step.line, s.slot, tid, s.created)]
      ELSE s

CreateStep(s, step, tid) ==
    IF step.type = "function_enter" /\ step.line # 0
      THEN [s EXCEPT !.ast = InstrumentPthreadCreate(@, step.line, s.slot, tid, s.created),
                     !.created = @ + 1]
      ELSE s

InputStep(s, step, tid, yaml) ==
    IF step.var = NoVar \/ step.line = 0 THEN s
    ELSE [s EXCEPT !.ast =
            CASE step.type = "function_return" -> ApplyFunctionReturn(@, step, s.slot, tid)
              [] step.type = "branching" -> ApplyBranching(@, step, s.slot, tid)
              [] OTHER -> ApplyAssumption(@, step, yaml, s.slot, tid)]

\* No statement at or after the line: the tool stops with an error, if it has
\* something to insert.
SchedulePoint(s, statement, tid, release, inputOnly) ==
    IF ~release /\ inputOnly THEN [s EXCEPT !.thread = tid]
    ELSE IF statement = Nothing THEN [s EXCEPT !.failed = TRUE]
    ELSE [s EXCEPT !.ast = InsertSchedulePoint(@, statement, s.slot, tid, release, inputOnly),
                   !.thread = tid,
                   !.slot = IF release THEN @ + 1 ELSE @]

\* Mutant: the schedule point of a target is like any other.
ScheduleStepReleasing(s, step, tid, witness) ==
    IF tid = s.thread \/ step.line = 0 THEN s
    ELSE SchedulePoint(s, FindFirstStatement(s.ast, step.line), tid, TRUE, witness.inputOnly)

ScheduleStep(s, step, tid, witness) ==
    IF tid = s.thread \/ step.line = 0 THEN s
    ELSE SchedulePoint(s, FindFirstStatement(s.ast, step.line), tid,
                       ~(witness.dataRace /\ step.type = "target"), witness.inputOnly)

ApplyStep(s, step, witness) ==
    LET tid == IF step.thread = Unstated THEN s.thread ELSE step.thread
    IN  IF s.failed THEN s
        ELSE ScheduleStep(InputStep(CreateStep(s, step, tid), step, tid, witness.yaml),
                          step, tid, witness)

FirstThread(witness) ==
    IF witness.steps[1].thread = Unstated THEN 0 ELSE witness.steps[1].thread

ApplyWitness(ast, witness) ==
    InjectExpectedFinalSlot(
        FoldLeft(LAMBDA s, step : ApplyStep(s, step, witness),
                 [ast |-> ast, slot |-> 0, created |-> 1, failed |-> FALSE,
                  thread |-> FirstThread(witness)],
                 witness.steps))

-----------------------------------------------------------------------------
(* What the C compiler makes of the tree: the instructions of one function. *)

Body(ast, name) ==
    IF \E f \in DOMAIN ast : ast[f].name = name
      THEN ast[CHOOSE f \in DOMAIN ast : ast[f].name = name].body ELSE Nothing

\* A called function is part of its caller, and returns to behind it.
Inlined(code, at) ==
    [i \in DOMAIN code |-> IF code[i] = Jump(0) THEN Jump(at + Len(code)) ELSE code[i]]

\* A condition's two pieces of code, and a loop's one, of which the first begins
\* behind the branch.
Choose(node, val, then, else, at) ==
    <<BranchOn(node.line, node.var, val, at + 1, at + Len(then) + 2)>> \o then
      \o <<Jump(at + Len(then) + 2 + Len(else))>> \o else
Repeat(node, body, at) ==
    <<BranchOn(node.line, node.var, 1, at + 1, at + Len(body) + 2)>> \o body \o <<Jump(at)>>

RECURSIVE Compile(_, _, _), CompileSwitch(_, _, _, _)

\* The code of "no" begins behind that of "yes".
CompileChoice(ast, node, val, yes, no, at) ==
    Choose(node, val, yes, Compile(ast, no, at + Len(yes) + 2), at)

\* The instructions of a node, the first of them being instruction number
\* "at".  Jump(0) returns from the function.
Compile(ast, node, at) ==
    CASE node.kind = "leaf" ->
           (IF node.callee = "" THEN <<node.instr>>
            ELSE Inlined(Compile(ast, Body(ast, node.callee), at), at))
             \o (IF node.form \in {"return", "retnondet", "retpinned"} THEN <<Jump(0)>> ELSE <<>>)
      [] node.kind \in {"block", "case"} ->
           FoldLeft(LAMBDA code, n : code \o Compile(ast, n, at + Len(code)), <<>>, node.items)
      [] node.kind = "if" ->
           CompileChoice(ast, node, 1, Compile(ast, node.then, at + 1), node.else, at)
      [] node.kind = "while" -> Repeat(node, Compile(ast, node.body, at + 1), at)
      [] node.kind = "switch" /\ node.body.items # <<>> ->
           CompileSwitch(ast, node, [node EXCEPT !.body.items = Tail(@)], at)
      [] OTHER -> <<>>

\* What stands between the cases of a switch is behind a break.
CompileSwitch(ast, node, rest, at) ==
    IF Head(node.body.items).kind # "case" THEN Compile(ast, rest, at)
    ELSE CompileChoice(ast, node, Head(node.body.items).val,
                       Compile(ast, Head(node.body.items), at + 1), rest, at)

CompileFunction(ast, name) == Compile(ast, Body(ast, name), 1)

=============================================================================
