------------------------------ MODULE MCReplay ------------------------------
(***************************************************************************)
(* Programs and witnesses for WitnessReplay: main (m) and up to two        *)
(* threads (a, b), which the witnesses know as 0, 1 and 2.  They are       *)
(* executed by HappensBefore, for those of a data race.                    *)
(***************************************************************************)
EXTENDS WitnessReplay, HappensBefore

CONSTANTS m, a, b, none, x, y, novar

MCThreads == {m, a, b}
MCSlots == 0..6
MCVars == {x, y}

\* TLC evaluates a definition once, but not one that it substitutes for a
\* constant: such definitions only rename another.
MCCode == ReplayCode

Routines == m :> "main" @@ a :> "first" @@ b :> "second"

\* The statements of a program, in short, and what is made of them.  (Of a case
\* there is one copy wherever TLC's coverage comes by Code: it had better be small.)
Assignment(line) == [kind |-> "assignment", line |-> line]
Sets(line, var, val) == [kind |-> "sets", line |-> line, var |-> var, val |-> val]
Nondet(line, var) == [kind |-> "nondet", line |-> line, var |-> var]
Untypable(line, var) == [kind |-> "untypable", line |-> line, var |-> var]
ReturnNondet(line) == [kind |-> "retnondet", line |-> line]
CallOf(line, callee) == [kind |-> "call", line |-> line, callee |-> callee]
CreateThread(line, children) == [kind |-> "create", line |-> line, children |-> children]
JoinThreads(line, children) == [kind |-> "join", line |-> line, children |-> children]
Fail(line) == [kind |-> "error", line |-> line]
Return(line) == [kind |-> "return", line |-> line]
Program(main, first, second) ==
    <<<<"first", Block(10, first)>>, <<"second", Block(20, second)>>, <<"main", Block(30, main)>>>>

RECURSIVE Tree(_)
Tree(node) ==
    CASE node.kind \in {"block", "case"} ->
           [node EXCEPT !.items = Tabulated([i \in DOMAIN @ |-> Tree(@[i])])]
      [] node.kind = "if" -> [node EXCEPT !.then = Tree(@), !.else = Tree(@)]
      [] node.kind \in {"while", "switch"} -> [node EXCEPT !.body = Tree(@)]
      [] node.kind = "nothing" -> node
      [] node.kind = "assignment" -> Leaf(node.line, "plain", Plain(node.line))
      [] node.kind = "sets" -> Leaf(node.line, "plain", Assign(node.line, node.var, node.val))
      [] node.kind = "nondet" -> Leaf(node.line, "nondet", Assign(node.line, node.var, 0))
      [] node.kind = "untypable" ->
           Untyped(Leaf(node.line, "nondet", Assign(node.line, node.var, 0)))
      [] node.kind = "retnondet" -> Leaf(node.line, "retnondet", Assign(node.line, x, 0))
      [] node.kind = "call" -> Call(node.line, node.callee)
      [] node.kind = "create" ->
           Leaf(node.line, "create", CreateOneOf(node.line, node.children, <<>>))
      [] node.kind = "join" -> Leaf(node.line, "call", JoinWith(node.line, node.children))
      [] node.kind = "error" -> Leaf(node.line, "error", ErrorAt(node.line))
      [] node.kind = "return" -> Leaf(node.line, "return", Plain(node.line))

Ast(program) == Tabulated([f \in DOMAIN program |-> Function(program[f][1], Tree(program[f][2]))])

\* Steps of a witness: a thread is created, goes on, violates the property,
\* has a value in a variable, takes a branch.
Enter(line) == <<"function_enter", 0, line, novar, 0, "expression">>
Goes(thread, line) == <<"statement", thread, line, novar, 0, "expression">>
Target(thread, line) == <<"target", thread, line, novar, 0, "expression">>
Assumes(thread, line, var, val) == <<"assumption", thread, line, var, val, "equality">>
Unreadable(thread, line, var) == <<"assumption", thread, line, var, 0, "unreadable">>
Takes(thread, line, var, val) == <<"branching", thread, line, var, val, "direction">>
TakesLabel(thread, line, var, val) == <<"branching", thread, line, var, val, "label">>
TakesDefault(thread, line, var) == <<"branching", thread, line, var, 0, "default">>
Returns(thread, line, var, val) == <<"function_return", thread, line, var, val, "equality">>

StepOf(s) ==
    [type |-> s[1], thread |-> s[2], line |-> s[3], var |-> s[4], val |-> s[5],
     constraint |-> s[6]]
Witness(steps, yaml, dataRace) ==
    [steps |-> Tabulated([i \in DOMAIN steps |-> StepOf(steps[i])]), yaml |-> yaml,
     dataRace |-> dataRace, inputOnly |-> FALSE]

Case(program, steps) == <<program, steps, TRUE, FALSE>>

\* GraphML has an assumption at the statement that it is about.
GraphML(program, steps) == <<program, steps, FALSE, FALSE>>

\* A witness of a data race: its targets are the two accesses.
Race(program, steps) == <<program, steps, TRUE, TRUE>>

Instrumented(case) == CaseOf(Ast(case[1]), Routines, Witness(case[2], case[3], case[4]))

-----------------------------------------------------------------------------
(* All interleavings of the plain statements of three threads.             *)

Lines == [k \in 0..2 |-> CASE k = 0 -> <<33, 34>> [] k = 1 -> <<11, 12>> [] k = 2 -> <<21>>]

Occurrences(s, i) == Cardinality({j \in 1..i : s[j] = s[i]})
Merges == {s \in [1..5 -> 0..2] :
               \A k \in 0..2 : Cardinality({i \in 1..5 : s[i] = k}) = Len(Lines[k])}

Turns == Program(
    <<CreateThread(31, {a}), CreateThread(32, {b}), Assignment(33), Assignment(34), Fail(35)>>,
    <<Assignment(11), Assignment(12), Fail(13)>>,
    <<Assignment(21)>>)

Merged(s) ==
    Case(Turns,
         <<Enter(31), Enter(32)>>
           \o [i \in 1..5 |-> Goes(s[i], Lines[s[i]][Occurrences(s, i)])]
           \o <<Target(0, 35)>>)

MergeNamed(name) ==
    CHOOSE case \in {Merged(s) : s \in {t \in Merges : ToString(t) = name}} : TRUE

-----------------------------------------------------------------------------
(* Single programs.                                                        *)

\* main goes on after the first thread has done something.
AfterFirst(main, first) ==
    Program(first \o <<CreateThread(31, {a})>> \o main, <<Assignment(11)>>, <<>>)
Handover(steps) == <<Enter(31), Goes(1, 11)>> \o steps
ThenFail(line, failing) == If(line, x, Block(90, <<Fail(failing)>>), Nothing)

NamedCases ==
  [ \* The examples of the repository.
    concurrent_unreach |->
      Case(Program(<<CreateThread(22, {a}), ThenFail(23, 24)>>,
                   <<Sets(16, x, 1), Return(17)>>, <<>>),
           <<Enter(22), Assumes(1, 17, x, 1), Assumes(0, 23, x, 1), Target(0, 24)>>),
    concurrent_nondet |->
      Case(Program(<<CreateThread(23, {a}), ThenFail(24, 25)>>,
                   <<Nondet(17, x), Return(18)>>, <<>>),
           <<Enter(23), Assumes(1, 18, x, 1), Assumes(0, 24, x, 1), Target(0, 25)>>),
    function_return |->
      Case(<<<<"get_value", Block(90, <<ReturnNondet(10)>>)>>,
             <<"main", Block(92, <<CallOf(14, "get_value"), ThenFail(15, 16)>>)>>>>,
           <<Returns(0, 10, x, 1), Target(0, 16)>>),
    \* An input, or a condition, behind a turn of its thread.
    input |->
      Case(AfterFirst(<<Assignment(33), Nondet(34, x), ThenFail(36, 37)>>, <<>>),
           Handover(<<Goes(0, 33), Assumes(0, 35, x, 1), Target(0, 37)>>)),
    condition |->
      Case(Program(<<CreateThread(31, {a}), Assignment(33), ThenFail(34, 36)>>,
                   <<Sets(11, x, 1)>>, <<>>),
           Handover(<<Goes(0, 33), Takes(0, 34, x, 1), Target(0, 36)>>)),
    \* Turns at an if, at a loop and at a block.
    branch |->
      Case(Program(<<CreateThread(31, {a}), If(33, x, Block(90, <<Fail(34)>>), Assignment(35))>>,
                   <<Sets(11, x, 1)>>, <<>>),
           Handover(<<Goes(0, 33), Target(0, 34)>>)),
    loop |->
      Case(AfterFirst(<<Sets(32, x, 1), While(33, x, Block(90, <<Sets(34, x, 0)>>)), Fail(35)>>,
                      <<>>),
           Handover(<<Goes(0, 33), Target(0, 35)>>)),
    block |->
      Case(AfterFirst(<<Block(33, <<Assignment(34)>>), Fail(35)>>, <<>>),
           Handover(<<Goes(0, 33), Target(0, 35)>>)),
    \* Both threads are created by one statement, in different segments.
    spawner |->
      Case(Program(<<Sets(29, x, 1),
                     While(30, x, Block(90, <<CreateThread(31, {a, b}), Assignment(33),
                                              If(34, y, Sets(35, x, 0), Sets(36, y, 1))>>)),
                     Fail(37)>>,
                   <<Assignment(11)>>, <<Assignment(11)>>),
           <<Enter(31), Goes(1, 11), Goes(0, 33), Enter(31), Target(0, 37)>>),
    \* Both are created by one statement in one segment.
    looped |->
      Case(Program(<<Sets(29, x, 1),
                     While(30, x, Block(90, <<CreateThread(31, {a, b}),
                                              If(34, y, Sets(35, x, 0), Sets(36, y, 1))>>)),
                     Fail(37)>>,
                   <<Assignment(11)>>, <<Assignment(11)>>),
           <<Enter(31), Enter(31), Goes(2, 11), Target(0, 37)>>),
    \* One call reads two inputs, in different segments.
    reread |->
      Case(<<<<"get_value", Block(90, <<ReturnNondet(5)>>)>>>>
             \o AfterFirst(<<Assignment(33), CallOf(34, "get_value"), ThenFail(36, 37)>>,
                           <<CallOf(30, "get_value")>>),
           <<Returns(0, 5, x, 2)>> \o Handover(<<Goes(0, 33), Returns(0, 5, x, 1),
                                                 Target(0, 37)>>)),
    \* An input whose type is not known, and an assumption that is none.
    untyped |->
      Case(AfterFirst(<<Assignment(33), Untypable(34, x), Fail(36)>>, <<>>),
           Handover(<<Goes(0, 33), Assumes(0, 35, x, 0), Unreadable(0, 35, x),
                      Target(0, 36)>>)),
    \* An input at which another thread goes on.
    graphml |->
      GraphML(AfterFirst(<<Nondet(33, x), Fail(35)>>, <<>>),
              Handover(<<Assumes(0, 33, x, 1), Target(0, 35)>>)),
    \* A switch with a case for each of two values.
    switch |->
      Case(Program(<<CreateThread(31, {a}), Assignment(33),
                     Switch(34, x, <<CaseOfSwitch(35, 1, <<Assignment(36)>>),
                                     CaseOfSwitch(37, 2, <<Fail(38)>>)>>)>>,
                   <<Sets(11, x, 2)>>, <<>>),
           Handover(<<Goes(0, 33), TakesLabel(0, 34, x, 2), TakesDefault(0, 34, x),
                      Target(0, 38)>>)),
    \* The schedule ends with a condition that does not hold, while another
    \* thread reports an error.  (The thread that goes first is not the one
    \* created last, so the witness is not enforced.)
    overtaken |->
      Case(Program(<<CreateThread(31, {a}), CreateThread(32, {b}), Assignment(33), Fail(35)>>,
                   <<Assignment(11), Fail(13)>>, <<>>),
           <<Enter(31), Enter(32), Goes(1, 11), Goes(0, 33), Assumes(0, 35, x, 1),
             Target(0, 35)>>),
    \* A thread comes back to a statement, in a loop.
    revisit |->
      Case(Program(<<CreateThread(31, {a}), Assignment(33), Fail(35)>>,
                   <<Sets(10, x, 1),
                     While(11, x, Block(90, <<Assignment(12),
                                              If(13, y, Sets(14, x, 0), Sets(15, y, 1))>>))>>,
                   <<>>),
           <<Enter(31), Goes(1, 12), Goes(0, 33), Goes(1, 12), Target(0, 35)>>) ]

-----------------------------------------------------------------------------
(* Data races: of two threads, of a thread with main, and behind turns of   *)
(* the racing threads and of main.                                          *)

Both == <<CreateThread(31, {a}), CreateThread(32, {b})>>
TwoThreads(main) == Program(Both \o main, <<Sets(11, y, 1)>>, <<Sets(21, x, 1), Sets(22, y, 1)>>)

RaceCases ==
  [ \* The example of the repository.
    concurrent_data_race |->
      Race(Program(<<CreateThread(25, {a}), CreateThread(26, {b}),
                     JoinThreads(27, {a}), JoinThreads(28, {b})>>,
                   <<Sets(14, x, 1), Return(15)>>, <<Sets(19, x, 1), Return(20)>>),
           <<Enter(25), Enter(26), Target(1, 14), Target(2, 19)>>),
    with_main |->
      Race(Program(<<CreateThread(31, {a}), Sets(33, x, 1)>>, <<Sets(11, x, 1)>>, <<>>),
           <<Enter(31), Target(1, 11), Target(0, 33)>>),
    \* The first access is of the thread whose turn it has been.
    behind_own_turn |->
      Race(TwoThreads(<<>>),
           <<Enter(31), Enter(32), Goes(2, 21), Target(2, 22), Target(1, 11)>>),
    behind_other |->
      Race(TwoThreads(<<>>),
           <<Enter(31), Enter(32), Goes(2, 21), Target(1, 11), Target(2, 22)>>),
    behind_main |->
      Race(TwoThreads(<<Assignment(33)>>),
           <<Enter(31), Enter(32), Goes(2, 21), Goes(0, 33), Target(1, 11), Target(2, 22)>>) ]

-----------------------------------------------------------------------------

\* The single programs that the witness is enforced on, or that may end otherwise.
\* (They are named once more, as TLC's coverage goes into a definition at each of
\* its uses.)
Constructs ==
    {"function_return", "input", "condition", "branch", "loop", "block", "spawner", "looped",
     "reread", "untyped", "graphml", "switch", "overtaken"}
Findings == {"concurrent_unreach", "concurrent_nondet", "revisit"}
RaceScripts ==
    {"concurrent_data_race", "with_main", "behind_own_turn", "behind_other", "behind_main"}
MCScripts == Constructs \cup RaceScripts \cup {ToString(s) : s \in Merges}

Named(name) ==
    CASE name \in Constructs \cup Findings -> NamedCases[name]
      [] name \in RaceScripts -> RaceCases[name]
      [] OTHER -> MergeNamed(name)

All == Tabulated([name \in Scripts |-> Instrumented(Named(name))])
MCCases == All

=============================================================================
