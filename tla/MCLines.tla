------------------------------- MODULE MCLines -------------------------------
(***************************************************************************)
(* Programs for LineDirectives: functions with up to three statements, in  *)
(* all layouts of a few lines, and declarations of structs.                *)
(***************************************************************************)
EXTENDS LineDirectives

P(line) == Coord("program", line)
H(line) == Coord("header", line)

Inserted == Simple(NoCoord, 1)

\* Statements that begin at a line, and the lines they end at.
FlatShapes(l) == {<<Simple(P(l), 1), l>>, <<Simple(P(l), 2), l + 1>>, <<Inserted, l - 1>>}
NestedShapes(l) ==
    {<<If(P(l), <<Simple(P(l), 1)>>), l>>,
     <<If(P(l), <<Simple(P(l + 1), 1)>>), l + 1>>,
     <<If(P(l), <<Simple(P(l + 1), 1), Simple(P(l + 3), 1)>>), l + 3>>,
     <<If(P(l), <<Block(NoCoord, <<Inserted, Simple(P(l + 1), 1)>>)>>), l + 1>>,
     <<Loop(P(l), Block(P(l), <<Inserted, Inserted>>)), l>>,
     <<Loop(P(l), Block(P(l), <<Simple(P(l + 1), 1)>>)), l + 2>>,
     <<Block(P(l), <<Block(P(l), <<>>)>>), l>>}

RECURSIVE Bodies(_, _, _)
\* Bodies of up to n statements from line l on, with gaps between them.
Bodies(Shapes(_), l, n) ==
    {<<>>} \cup
    (IF n = 0 THEN {}
     ELSE UNION {UNION {{<<shape[1]>> \o rest : rest \in Bodies(Shapes, shape[2] + 1, n - 1)}
                          : shape \in Shapes(l + gap)} : gap \in 0..2})

AllShapes(l) == FlatShapes(l) \cup NestedShapes(l)

Main(line, body) == Func(P(line), "main", "", FALSE, body)
Before(line) ==
    {<<>>, <<Declaration(H(line - 1), 1)>>, <<Declaration(P(line - 1), 1)>>,
     <<Func(P(1), "reach_error", "", FALSE, <<Simple(P(1), 1)>>)>>,
     <<Func(P(1), "helper", "", TRUE, <<Simple(P(1), 1)>>)>>,
     <<Func(P(1), "helper", "static", TRUE, <<If(P(2), <<Simple(P(3), 1)>>)>>)>>}

Functions ==
    {before \o <<Main(4, body)>> :
       before \in Before(4), body \in Bodies(FlatShapes, 5, 3) \cup Bodies(AllShapes, 5, 2)}

\* The first two objects are of one declaration when they have one struct.
Fields(line) == <<Declaration(P(line), 1)>>
AllStructs ==
    {<<Object(P(1), d[1], s[1], first), Object(P(1), d[2], s[2], first),
       Object(P(5), d[3], s[3], third), Main(9, <<Simple(P(10), 1)>>)>> :
       d \in {<<"plain", "plain", "plain">>, <<"plain", "pointer", "plain">>,
             <<"array", "plain", "plain">>, <<"plain", "plain", "pointer">>,
             <<"none", "plain", "array">>},
       s \in [1..3 -> {"", "S", "T"}], first \in {<<>>, Fields(2)}, third \in {<<>>, Fields(6)}}

\* Without a name there have to be fields.
StructPrograms == {program \in AllStructs : \A node \in ToSet(program) :
              node.kind = "object" /\ node.struct = "" => node.fields # <<>>}

MCAsts == Functions \cup StructPrograms

RECURSIVE Nested(_)
\* A statement, and those that are in it.
Nested(node) ==
    {node} \cup
    CASE node.kind = "block" -> UNION {Nested(item) : item \in ToSet(node.items)}
      [] node.kind = "if" -> UNION {Nested(branch) : branch \in ToSet(node.branches)}
      [] node.kind = "loop" -> Nested(node.body)
      [] OTHER -> {}

MCStmts == UNION {UNION {UNION {Nested(statement) : statement \in ToSet(node.body)} :
                           node \in {n \in ToSet(program) : n.kind = "func"}} :
                    program \in MCAsts}

RECURSIVE FirstLine(_)
FirstLine(statement) ==
    LET lines == {FirstLine(item) : item \in Items(statement)} \ {0}
    IN  IF statement.coord # NoCoord THEN statement.coord.line
        ELSE IF lines = {} THEN 0 ELSE Min(lines)

\* What is proved of conditions and loops is about programs like these.
ASSUME WrittenInOrder == InOrder([statement \in MCStmts |-> FirstLine(statement)])

=============================================================================
