--------------------------- MODULE LineDirectives ---------------------------
(***************************************************************************)
(* What happens to the syntax tree between the instrumentation and the     *)
(* compiler (src/tweaks.py, called in one order by src/main.py and by the  *)
(* playground's instrument.py), and the lines that the compiler takes the  *)
(* statements of the generated text to be on.                              *)
(*                                                                         *)
(* Texts are sequences of physical lines: directives, layout, and lines    *)
(* that a node of the tree begins with.                                    *)
(***************************************************************************)
EXTENDS Integers, SequencesExt

CONSTANTS
    Files,  \* that the program's text is of
    Stmts,  \* the statements that functions are made of
    Asts    \* programs, as sequences of external declarations

VARIABLES
    ast,
    phase,   \* the function of translate_to_c that is called next
    stack,   \* the calls of the generator: the node each is for, the next
             \* part of it to generate, the text of the parts before
    belief,  \* the file and the line that the generator takes the next line
             \* of text for, line 0 when it has none
    text     \* what the generator makes of the tree

vars == <<ast, phase, stack, belief, text>>

Coord(file, line) == [file |-> file, line |-> line]
NoCoord == Coord("", 0)  \* of nodes that are not of the program

\* Nodes.  A statement or declaration without others in it takes up some lines
\* of text.
Simple(coord, lines) == [kind |-> "simple", coord |-> coord, lines |-> lines]
Declaration(coord, lines) == [kind |-> "decl", coord |-> coord, lines |-> lines]
Block(coord, items) == [kind |-> "block", coord |-> coord, items |-> items]
If(coord, branches) == [kind |-> "if", coord |-> coord, branches |-> branches]
Loop(coord, body) == [kind |-> "loop", coord |-> coord, body |-> body]
Func(coord, name, storage, inline, body) ==
    [kind |-> "func", coord |-> coord, name |-> name, storage |-> storage,
     inline |-> inline, body |-> body]
\* An object of a struct type, or a pointer to such objects or an array of them,
\* or a struct on its own, defining the struct if it lists fields.
Object(coord, declarator, struct, fields) ==
    [kind |-> "object", coord |-> coord, declarator |-> declarator, struct |-> struct,
     fields |-> fields]
Declarators == {"plain", "pointer", "array", "none"}

Coords == {NoCoord} \cup [file : Files, line : Nat \ {0}]
Declarations == [kind : {"decl"}, coord : Coords, lines : Nat \ {0}]
Externals ==
    Declarations
      \cup [kind : {"object"}, coord : Coords, declarator : Declarators, struct : STRING,
            fields : Seq(Declarations)]
      \cup [kind : {"func"}, coord : Coords, name : STRING,
            storage : {"", "static", "extern"}, inline : BOOLEAN, body : Seq(Stmts)]

ASSUME StmtsAssumption ==
    Stmts \subseteq
      [kind : {"simple"}, coord : Coords, lines : Nat \ {0}]
        \cup [kind : {"block"}, coord : Coords, items : Seq(Stmts)]
        \cup {node \in [kind : {"if"}, coord : Coords, branches : Seq(Stmts)] :
                Len(node.branches) \in 1..2}
        \cup [kind : {"loop"}, coord : Coords, body : Stmts]
ASSUME AstsAssumption == Asts \subseteq Seq(Externals)

-----------------------------------------------------------------------------
(* Changes of the tree.                                                    *)

FixInline(program) ==
    [i \in DOMAIN program |->
       IF program[i].kind = "func" /\ program[i].inline /\ program[i].storage # "static"
         THEN [program[i] EXCEPT !.storage = "extern"] ELSE program[i]]

\* Only a plain declarator is a TypeDecl: pointers, arrays and structs on their
\* own are passed over.
IsObjectOf(node, struct) ==
    node.kind = "object" /\ node.declarator = "plain" /\ node.struct = struct
IsObject(node) == IsObjectOf(node, node.struct)

\* Mutant: also for structs without a name.
SeenAnonymous(program, i) ==
    /\ IsObject(program[i])
    /\ \E j \in 1..(i - 1) : IsObjectOf(program[j], program[i].struct)

\* A struct of this name has been met before.
SeenBefore(program, i) ==
    /\ IsObject(program[i]) /\ program[i].struct # ""
    /\ \E j \in 1..(i - 1) : IsObjectOf(program[j], program[i].struct)

FixStructDef(program) ==
    [i \in DOMAIN program |->
       IF SeenBefore(program, i) THEN [program[i] EXCEPT !.fields = <<>>] ELSE program[i]]

IsReachError(node) == node.kind = "func" /\ node.name = "reach_error"

\* The definition is svcomp.c's: this one becomes a declaration in front.
ReachError(program) ==
    IF \E i \in DOMAIN program : IsReachError(program[i])
      THEN LET i == CHOOSE i \in DOMAIN program : IsReachError(program[i])
           IN  <<Declaration(NoCoord, 1)>> \o RemoveAt(program, i)
      ELSE program

\* The prototypes are parsed from a text without a file name.
DeclareScheduleFunctions(program) == [i \in 1..7 |-> Declaration(NoCoord, 1)] \o program

-----------------------------------------------------------------------------
(* LineDirectiveCGenerator.                                                *)

\* Braces, else, and what else is a line of its own.
Layout == [kind |-> "layout", coord |-> NoCoord]
File == [kind |-> "file", coord |-> NoCoord]

Line(node) == [role |-> node.kind, coord |-> node.coord]
Directive(coord) == [role |-> "directive", coord |-> coord]

\* The lines that the text of a node begins with, and the parts behind them.
Beginning(node) ==
    IF node.kind \in {"simple", "decl"}
      THEN [i \in 1..node.lines |-> IF i = 1 THEN Line(node) ELSE Line(Layout)]
      ELSE <<Line(node)>>

Parts(program, node) ==
    CASE node.kind = "file" -> program
      [] node.kind \in {"simple", "decl"} -> <<>>
      [] node.kind = "block" -> node.items \o <<Layout>>
      [] node.kind = "if" ->
           IF Len(node.branches) = 1 THEN node.branches
           ELSE <<node.branches[1], Layout, node.branches[2]>>
      [] node.kind = "loop" -> <<node.body, Layout>>
      [] node.kind = "object" ->
           IF node.fields = <<>> THEN <<>> ELSE <<Layout>> \o node.fields \o <<Layout>>
      [] node.kind = "func" -> <<Layout>> \o node.body \o <<Layout, Layout>>

\* Mutant: a statement counts as one line of text.
AdvanceByOne(from, lines) ==
    IF from.line = 0 THEN from ELSE Coord(from.file, from.line + 1)

\* The lines of the text, the directives that are in it included.
Advance(from, lines) ==
    IF from.line = 0 THEN from ELSE Coord(from.file, from.line + Len(lines))

\* _line_prefix
NeedsDirective(coord) == coord # NoCoord /\ coord # belief
Prefixed(coord, lines) ==
    IF NeedsDirective(coord) THEN <<Directive(coord)>> \o lines ELSE lines
BeliefBehind(coord, lines) ==
    Advance(IF NeedsDirective(coord) THEN coord ELSE belief, lines)

Top == stack[Len(stack)]
HasPart == Top.next \in DOMAIN Parts(ast, Top.node)
Part == Parts(ast, Top.node)[Top.next]
Frame(node, lines) == [node |-> node, next |-> 1, text |-> lines]

\* The part has been written, or its generation begins, or ends.
Write(lines) ==
    stack' = [stack EXCEPT ![Len(stack)] =
                [node |-> Top.node, next |-> Top.next + 1, text |-> Top.text \o lines]]
Push(frame) == stack' = Append([stack EXCEPT ![Len(stack)].next = @ + 1], frame)
Pop(lines) ==
    stack' = [i \in 1..(Len(stack) - 1) |->
                IF i = Len(stack) - 1 THEN [stack[i] EXCEPT !.text = @ \o lines]
                ELSE stack[i]]

Generating == phase = "generate" /\ UNCHANGED ast

WriteLayout ==
    /\ Generating /\ HasPart /\ Part = Layout
    /\ Write(<<Line(Layout)>>)
    /\ UNCHANGED <<phase, belief, text>>

\* _generate_stmt: the text comes first, and what the generator believes then
\* decides about the directive in front of it.
BeginStmt ==
    /\ Generating /\ HasPart /\ Part.kind \notin {"layout", "func"}
    /\ Push(Frame(Part, Beginning(Part)))
    /\ UNCHANGED <<phase, belief, text>>

EndStmt ==
    /\ Generating /\ ~HasPart /\ Top.node.kind \notin {"func", "file"}
    /\ Pop(Prefixed(Top.node.coord, Top.text))
    /\ belief' = BeliefBehind(Top.node.coord, Top.text)
    /\ UNCHANGED <<phase, text>>

\* Mutant: the belief is kept although the brace is a line nobody counts.
ForgetNothing(from) == from

Forget(from) == Coord(from.file, 0)

\* visit_FuncDef: the head gets its directive before the body is generated.
BeginFuncDef ==
    /\ Generating /\ HasPart /\ Part.kind = "func"
    /\ Push(Frame(Part, Prefixed(Part.coord, Beginning(Part))))
    /\ belief' = Forget(BeliefBehind(Part.coord, Beginning(Part)))
    /\ UNCHANGED <<phase, text>>

EndFuncDef ==
    /\ Generating /\ ~HasPart /\ Top.node.kind = "func"
    /\ Pop(Top.text)
    /\ UNCHANGED <<phase, belief, text>>

\* visit_FileAST
EndFileAST ==
    /\ Generating /\ ~HasPart /\ Top.node.kind = "file"
    /\ text' = Top.text /\ phase' = "compile"
    /\ UNCHANGED <<stack, belief>>

-----------------------------------------------------------------------------
(* The compiler, as a reader of the text.                                  *)

LastDirective(lines, i) == Max({j \in 1..(i - 1) : lines[j].role = "directive"} \cup {0})

\* What the compiler takes line i of a text to be, in its reports.
Seen(lines, i) ==
    LET d == LastDirective(lines, i)
    IN  IF d = 0 THEN Coord("generated", i)
        ELSE Coord(lines[d].coord.file, lines[d].coord.line + i - d - 1)

-----------------------------------------------------------------------------

Init ==
    /\ ast \in Asts /\ phase = "fix_inline"
    /\ stack = <<Frame(File, <<>>)>> /\ belief = NoCoord /\ text = <<>>

Tweak(this, next, program) ==
    /\ phase = this /\ phase' = next
    /\ ast' = program
    /\ UNCHANGED <<stack, belief, text>>

Next ==
    \/ Tweak("fix_inline", "fix_struct_def", FixInline(ast))
    \/ Tweak("fix_struct_def", "reach_error", FixStructDef(ast))
    \/ Tweak("reach_error", "declare", ReachError(ast))
    \/ Tweak("declare", "generate", DeclareScheduleFunctions(ast))
    \/ WriteLayout \/ BeginStmt \/ EndStmt
    \/ BeginFuncDef \/ EndFuncDef \/ EndFileAST

Spec == Init /\ [][Next]_vars

-----------------------------------------------------------------------------
(* Properties.                                                             *)

\* The lines of the text that a statement in a function begins with.
Statements ==
    {i \in DOMAIN text : text[i].role \in {"simple", "if", "loop"} /\ text[i].coord # NoCoord}
Right(i) == Seen(text, i) = text[i].coord

\* Every statement is reported at its own line.  (tweaks.py:46-51 and 57-63:
\* the line numbers as seen by the compiler "match the original source file",
\* and the bookkeeping errs with "a redundant-but-still-correct extra
\* directive, never a wrong one".)
LinesSurvive == \A i \in Statements : Right(i)

Flat ==
    \A node \in ToSet(ast) : node.kind = "func" =>
        \A statement \in ToSet(node.body) : statement.kind = "simple"

\* That is so while no statement is part of another, whatever is inserted
\* between them, declared around them and laid out over several lines.
FlatLinesSurvive == Flat => LinesSurvive

\* Statements that are parts of a statement, and a program whose statements are
\* written from the front to the back: start is the first line of the program
\* in each, 0 in inserted ones, and a condition or loop of the program has one
\* in a branch or body, if only a brace.
Items(statement) == ToSet(Parts(<<>>, statement)) \ {Layout}
InOrder(start) ==
    \A statement \in Stmts :
      /\ statement.coord # NoCoord => start[statement] = statement.coord.line
      /\ \A item \in Items(statement) :
           start[item] # 0 => start[statement] \in 1..start[item]
      /\ \/ statement.coord # NoCoord /\ statement.kind \in {"if", "loop"}
         \/ statement.coord = NoCoord /\ start[statement] # 0
         => \E item \in Items(statement) : start[item] # 0

\* The first line of the program behind line i, which may be a brace.
FirstBehind(i) ==
    LET behind == {j \in DOMAIN text : j > i /\ text[j].coord # NoCoord
                     /\ text[j].role \in {"simple", "if", "loop", "block"}}
    IN  IF behind = {} THEN {} ELSE {Min(behind)}

\* However far the count drifts behind nested statements, conditions and loops
\* are reported at their own lines, and so is what every function begins with:
\* the drift ends with the function.
ConditionsSurvive ==
    /\ \A i \in Statements : text[i].role \in {"if", "loop"} => Right(i)
    /\ \A i \in DOMAIN text : text[i].role = "func" => \A j \in FirstBehind(i) : Right(j)

Objects(program, struct) == {i \in DOMAIN program : IsObjectOf(program[i], struct)}
Defined(program, struct) == {i \in Objects(program, struct) : program[i].fields # <<>>}

\* pycparser repeats the definition of a struct with every object of one
\* declaration.  Of the plain objects of a struct that is defined with the first
\* of them, only that one defines it afterwards; those of a struct without a
\* name all do.  Pointers and arrays keep their definitions, so that the struct
\* of "struct S { .. } x, *p;" is still defined twice: the change is right for
\* plain objects and no others.  (The checks of fix_struct_def.)
RepeatsRemoved ==
    [][phase = "fix_struct_def" =>
         /\ \A node \in {n \in ToSet(ast) : IsObject(n)} :
              LET struct == node.struct
                  first == Min(Objects(ast, struct))
              IN  IF struct = "" THEN Defined(ast', struct) = Defined(ast, struct)
                  ELSE first \in Defined(ast, struct) => Defined(ast', struct) = {first}
         /\ \A i \in DOMAIN ast : ~IsObject(ast[i]) => ast'[i] = ast[i]]_vars

=============================================================================
