----------------------- MODULE LineDirectivesProofs ------------------------
(***************************************************************************)
(* Proofs about LineDirectives, for every program: structs are defined     *)
(* once, the statements of flat functions are reported at their own lines, *)
(* and so are conditions and loops, and what functions begin with, in      *)
(* every program that is written from the front to the back.               *)
(***************************************************************************)
EXTENDS LineDirectives, TLAPS, SequenceTheorems, WellFoundedInduction

Positions == [file : Files \cup {""}, line : Nat]
Roles == {"directive", "layout", "file", "decl", "object", "func", "simple", "block", "if", "loop"}
TextLines == [role : Roles, coord : Coords]
Texts == Seq(TextLines)
Nodes == {File} \cup Externals \cup Stmts
Frames == [node : Nodes, next : Nat \ {0}, text : Texts]
Phases == {"fix_inline", "fix_struct_def", "reach_error", "declare", "generate", "compile"}

\* The calls are nested like the nodes are.
Linked(k) ==
    LET parts == Parts(ast, stack[k - 1].node)
        i == stack[k - 1].next - 1
    IN  i \in DOMAIN parts /\ stack[k].node = parts[i] /\ parts[i].kind # "layout"

\* Statements in functions, and declarations of fields in other externals.
Inside ==
    \A k \in 3..Len(stack) :
      IF stack[2].node.kind = "func" THEN stack[k].node \in Stmts
      ELSE stack[k].node.kind = "decl"

StackType ==
    /\ stack \in Seq(Frames) /\ Len(stack) >= 1 /\ stack[1].node = File
    /\ \A k \in 2..Len(stack) : Linked(k)
    /\ Inside

TypeInv ==
    /\ ast \in Seq(Externals) /\ phase \in Phases
    /\ StackType
    /\ belief \in Positions /\ text \in Texts
    /\ phase \in Phases \ {"generate", "compile"} =>
         stack = <<Frame(File, <<>>)>> /\ belief = NoCoord /\ text = <<>>
    /\ phase = "generate" => text = <<>>
    /\ phase = "compile" => Len(stack) = 1 /\ text = stack[1].text

-----------------------------------------------------------------------------
(* Nodes.                                                                  *)

LEMMA CoordTypes == NoCoord \in Coords /\ Coords \subseteq Positions
  <1>1. NoCoord \in Positions
    BY DEF NoCoord, Coord, Positions
  <1>2. [file : Files, line : Nat \ {0}] \subseteq Positions
    BY DEF Positions
  <1> QED
    BY <1>1, <1>2 DEF Coords

LEMMA NodeKinds ==
    ASSUME NEW node \in Nodes
    PROVE  /\ node.coord \in Coords
           /\ node.kind \in {"file", "decl", "object", "func", "simple", "block", "if", "loop"}
           /\ node.kind = "file" <=> node = File
           /\ node.kind = "decl" => node \in Declarations
           /\ node.kind \in {"decl", "object", "func"} <=> node \in Externals
           /\ node.kind \in {"simple", "block", "if", "loop"} <=> node \in Stmts
           /\ node.kind \in {"simple", "decl"} => node.lines \in Nat \ {0}
           /\ node.kind = "block" => node.items \in Seq(Stmts)
           /\ node.kind = "if" => node.branches \in Seq(Stmts) /\ Len(node.branches) \in 1..2
           /\ node.kind = "loop" => node.body \in Stmts
           /\ node.kind = "object" => node.fields \in Seq(Declarations)
           /\ node.kind = "func" => node.body \in Seq(Stmts)
  <1>1. node = File \/ node \in Externals \/ node \in Stmts
    BY DEF Nodes
  <1>2. ASSUME node = File
        PROVE  node.kind = "file" /\ node.coord = NoCoord
    BY <1>2 DEF File
  <1>3. ASSUME node \in Externals
        PROVE  /\ node.coord \in Coords
               /\ \/ node.kind = "decl" /\ node \in Declarations /\ node.lines \in Nat \ {0}
                  \/ node.kind = "object" /\ node.fields \in Seq(Declarations)
                  \/ node.kind = "func" /\ node.body \in Seq(Stmts)
    BY <1>3 DEF Externals, Declarations
  <1>4. ASSUME node \in Stmts
        PROVE  /\ node.coord \in Coords
               /\ \/ node.kind = "simple" /\ node.lines \in Nat \ {0}
                  \/ node.kind = "block" /\ node.items \in Seq(Stmts)
                  \/ /\ node.kind = "if"
                     /\ node.branches \in Seq(Stmts) /\ Len(node.branches) \in 1..2
                  \/ node.kind = "loop" /\ node.body \in Stmts
    BY <1>4, StmtsAssumption
  <1> QED
    BY <1>1, <1>2, <1>3, <1>4, CoordTypes

\* What the parts of a node are.
Within(node) ==
    {Layout} \cup (CASE node.kind = "file" -> Externals
                     [] node.kind = "object" -> Declarations
                     [] OTHER -> Stmts)

LEMMA PartsType ==
    ASSUME NEW node \in Nodes, NEW program \in Seq(Externals)
    PROVE  Parts(program, node) \in Seq(Within(node))
  <1> USE NodeKinds
  <1>1. CASE node.kind = "file"
    BY <1>1 DEF Parts, Within
  <1>2. CASE node.kind \in {"simple", "decl"}
    BY <1>2 DEF Parts, Within
  <1>3. CASE node.kind = "block"
    BY <1>3 DEF Parts, Within
  <1>4. CASE node.kind = "if"
    <2>1. CASE Len(node.branches) = 1
      BY <1>4, <2>1 DEF Parts, Within
    <2>2. CASE Len(node.branches) = 2
      BY <1>4, <2>2 DEF Parts, Within
    <2> QED
      BY <1>4, <2>1, <2>2
  <1>5. CASE node.kind = "loop"
    BY <1>5 DEF Parts, Within
  <1>6. CASE node.kind = "object"
    <2>1. /\ Parts(program, node) = IF node.fields = <<>> THEN <<>> ELSE <<Layout>> \o node.fields \o <<Layout>>
          /\ Within(node) = {Layout} \cup Declarations
      BY <1>6 DEF Parts, Within
    <2>2. <<Layout>> \in Seq(Within(node)) /\ node.fields \in Seq(Within(node))
      BY <1>6, <2>1
    <2>3. <<>> \in Seq(Within(node)) /\ <<Layout>> \o node.fields \o <<Layout>> \in Seq(Within(node))
      BY <2>2
    <2> QED
      BY <2>1, <2>3
  <1>7. CASE node.kind = "func"
    BY <1>7 DEF Parts, Within
  <1> QED
    BY <1>1, <1>2, <1>3, <1>4, <1>5, <1>6, <1>7

LEMMA PartType ==
    ASSUME NEW node \in Nodes, NEW program \in Seq(Externals),
           NEW i \in DOMAIN Parts(program, node), Parts(program, node)[i].kind # "layout"
    PROVE  /\ Parts(program, node)[i] \in Nodes \ {File}
           /\ node.kind = "file" => Parts(program, node)[i] \in Externals
           /\ node.kind = "object" => Parts(program, node)[i].kind = "decl"
           /\ node.kind \notin {"file", "object"} => Parts(program, node)[i] \in Stmts
  <1>1. Parts(program, node)[i] \in Within(node)
    BY PartsType
  <1>2. Parts(program, node)[i] # Layout
    BY DEF Layout
  <1>3. CASE node.kind = "file"
    <2>1. Parts(program, node)[i] \in Externals
      BY <1>1, <1>2, <1>3 DEF Within
    <2> QED
      BY <2>1, <1>3, NodeKinds DEF Nodes
  <1>4. CASE node.kind = "object"
    <2>1. Parts(program, node)[i] \in Declarations
      BY <1>1, <1>2, <1>4 DEF Within
    <2>2. Parts(program, node)[i] \in Externals /\ Parts(program, node)[i].kind = "decl"
      BY <2>1 DEF Externals, Declarations
    <2> QED
      BY <2>2, <1>4, NodeKinds DEF Nodes
  <1>5. CASE node.kind \notin {"file", "object"}
    <2>1. Parts(program, node)[i] \in Stmts
      BY <1>1, <1>2, <1>5 DEF Within
    <2> QED
      BY <2>1, <1>5, NodeKinds DEF Nodes
  <1> QED
    BY <1>3, <1>4, <1>5

LEMMA BeginningType ==
    ASSUME NEW node \in Nodes
    PROVE  /\ Beginning(node) \in Texts /\ Len(Beginning(node)) >= 1
           /\ Beginning(node)[1] = Line(node)
           /\ \A i \in 2..Len(Beginning(node)) : Beginning(node)[i] = Line(Layout)
  <1>1. Line(node) \in TextLines /\ Line(Layout) \in TextLines
    BY NodeKinds, CoordTypes DEF Line, Layout, TextLines, Roles
  <1>2. CASE node.kind \in {"simple", "decl"}
    BY <1>1, <1>2, NodeKinds DEF Beginning, Texts
  <1>3. CASE node.kind \notin {"simple", "decl"}
    BY <1>1, <1>3 DEF Beginning, Texts
  <1> QED
    BY <1>2, <1>3

-----------------------------------------------------------------------------
(* The stack.                                                              *)

\* Where a call may stand: the program's own at the bottom, functions on it.
LEMMA FrameType ==
    ASSUME stack \in Seq(Frames), NEW k \in 1..Len(stack)
    PROVE  /\ stack[k] \in Frames /\ stack[k].node \in Nodes
           /\ stack[k].next \in Nat \ {0} /\ stack[k].text \in Texts
  <1>1. stack[k] \in Frames
    OBVIOUS
  <1> QED
    BY <1>1 DEF Frames

LEMMA Places ==
    ASSUME TypeInv, NEW k \in 1..Len(stack)
    PROVE  /\ stack[k] \in Frames /\ stack[k].node \in Nodes
           /\ stack[k].next \in Nat \ {0} /\ stack[k].text \in Texts
           /\ stack[k].node.kind = "file" <=> k = 1
           /\ k = 2 => stack[k].node \in Externals
           /\ k > 2 => IF stack[2].node.kind = "func" THEN stack[k].node \in Stmts
                       ELSE stack[k].node.kind = "decl"
           /\ stack[k].node.kind = "func" => k = 2
  <1>1. /\ stack[k] \in Frames /\ stack[k].node \in Nodes
        /\ stack[k].next \in Nat \ {0} /\ stack[k].text \in Texts
    BY FrameType DEF TypeInv, StackType
  <1>2. CASE k = 1
    BY <1>1, <1>2, NodeKinds DEF TypeInv, StackType
  <1>3. CASE k > 1
    <2> DEFINE parent == stack[k - 1].node
    <2>1. Linked(k) /\ ast \in Seq(Externals) /\ k - 1 \in 1..Len(stack)
      BY <1>3 DEF TypeInv, StackType
    <2>2. parent \in Nodes /\ (k - 1 = 1 => parent = File)
      BY <2>1, FrameType DEF TypeInv, StackType
    <2>3. PICK i \in DOMAIN Parts(ast, parent) :
              stack[k].node = Parts(ast, parent)[i] /\ Parts(ast, parent)[i].kind # "layout"
      BY <2>1 DEF Linked
    <2>4. stack[k].node \in Nodes \ {File} /\ (parent.kind = "file" => stack[k].node \in Externals)
      BY <2>1, <2>2, <2>3, PartType
    <2>5. k = 2 => stack[k].node \in Externals
      BY <2>2, <2>4, NodeKinds
    <2>6. k > 2 => IF stack[2].node.kind = "func" THEN stack[k].node \in Stmts
                   ELSE stack[k].node.kind = "decl"
      BY DEF TypeInv, StackType, Inside
    <2> QED
      BY <1>1, <1>3, <2>4, <2>5, <2>6, NodeKinds
  <1> QED
    BY <1>1, <1>2, <1>3

LEMMA Wrote ==
    ASSUME stack \in Seq(Frames), Len(stack) >= 1, NEW lines \in Texts, Write(lines)
    PROVE  LET n == Len(stack) IN
           /\ stack' \in Seq(Frames) /\ Len(stack') = n
           /\ \A k \in 1..(n - 1) : stack'[k] = stack[k]
           /\ stack'[n].node = stack[n].node /\ stack'[n].next = stack[n].next + 1
           /\ stack'[n].text = stack[n].text \o lines
  <1> DEFINE n == Len(stack)
             f == [node |-> stack[n].node, next |-> stack[n].next + 1,
                   text |-> stack[n].text \o lines]
  <1>1. /\ n \in 1..Len(stack) /\ stack[n] \in Frames
        /\ stack[n].node \in Nodes /\ stack[n].next \in Nat \ {0} /\ stack[n].text \in Texts
    BY FrameType
  <1>2. /\ f \in Frames
        /\ f.node = stack[n].node /\ f.next = stack[n].next + 1
        /\ f.text = stack[n].text \o lines
    <2>1. stack[n].text \o lines \in Texts
      BY <1>1 DEF Texts
    <2> QED
      BY <1>1, <2>1 DEF Frames
  <1>3. stack' = [stack EXCEPT ![n] = f]
    BY DEF Write, Top
  <1> HIDE DEF f
  <1>4. stack' \in Seq(Frames) /\ Len(stack') = n /\ stack'[n] = f
    BY <1>1, <1>2, <1>3
  <1>5. \A k \in 1..(n - 1) : stack'[k] = stack[k]
    BY <1>1, <1>3
  <1> QED
    BY <1>2, <1>4, <1>5

LEMMA Pushed ==
    ASSUME stack \in Seq(Frames), Len(stack) >= 1, NEW frame \in Frames, Push(frame)
    PROVE  LET n == Len(stack) IN
           /\ stack' \in Seq(Frames) /\ Len(stack') = n + 1
           /\ \A k \in 1..(n - 1) : stack'[k] = stack[k]
           /\ stack'[n].node = stack[n].node /\ stack'[n].next = stack[n].next + 1
           /\ stack'[n].text = stack[n].text
           /\ stack'[n + 1] = frame
  <1> DEFINE n == Len(stack)
             f == [stack[n] EXCEPT !.next = @ + 1]
             grown == [stack EXCEPT ![n] = f]
  <1>1. /\ n \in 1..Len(stack) /\ stack[n] \in Frames
        /\ stack[n].node \in Nodes /\ stack[n].next \in Nat \ {0} /\ stack[n].text \in Texts
    BY FrameType
  <1>2. /\ f \in Frames
        /\ f.node = stack[n].node /\ f.next = stack[n].next + 1 /\ f.text = stack[n].text
    BY <1>1 DEF Frames
  <1>3. stack' = Append(grown, frame)
    BY DEF Push
  <1> HIDE DEF f
  <1>4. grown \in Seq(Frames) /\ Len(grown) = n /\ grown[n] = f
    BY <1>1, <1>2
  <1>5. \A k \in 1..(n - 1) : grown[k] = stack[k]
    BY <1>1
  <1> HIDE DEF grown
  <1>6. /\ stack' \in Seq(Frames) /\ Len(stack') = n + 1 /\ stack'[n + 1] = frame
        /\ \A k \in 1..n : stack'[k] = grown[k]
    BY <1>1, <1>3, <1>4
  <1> QED
    BY <1>1, <1>2, <1>4, <1>5, <1>6

LEMMA Popped ==
    ASSUME stack \in Seq(Frames), Len(stack) >= 2, NEW lines \in Texts, Pop(lines)
    PROVE  LET n == Len(stack) - 1 IN
           /\ stack' \in Seq(Frames) /\ Len(stack') = n
           /\ \A k \in 1..(n - 1) : stack'[k] = stack[k]
           /\ stack'[n].node = stack[n].node /\ stack'[n].next = stack[n].next
           /\ stack'[n].text = stack[n].text \o lines
  <1> DEFINE n == Len(stack) - 1
             f == [stack[n] EXCEPT !.text = @ \o lines]
  <1>1. /\ n \in 1..Len(stack) /\ stack[n] \in Frames
        /\ stack[n].node \in Nodes /\ stack[n].next \in Nat \ {0} /\ stack[n].text \in Texts
    BY FrameType
  <1>2. /\ f \in Frames
        /\ f.node = stack[n].node /\ f.next = stack[n].next
        /\ f.text = stack[n].text \o lines
    <2>1. stack[n].text \o lines \in Texts
      BY <1>1 DEF Texts
    <2> QED
      BY <1>1, <2>1 DEF Frames
  <1>3. stack' = [i \in 1..n |-> IF i = n THEN f ELSE stack[i]]
    BY DEF Pop
  <1> HIDE DEF f
  <1>4. stack' \in Seq(Frames) /\ Len(stack') = n /\ stack'[n] = f
    BY <1>1, <1>2, <1>3
  <1>5. \A k \in 1..(n - 1) : stack'[k] = stack[k]
    BY <1>1, <1>3
  <1> QED
    BY <1>1, <1>2, <1>4, <1>5

-----------------------------------------------------------------------------
(* Types.                                                                  *)

LEMMA TweaksType ==
    ASSUME NEW program \in Seq(Externals)
    PROVE  /\ FixInline(program) \in Seq(Externals)
           /\ FixStructDef(program) \in Seq(Externals)
           /\ ReachError(program) \in Seq(Externals)
           /\ DeclareScheduleFunctions(program) \in Seq(Externals)
  <1>1. FixInline(program) \in Seq(Externals)
    <2>1. ASSUME NEW node \in Externals, node.kind = "func"
          PROVE  [node EXCEPT !.storage = "extern"] \in Externals
      BY <2>1 DEF Externals, Declarations
    <2>2. \A i \in 1..Len(program) : FixInline(program)[i] \in Externals
      BY <2>1 DEF FixInline
    <2>3. FixInline(program) = [i \in 1..Len(program) |-> FixInline(program)[i]]
      BY DEF FixInline
    <2> QED
      BY <2>2, <2>3
  <1>2. FixStructDef(program) \in Seq(Externals)
    <2>1. ASSUME NEW node \in Externals, node.kind = "object"
          PROVE  [node EXCEPT !.fields = <<>>] \in Externals
      <3> DEFINE Objs == [kind : {"object"}, coord : Coords, declarator : Declarators,
                          struct : STRING, fields : Seq(Declarations)]
      <3>1. node \in Objs
        BY <2>1 DEF Externals, Declarations
      <3>2. <<>> \in Seq(Declarations)
        OBVIOUS
      <3>3. [node EXCEPT !.fields = <<>>] \in Objs
        BY <3>1, <3>2
      <3> QED
        BY <3>3 DEF Externals
    <2>2. ASSUME NEW i \in 1..Len(program) PROVE FixStructDef(program)[i] \in Externals
      <3>1. /\ program[i] \in Externals
            /\ FixStructDef(program)[i] = IF SeenBefore(program, i)
                 THEN [program[i] EXCEPT !.fields = <<>>] ELSE program[i]
        BY DEF FixStructDef
      <3> QED
        BY <2>1, <3>1 DEF SeenBefore, IsObject, IsObjectOf
    <2>3. FixStructDef(program) = [i \in 1..Len(program) |-> FixStructDef(program)[i]]
      BY DEF FixStructDef
    <2> QED
      BY <2>2, <2>3
  <1>3. Declaration(NoCoord, 1) \in Externals
    <2>1. Declaration(NoCoord, 1) \in Declarations
      BY CoordTypes DEF Declaration, Declarations
    <2> QED
      BY <2>1 DEF Externals
  <1>4. DeclareScheduleFunctions(program) \in Seq(Externals)
    <2>1. [i \in 1..7 |-> Declaration(NoCoord, 1)] \in Seq(Externals)
      BY <1>3
    <2> QED
      BY <2>1 DEF DeclareScheduleFunctions
  <1>5. ReachError(program) \in Seq(Externals)
    <2>1. ASSUME \E i \in DOMAIN program : IsReachError(program[i])
          PROVE  ReachError(program) \in Seq(Externals)
      <3> DEFINE i == CHOOSE i \in DOMAIN program : IsReachError(program[i])
      <3>1. i \in 1..Len(program)
        BY <2>1
      <3> HIDE DEF i
      <3>2. RemoveAt(program, i) \in Seq(Externals)
        BY <3>1 DEF RemoveAt
      <3>3. <<Declaration(NoCoord, 1)>> \o RemoveAt(program, i) \in Seq(Externals)
        BY <1>3, <3>2
      <3> QED
        BY <2>1, <3>3 DEF ReachError, i
    <2> QED
      BY <2>1 DEF ReachError
  <1> QED
    BY <1>1, <1>2, <1>4, <1>5

LEMMA PrefixType ==
    ASSUME NEW coord \in Coords, NEW lines \in Texts, belief \in Positions
    PROVE  /\ Prefixed(coord, lines) \in Texts
           /\ BeliefBehind(coord, lines) \in Positions
           /\ Forget(BeliefBehind(coord, lines)) \in Positions
  <1>1. Directive(coord) \in TextLines
    BY DEF Directive, TextLines, Roles
  <1>2. Prefixed(coord, lines) \in Texts
    BY <1>1 DEF Prefixed, Texts
  <1>3. ASSUME NEW from \in Positions
        PROVE  Advance(from, lines) \in Positions /\ Forget(from) \in Positions
    <2>1. PICK l \in Nat : l = from.line + Len(lines)
      <3>1. Len(lines) \in Nat
        BY DEF Texts
      <3>2. from.line \in Nat
        BY DEF Positions
      <3> QED
        BY <3>1, <3>2
    <2>2. Coord(from.file, l) \in Positions
      BY DEF Positions, Coord
    <2>3. Advance(from, lines) \in Positions
      BY <2>1, <2>2 DEF Advance
    <2>4. Forget(from) \in Positions
      BY DEF Forget, Coord, Positions
    <2> QED
      BY <2>3, <2>4
  <1>4. BeliefBehind(coord, lines) \in Positions
    BY <1>3, CoordTypes DEF BeliefBehind
  <1> QED
    BY <1>2, <1>3, <1>4

LEMMA LayoutType == <<Line(Layout)>> \in Texts
  BY CoordTypes DEF Line, Layout, Texts, TextLines, Roles

LEMMA TopType ==
    ASSUME TypeInv
    PROVE  /\ Top = stack[Len(stack)] /\ Len(stack) \in Nat \ {0}
           /\ Top.node \in Nodes /\ Top.node.coord \in Coords
           /\ Top.next \in Nat \ {0} /\ Top.text \in Texts
           /\ IF Top.node.kind = "file" THEN Len(stack) = 1 ELSE Len(stack) >= 2
           /\ Top.node.kind = "func" => Len(stack) = 2
  <1>1. PICK n \in Nat \ {0} : n = Len(stack)
    BY DEF TypeInv, StackType
  <1>2. n \in 1..Len(stack) /\ Top = stack[n]
    BY <1>1 DEF Top
  <1>3. /\ stack[n].node \in Nodes /\ stack[n].next \in Nat \ {0} /\ stack[n].text \in Texts
        /\ stack[n].node.kind = "file" <=> n = 1
        /\ stack[n].node.kind = "func" => n = 2
    BY <1>2, Places
  <1>4. IF stack[n].node.kind = "file" THEN n = 1 ELSE n >= 2
    BY <1>3
  <1> QED
    BY <1>1, <1>2, <1>3, <1>4, NodeKinds

\* The frames that are pushed.
LEMMA PartFrames ==
    ASSUME TypeInv, HasPart, Part.kind # "layout"
    PROVE  /\ Part \in Nodes \ {File}
           /\ Frame(Part, Beginning(Part)) \in Frames
           /\ Frame(Part, Prefixed(Part.coord, Beginning(Part))) \in Frames
           /\ Len(stack) = 1 => Part \in Externals
           /\ Len(stack) >= 2 => IF stack[2].node.kind = "func" THEN Part \in Stmts
                                 ELSE Part.kind = "decl" /\ Len(stack) = 2
           /\ Part.kind = "func" => Len(stack) = 1
  <1> DEFINE n == Len(stack)
  <1>1. /\ n \in Nat \ {0} /\ n \in 1..Len(stack)
        /\ ast \in Seq(Externals) /\ belief \in Positions
        /\ Top = stack[n] /\ Top.node \in Nodes /\ Top.next \in DOMAIN Parts(ast, Top.node)
    BY FrameType DEF TypeInv, StackType, Top, HasPart
  <1>2. /\ Part \in Nodes \ {File}
        /\ Top.node.kind = "file" => Part \in Externals
        /\ Top.node.kind = "object" => Part.kind = "decl"
        /\ Top.node.kind \notin {"file", "object"} => Part \in Stmts
    BY <1>1, PartType DEF Part
  <1>3. /\ Frame(Part, Beginning(Part)) \in Frames
        /\ Frame(Part, Prefixed(Part.coord, Beginning(Part))) \in Frames
    <2>1. Beginning(Part) \in Texts /\ Prefixed(Part.coord, Beginning(Part)) \in Texts
      BY <1>1, <1>2, BeginningType, PrefixType, NodeKinds
    <2> QED
      BY <1>2, <2>1 DEF Frame, Frames
  <1>4. n = 1 <=> Top.node.kind = "file"
    BY <1>1, Places
  <1>5. ASSUME n >= 2
        PROVE  IF stack[2].node.kind = "func" THEN Part \in Stmts
               ELSE Part.kind = "decl" /\ n = 2
    <2>1. CASE n = 2
      <3>1. Top.node \in Externals
        BY <1>1, <2>1, Places
      <3>2. Top.node.kind \in {"object", "func"}
        BY <1>1, <3>1, NodeKinds DEF Parts
      <3> QED
        BY <1>1, <1>2, <2>1, <3>2
    <2>2. CASE n > 2
      <3>1. IF stack[2].node.kind = "func" THEN Top.node \in Stmts ELSE Top.node.kind = "decl"
        BY <1>1, <2>2, Places
      <3>2. Top.node.kind # "decl"
        BY <1>1 DEF Parts
      <3> QED
        BY <1>1, <1>2, <3>1, <3>2, NodeKinds
    <2>3. n = 2 \/ n > 2
      <3>1. n \in Nat
        BY <1>1
      <3> QED
        BY <3>1, <1>5
    <2> QED
      BY <2>1, <2>2, <2>3
  <1> QED
    BY <1>1, <1>2, <1>3, <1>4, <1>5, NodeKinds

LEMMA StackWritten ==
    ASSUME TypeInv, UNCHANGED ast, NEW lines \in Texts, Write(lines)
    PROVE  StackType'
  <1> DEFINE n == Len(stack)
  <1>1. /\ stack' \in Seq(Frames) /\ Len(stack') = n /\ n \in Nat \ {0}
        /\ \A k \in 1..(n - 1) : stack'[k] = stack[k]
        /\ stack'[n].node = stack[n].node /\ stack'[n].next = stack[n].next + 1
    BY Wrote DEF TypeInv, StackType
  <1>2. \A k \in 1..n : stack'[k].node = stack[k].node
    BY <1>1
  <1>3. ASSUME NEW k \in 2..n PROVE Linked(k)'
    BY <1>1, <1>2 DEF TypeInv, StackType, Linked
  <1>4. Inside'
    <2>1. ASSUME NEW k \in 3..n
          PROVE  IF stack'[2].node.kind = "func" THEN stack'[k].node \in Stmts
                 ELSE stack'[k].node.kind = "decl"
      <3>1. k \in 3..Len(stack) /\ 2 \in 1..n /\ k \in 1..n
        BY <1>1
      <3>2. IF stack[2].node.kind = "func" THEN stack[k].node \in Stmts
            ELSE stack[k].node.kind = "decl"
        BY <3>1 DEF TypeInv, StackType, Inside
      <3> QED
        BY <1>2, <3>1, <3>2
    <2> QED
      BY <1>1, <2>1 DEF Inside
  <1> QED
    BY <1>1, <1>2, <1>3, <1>4 DEF TypeInv, StackType

LEMMA StackPushed ==
    ASSUME TypeInv, UNCHANGED ast, HasPart, Part.kind # "layout",
           NEW frame \in Frames, frame.node = Part, Push(frame)
    PROVE  StackType'
  <1> PICK n \in Nat \ {0} : n = Len(stack)
    BY DEF TypeInv, StackType
  <1>1. /\ stack' \in Seq(Frames) /\ Len(stack') = n + 1 /\ n \in 1..Len(stack)
        /\ \A k \in 1..(n - 1) : stack'[k] = stack[k]
        /\ stack'[n].node = stack[n].node /\ stack'[n].next = stack[n].next + 1
        /\ stack'[n + 1].node = Part
    BY Pushed DEF TypeInv, StackType
  <1>2. \A k \in 1..n : stack'[k].node = stack[k].node
    BY <1>1
  <1>3. ASSUME NEW k \in 2..n PROVE Linked(k)'
    BY <1>1, <1>2 DEF TypeInv, StackType, Linked
  <1>4. Linked(n + 1)'
    <2>1. stack[n].next \in DOMAIN Parts(ast, stack[n].node) /\ stack[n].next \in Nat
      BY <1>1, FrameType DEF HasPart, Top, TypeInv, StackType
    <2>2. n + 1 - 1 = n /\ stack'[n].next - 1 = stack[n].next
      BY <1>1, <2>1
    <2>3. /\ Part = Parts(ast, stack[n].node)[stack[n].next]
          /\ stack[n].next \in DOMAIN Parts(ast, stack'[n].node)
      BY <1>1, <2>1 DEF Part, Top
    <2> QED
      BY <1>1, <2>2, <2>3 DEF Linked
  <1>5. Inside'
    <2>1. ASSUME NEW k \in 3..(n + 1)
          PROVE  IF stack[2].node.kind = "func" THEN stack'[k].node \in Stmts
                 ELSE stack'[k].node.kind = "decl"
      <3>1. CASE k = n + 1
        BY <1>1, <3>1, PartFrames
      <3>2. CASE k # n + 1
        <4>1. k \in 3..n
          BY <1>1, <3>2
        <4> QED
          BY <1>2, <4>1 DEF TypeInv, StackType, Inside
      <3> QED
        BY <3>1, <3>2
    <2>2. n >= 2 => stack'[2].node = stack[2].node
      BY <1>1, <1>2
    <2> QED
      BY <1>1, <2>1, <2>2 DEF Inside
  <1>6. \A k \in 2..(n + 1) : Linked(k)'
    <2>1. \A k \in 2..(n + 1) : k \in 2..n \/ k = n + 1
      BY <1>1
    <2> QED
      BY <1>3, <1>4, <2>1
  <1>7. stack'[1].node = File
    BY <1>1, <1>2 DEF TypeInv, StackType
  <1> QED
    BY <1>1, <1>5, <1>6, <1>7 DEF StackType

LEMMA StackPopped ==
    ASSUME TypeInv, UNCHANGED ast, NEW lines \in Texts, Len(stack) >= 2, Pop(lines)
    PROVE  StackType'
  <1> DEFINE n == Len(stack) - 1
  <1>1. /\ stack' \in Seq(Frames) /\ Len(stack') = n /\ n \in Nat \ {0}
        /\ \A k \in 1..(n - 1) : stack'[k] = stack[k]
        /\ stack'[n].node = stack[n].node /\ stack'[n].next = stack[n].next
    BY Popped DEF TypeInv, StackType
  <1>2. \A k \in 1..n : stack'[k].node = stack[k].node /\ stack'[k].next = stack[k].next
    BY <1>1
  <1>3. ASSUME NEW k \in 2..n PROVE Linked(k)'
    BY <1>1, <1>2 DEF TypeInv, StackType, Linked
  <1>4. Inside'
    <2>1. ASSUME NEW k \in 3..n
          PROVE  IF stack'[2].node.kind = "func" THEN stack'[k].node \in Stmts
                 ELSE stack'[k].node.kind = "decl"
      <3>1. k \in 3..Len(stack) /\ 2 \in 1..n /\ k \in 1..n
        BY <1>1
      <3>2. IF stack[2].node.kind = "func" THEN stack[k].node \in Stmts
            ELSE stack[k].node.kind = "decl"
        BY <3>1 DEF TypeInv, StackType, Inside
      <3> QED
        BY <1>2, <3>1, <3>2
    <2> QED
      BY <1>1, <2>1 DEF Inside
  <1> QED
    BY <1>1, <1>2, <1>3, <1>4 DEF TypeInv, StackType

LEMMA TypeInit == Init => TypeInv
  <1> SUFFICES ASSUME Init PROVE TypeInv
    OBVIOUS
  <1>1. ast \in Seq(Externals) /\ belief \in Positions /\ text \in Texts /\ phase \in Phases
    BY AstsAssumption, CoordTypes DEF Init, Texts, Phases
  <1>2. Frame(File, <<>>) \in Frames /\ Frame(File, <<>>).node = File
    BY DEF Frame, Frames, Nodes, Texts
  <1>3. /\ stack \in Seq(Frames) /\ Len(stack) = 1 /\ stack[1].node = File
    BY <1>2 DEF Init
  <1>4. StackType
    BY <1>3 DEF StackType, Inside
  <1> QED
    BY <1>1, <1>4 DEF Init, TypeInv

LEMMA TweakStep ==
    ASSUME TypeInv, NEW this, NEW next \in Phases \ {"compile"}, NEW program \in Seq(Externals),
           this \in Phases \ {"generate", "compile"}, Tweak(this, next, program)
    PROVE  TypeInv'
  <1>1. /\ phase \in Phases \ {"generate", "compile"} /\ phase' \in Phases \ {"compile"}
        /\ ast' \in Seq(Externals) /\ UNCHANGED <<stack, belief, text>>
        /\ stack = <<Frame(File, <<>>)>> /\ belief = NoCoord /\ text = <<>>
    BY DEF Tweak, TypeInv
  <1>2. Len(stack) = 1
    BY <1>1
  <1>3. StackType'
    BY <1>1, <1>2 DEF TypeInv, StackType, Inside
  <1> QED
    BY <1>1, <1>3 DEF TypeInv

LEMMA TypeStep == TypeInv /\ [Next]_vars => TypeInv'
  <1> SUFFICES ASSUME TypeInv, [Next]_vars PROVE TypeInv'
    OBVIOUS
  <1>1. CASE Tweak("fix_inline", "fix_struct_def", FixInline(ast))
    BY <1>1, TweakStep, TweaksType DEF TypeInv, Phases
  <1>2. CASE Tweak("fix_struct_def", "reach_error", FixStructDef(ast))
    BY <1>2, TweakStep, TweaksType DEF TypeInv, Phases
  <1>3. CASE Tweak("reach_error", "declare", ReachError(ast))
    BY <1>3, TweakStep, TweaksType DEF TypeInv, Phases
  <1>4. CASE Tweak("declare", "generate", DeclareScheduleFunctions(ast))
    BY <1>4, TweakStep, TweaksType DEF TypeInv, Phases
  <1>5. CASE WriteLayout
    <2>1. StackType'
      BY <1>5, StackWritten, LayoutType DEF WriteLayout, Generating
    <2> QED
      BY <1>5, <2>1 DEF WriteLayout, Generating, TypeInv, Phases
  <1>6. CASE BeginStmt
    <2>1. HasPart /\ Part.kind # "layout" /\ UNCHANGED ast /\ Push(Frame(Part, Beginning(Part)))
      BY <1>6 DEF BeginStmt, Generating
    <2>2. StackType'
      BY <2>1, PartFrames, StackPushed DEF Frame
    <2> QED
      BY <1>6, <2>2 DEF BeginStmt, Generating, TypeInv, Phases
  <1>7. CASE EndStmt
    <2>1. Len(stack) >= 2 /\ Top.node.coord \in Coords /\ Top.text \in Texts
      BY <1>7, TopType DEF EndStmt
    <2>2. /\ Prefixed(Top.node.coord, Top.text) \in Texts
          /\ BeliefBehind(Top.node.coord, Top.text) \in Positions
      BY <2>1, PrefixType DEF TypeInv
    <2>3. StackType'
      BY <1>7, <2>1, <2>2, StackPopped DEF EndStmt, Generating
    <2> QED
      BY <1>7, <2>2, <2>3 DEF EndStmt, Generating, TypeInv, Phases
  <1>8. CASE BeginFuncDef
    <2>1. /\ HasPart /\ Part.kind # "layout" /\ UNCHANGED ast
          /\ Push(Frame(Part, Prefixed(Part.coord, Beginning(Part))))
      BY <1>8 DEF BeginFuncDef, Generating
    <2>2. StackType'
      BY <2>1, PartFrames, StackPushed DEF Frame
    <2>3. Forget(BeliefBehind(Part.coord, Beginning(Part))) \in Positions
      BY <2>1, PartFrames, PrefixType, BeginningType, NodeKinds DEF TypeInv
    <2> QED
      BY <1>8, <2>2, <2>3 DEF BeginFuncDef, Generating, TypeInv, Phases
  <1>9. CASE EndFuncDef
    <2>1. Len(stack) >= 2 /\ Top.text \in Texts
      BY <1>9, TopType DEF EndFuncDef
    <2>2. StackType'
      BY <1>9, <2>1, StackPopped DEF EndFuncDef, Generating
    <2> QED
      BY <1>9, <2>2 DEF EndFuncDef, Generating, TypeInv, Phases
  <1>10. CASE EndFileAST
    <2>1. Len(stack) = 1 /\ Top = stack[1] /\ Top.text \in Texts
      BY <1>10, TopType DEF EndFileAST, Top
    <2>2. StackType'
      BY <1>10 DEF EndFileAST, Generating, TypeInv, StackType, Inside, Linked
    <2> QED
      BY <1>10, <2>1, <2>2 DEF EndFileAST, Generating, TypeInv, Phases
  <1>11. CASE UNCHANGED vars
    BY <1>11 DEF vars, TypeInv, StackType, Inside, Linked
  <1> QED
    BY <1>1, <1>2, <1>3, <1>4, <1>5, <1>6, <1>7, <1>8, <1>9, <1>10, <1>11 DEF Next

\* What the calls are for, and how they are nested, at every moment.
THEOREM TypesAreRight == Spec => []TypeInv
  BY TypeInit, TypeStep, PTL DEF Spec

-----------------------------------------------------------------------------
(* Structs.                                                                *)

Less == {pair \in Nat \X Nat : pair[1] < pair[2]}

LEMMA NatMin ==
    ASSUME NEW S \in SUBSET Nat, S # {}
    PROVE  Min(S) \in S /\ \A i \in S : Min(S) <= i
  <1>1. IsWellFoundedOn(Less, Nat)
    BY NatLessThanWellFounded DEF OpToRel, Less
  <1>2. PICK m \in S : \A i \in S : ~(<<i, m>> \in Less)
    BY <1>1, WFMin
  <1>3. ASSUME NEW i \in S PROVE m <= i
    <2>1. i \in Nat /\ m \in Nat /\ ~(<<i, m>> \in Less)
      BY <1>2
    <2>2. <<i, m>> \in Nat \X Nat => ~(i < m)
      BY <2>1 DEF Less
    <2> QED
      BY <2>1, <2>2
  <1> QED
    BY <1>3 DEF Min

LEMMA FixedObjects ==
    ASSUME NEW program \in Seq(Externals), NEW struct
    PROVE  LET fixed == FixStructDef(program) IN
           /\ Objects(program, struct) \in SUBSET Nat
           /\ Objects(fixed, struct) = Objects(program, struct)
           /\ \A i \in Objects(program, struct) :
                fixed[i].fields = IF SeenBefore(program, i) THEN <<>> ELSE program[i].fields
  <1> DEFINE fixed == FixStructDef(program)
  <1>1. DOMAIN fixed = DOMAIN program /\ DOMAIN program \subseteq Nat
    BY DEF FixStructDef
  <1>2. ASSUME NEW i \in DOMAIN program
        PROVE  fixed[i] = IF SeenBefore(program, i) THEN [program[i] EXCEPT !.fields = <<>>]
                          ELSE program[i]
    BY DEF FixStructDef
  <1>3. ASSUME NEW i \in DOMAIN program, SeenBefore(program, i)
        PROVE  /\ fixed[i].kind = program[i].kind /\ fixed[i].struct = program[i].struct
               /\ fixed[i].declarator = program[i].declarator
               /\ fixed[i].fields = <<>>
    <2>1. program[i] \in Externals /\ program[i].kind = "object"
      <3>1. program[i] \in Externals
        OBVIOUS
      <3> QED
        BY <1>3, <3>1 DEF SeenBefore, IsObject, IsObjectOf
    <2>2. program[i] \in [kind : {"object"}, coord : Coords, declarator : Declarators,
                          struct : STRING, fields : Seq(Declarations)]
      BY <2>1 DEF Externals, Declarations
    <2> QED
      BY <1>2, <1>3, <2>2
  <1> HIDE DEF fixed
  <1>4. \A i \in DOMAIN program : fixed[i].kind = program[i].kind
           /\ (IsObjectOf(fixed[i], struct) <=> IsObjectOf(program[i], struct))
    BY <1>2, <1>3 DEF IsObjectOf
  <1>5. Objects(fixed, struct) = Objects(program, struct)
    BY <1>1, <1>4 DEF Objects
  <1> QED
    BY <1>1, <1>2, <1>3, <1>5 DEF Objects, fixed

LEMMA DefinedOnce ==
    ASSUME NEW program \in Seq(Externals), NEW struct, Objects(program, struct) # {}
    PROVE  LET fixed == FixStructDef(program)
               first == Min(Objects(program, struct))
           IN  IF struct = "" THEN Defined(fixed, struct) = Defined(program, struct)
               ELSE first \in Defined(program, struct) => Defined(fixed, struct) = {first}
  <1> DEFINE fixed == FixStructDef(program)
             objects == Objects(program, struct)
             first == Min(objects)
  <1>1. /\ objects \in SUBSET Nat /\ Objects(fixed, struct) = objects
        /\ \A i \in objects :
             fixed[i].fields = IF SeenBefore(program, i) THEN <<>> ELSE program[i].fields
    BY FixedObjects
  <1>2. first \in objects /\ \A i \in objects : first <= i
    BY <1>1, NatMin
  <1>3. CASE struct = ""
    <2>1. \A i \in objects : ~SeenBefore(program, i)
      BY <1>3 DEF Objects, IsObjectOf, SeenBefore
    <2> QED
      BY <1>1, <1>3, <2>1 DEF Defined
  <1>4. CASE struct # ""
    <2>1. ASSUME NEW i \in objects
          PROVE  SeenBefore(program, i) <=> \E j \in objects : j < i
      <3>1. objects = {j \in 1..Len(program) : IsObjectOf(program[j], struct)}
        BY DEF Objects
      <3>2. IsObject(program[i]) /\ program[i].struct = struct
        BY <3>1 DEF IsObject, IsObjectOf
      <3>3. SeenBefore(program, i) <=> \E j \in 1..(i - 1) : IsObjectOf(program[j], struct)
        BY <1>4, <3>2 DEF SeenBefore
      <3> QED
        BY <3>1, <3>3
    <2>2. \A i \in objects : SeenBefore(program, i) <=> i # first
      BY <1>1, <1>2, <2>1
    <2> QED
      BY <1>1, <1>2, <1>4, <2>2 DEF Defined
  <1> QED
    BY <1>3, <1>4

\* Whatever is no plain object is as it was.
LEMMA OthersKept ==
    ASSUME NEW program \in Seq(Externals), NEW i \in DOMAIN program, ~IsObject(program[i])
    PROVE  FixStructDef(program)[i] = program[i]
  BY DEF FixStructDef, SeenBefore

\* In every program the change leaves one definition among the plain objects of
\* a struct that is defined with the first of them, all those of structs without
\* a name, and everything else as it was: the definitions that come with
\* pointers and arrays too.
THEOREM RepeatsAreRemoved == Spec => RepeatsRemoved
  <1> DEFINE Once(node) ==
               LET struct == node.struct
                   first == Min(Objects(ast, struct))
               IN  IF struct = "" THEN Defined(ast', struct) = Defined(ast, struct)
                   ELSE first \in Defined(ast, struct) => Defined(ast', struct) = {first}
  <1>1. ASSUME TypeInv, [Next]_vars, phase = "fix_struct_def", vars' # vars
        PROVE  /\ \A node \in {n \in ToSet(ast) : IsObject(n)} : Once(node)
               /\ \A i \in DOMAIN ast : ~IsObject(ast[i]) => ast'[i] = ast[i]
    <2>1. ast \in Seq(Externals) /\ ast' = FixStructDef(ast)
      BY <1>1 DEF TypeInv, Next, Tweak, WriteLayout, BeginStmt, EndStmt, BeginFuncDef,
                  EndFuncDef, EndFileAST, Generating
    <2>2. \A node \in {n \in ToSet(ast) : IsObject(n)} : Objects(ast, node.struct) # {}
      BY <2>1 DEF ToSet, Objects, IsObject
    <2>3. \A node \in {n \in ToSet(ast) : IsObject(n)} : Once(node)
      BY <2>1, <2>2, DefinedOnce
    <2> QED
      BY <2>1, <2>3, OthersKept
  <1>2. TypeInv /\ [Next]_vars =>
          [phase = "fix_struct_def" =>
             /\ \A node \in {n \in ToSet(ast) : IsObject(n)} : Once(node)
             /\ \A i \in DOMAIN ast : ~IsObject(ast[i]) => ast'[i] = ast[i]]_vars
    BY <1>1
  <1> QED
    BY <1>2, TypesAreRight, PTL DEF Spec, RepeatsRemoved

-----------------------------------------------------------------------------
(* Texts.                                                                  *)

\* The line of the last directive before line i, or before the end.
Directs(lines, d, i) ==
    /\ d \in 1..(i - 1) /\ lines[d].role = "directive"
    /\ \A j \in (d + 1)..(i - 1) : lines[j].role # "directive"
Said(lines, d, i) == Coord(lines[d].coord.file, lines[d].coord.line + i - d - 1)

RightAt(lines, i) ==
    \E d \in 1..(i - 1) : Directs(lines, d, i) /\ lines[i].coord = Said(lines, d, i)

\* What the generator believes is what the compiler does, if it believes anything.
Knows(lines, from) ==
    from.line # 0 =>
      \E d \in 1..Len(lines) :
        Directs(lines, d, Len(lines) + 1) /\ from = Said(lines, d, Len(lines) + 1)

LEMMA LineTypes ==
    ASSUME NEW lines \in Texts, NEW i \in 1..Len(lines)
    PROVE  lines[i] \in TextLines /\ lines[i].coord \in Coords /\ lines[i].coord.line \in Nat
  <1>1. lines[i] \in TextLines
    BY DEF Texts
  <1>2. lines[i].coord \in Coords /\ lines[i].coord \in Positions
    BY <1>1, CoordTypes DEF TextLines
  <1> QED
    BY <1>1, <1>2 DEF Positions

LEMMA RightIsSeen ==
    ASSUME NEW lines \in Texts, NEW i \in 1..Len(lines), RightAt(lines, i)
    PROVE  Seen(lines, i) = lines[i].coord
  <1>1. PICK d \in 1..(i - 1) : Directs(lines, d, i) /\ lines[i].coord = Said(lines, d, i)
    BY DEF RightAt
  <1> DEFINE ds == {j \in 1..(i - 1) : lines[j].role = "directive"} \cup {0}
  <1>2. d \in ds /\ d # 0 /\ \A j \in ds : d >= j
    BY <1>1 DEF Directs
  <1>3. ASSUME NEW x \in ds, \A j \in ds : x >= j PROVE x = d
    BY <1>2, <1>3
  <1>4. LastDirective(lines, i) = d
    BY <1>2, <1>3 DEF LastDirective, Max
  <1> QED
    BY <1>1, <1>2, <1>4 DEF Seen, Said

LEMMA Joined ==
    ASSUME NEW s \in Texts, NEW t \in Texts
    PROVE  /\ s \o t \in Texts /\ Len(s) \in Nat /\ Len(t) \in Nat
           /\ Len(s \o t) = Len(s) + Len(t)
           /\ \A i \in 1..Len(s) : (s \o t)[i] = s[i]
           /\ \A i \in 1..Len(t) : (s \o t)[Len(s) + i] = t[i]
           /\ \A i \in 1..Len(s \o t) :
                i \in 1..Len(s) \/ \E j \in 1..Len(t) : i = Len(s) + j
  <1>1. s \o t \in Texts /\ Len(s) \in Nat /\ Len(t) \in Nat /\ Len(s \o t) = Len(s) + Len(t)
    BY DEF Texts
  <1>2. \A i \in 1..Len(s) : (s \o t)[i] = s[i]
    BY DEF Texts
  <1>3. \A i \in 1..Len(t) : (s \o t)[Len(s) + i] = t[i]
    BY DEF Texts
  <1>4. ASSUME NEW i \in 1..Len(s \o t), i \notin 1..Len(s)
        PROVE  \E j \in 1..Len(t) : i = Len(s) + j
    <2>1. i - Len(s) \in 1..Len(t) /\ i = Len(s) + (i - Len(s))
      BY <1>1, <1>4
    <2> QED
      BY <2>1
  <1> QED
    BY <1>1, <1>2, <1>3, <1>4

LEMMA RightOnTheLeft ==
    ASSUME NEW s \in Texts, NEW t \in Texts, NEW i \in 1..Len(s), RightAt(s, i)
    PROVE  RightAt(s \o t, i)
  <1>1. PICK d \in 1..(i - 1) : Directs(s, d, i) /\ s[i].coord = Said(s, d, i)
    BY DEF RightAt
  <1>2. /\ \A j \in 1..i : (s \o t)[j] = s[j]
        /\ d \in 1..i /\ i \in 1..i /\ \A j \in (d + 1)..(i - 1) : j \in 1..i
    <2>1. /\ Len(s) \in Nat
          /\ \A j \in 1..Len(s) : (s \o t)[j] = s[j]
      BY Joined
    <2>2. i \in Nat /\ \A j \in 1..i : j \in 1..Len(s)
      BY <2>1
    <2> QED
      BY <2>1, <2>2
  <1>3. Directs(s \o t, d, i) /\ (s \o t)[i].coord = Said(s \o t, d, i)
    BY <1>1, <1>2 DEF Directs, Said
  <1> QED
    BY <1>3 DEF RightAt

LEMMA RightOnTheRight ==
    ASSUME NEW s \in Texts, NEW t \in Texts, NEW i \in 1..Len(t), RightAt(t, i)
    PROVE  RightAt(s \o t, Len(s) + i)
  <1>1. PICK d \in 1..(i - 1) : Directs(t, d, i) /\ t[i].coord = Said(t, d, i)
    BY DEF RightAt
  <1> PICK n \in Nat : n = Len(s)
    BY Joined
  <1>2. i \in Nat /\ d \in Nat /\ Len(t) \in Nat /\ \A j \in 1..Len(t) : (s \o t)[n + j] = t[j]
    BY Joined
  <1>3. /\ d \in 1..Len(t) /\ n + d \in 1..(n + i - 1)
        /\ \A j \in (n + d + 1)..(n + i - 1) :
             j - n \in (d + 1)..(i - 1) /\ j - n \in 1..Len(t) /\ j = n + (j - n)
    BY <1>2
  <1>4. (s \o t)[n + i] = t[i] /\ (s \o t)[n + d] = t[d]
    BY <1>2, <1>3
  <1>5. ASSUME NEW j \in (n + d + 1)..(n + i - 1) PROVE (s \o t)[j].role # "directive"
    <2>1. (s \o t)[j] = t[j - n] /\ j - n \in (d + 1)..(i - 1)
      BY <1>2, <1>3
    <2> QED
      BY <1>1, <2>1 DEF Directs
  <1>6. Directs(s \o t, n + d, n + i)
    BY <1>1, <1>3, <1>4, <1>5 DEF Directs
  <1>7. (s \o t)[n + i].coord = Said(s \o t, n + d, n + i)
    <2>1. t[d].coord.line \in Int
      BY <1>3, LineTypes
    <2>2. t[d].coord.line + (n + i) - (n + d) - 1 = t[d].coord.line + i - d - 1
      BY <1>2, <2>1
    <2> QED
      BY <1>1, <1>4, <2>2 DEF Said
  <1> QED
    BY <1>3, <1>6, <1>7 DEF RightAt

LEMMA RealCoords ==
    ASSUME NEW coord \in Coords
    PROVE  /\ coord.line \in Nat
           /\ coord.line = 0 <=> coord = NoCoord
           /\ coord = Coord(coord.file, coord.line)
  <1>1. NoCoord.line = 0 /\ NoCoord = Coord(NoCoord.file, NoCoord.line)
    BY DEF NoCoord, Coord
  <1>2. ASSUME coord # NoCoord
        PROVE  coord.line \in Nat \ {0} /\ coord = Coord(coord.file, coord.line)
    <2>1. coord \in [file : Files, line : Nat \ {0}]
      BY <1>2 DEF Coords
    <2> QED
      BY <2>1 DEF Coord
  <1>3. coord = NoCoord => coord.line = 0 /\ coord = Coord(coord.file, coord.line)
    BY <1>1
  <1>4. coord = Coord(coord.file, coord.line)
    BY <1>2, <1>3
  <1> QED
    BY <1>2, <1>3, <1>4

\* A text behind the directive that it may need.
LEMMA PrefixedLines ==
    ASSUME NEW t \in Texts, NEW coord \in Coords
    PROVE  LET lines == Prefixed(coord, t) IN
           \E d \in {0, 1} :
             /\ Len(lines) = d + Len(t) /\ Len(t) \in Nat
             /\ d = 1 <=> NeedsDirective(coord)
             /\ d = 1 => lines[1] = Directive(coord)
             /\ \A j \in 1..Len(t) : lines[d + j] = t[j]
             /\ \A i \in 1..Len(lines) : i \in 1..d \/ \E j \in 1..Len(t) : i = d + j
  <1> DEFINE lines == Prefixed(coord, t)
             Behind(d) ==
               /\ Len(lines) = d + Len(t) /\ Len(t) \in Nat
               /\ d = 1 <=> NeedsDirective(coord)
               /\ d = 1 => lines[1] = Directive(coord)
               /\ \A j \in 1..Len(t) : lines[d + j] = t[j]
               /\ \A i \in 1..Len(lines) : i \in 1..d \/ \E j \in 1..Len(t) : i = d + j
  <1>1. CASE NeedsDirective(coord)
    <2> DEFINE s == <<Directive(coord)>>
    <2>1. s \in Texts /\ Len(s) = 1 /\ s[1] = Directive(coord)
      BY DEF Directive, Texts, TextLines, Roles
    <2>2. lines = s \o t
      BY <1>1 DEF Prefixed
    <2> HIDE DEF s, lines
    <2>3. /\ Len(lines) = Len(s) + Len(t) /\ Len(t) \in Nat
          /\ \A i \in 1..Len(s) : lines[i] = s[i]
          /\ \A j \in 1..Len(t) : lines[Len(s) + j] = t[j]
          /\ \A i \in 1..Len(lines) :
               i \in 1..Len(s) \/ \E j \in 1..Len(t) : i = Len(s) + j
      BY <2>1, <2>2, Joined
    <2>4. lines[1] = Directive(coord)
      BY <2>1, <2>3
    <2>5. Behind(1)
      BY <1>1, <2>1, <2>3, <2>4
    <2> QED
      BY <2>5 DEF lines
  <1>2. CASE ~NeedsDirective(coord)
    <2>1. lines = t /\ Len(t) \in Nat
      BY <1>2 DEF Prefixed, Texts
    <2>2. Behind(0)
      BY <1>2, <2>1
    <2> QED
      BY <2>2
  <1> QED
    BY <1>1, <1>2

\* A text, a directive if need be, and another text.
Continues(whole, s, t, coord) ==
    /\ whole \in Texts /\ Len(whole) \in Nat /\ Len(s) \in Nat /\ Len(t) \in Nat
    /\ \A i \in 1..Len(whole) :
         \/ i \in 1..Len(s) /\ whole[i] = s[i]
         \/ whole[i] = Directive(coord)
         \/ \E j \in 1..Len(t) : i = Len(whole) - Len(t) + j /\ whole[i] = t[j]
    /\ \A i \in 1..Len(s) : i \in 1..Len(whole) /\ whole[i] = s[i]
    /\ \A j \in 1..Len(t) :
         LET i == Len(whole) - Len(t) + j
         IN  i \in 1..Len(whole) /\ i > Len(s) /\ whole[i] = t[j]

LEMMA JoinedPrefixed ==
    ASSUME NEW s \in Texts, NEW t \in Texts, NEW coord \in Coords, belief \in Positions
    PROVE  Continues(s \o Prefixed(coord, t), s, t, coord)
  <1> DEFINE lines == Prefixed(coord, t)
             whole == s \o lines
  <1>1. PICK d \in {0, 1} :
             /\ Len(lines) = d + Len(t) /\ Len(t) \in Nat
             /\ d = 1 => lines[1] = Directive(coord)
             /\ \A j \in 1..Len(t) : lines[d + j] = t[j]
             /\ \A i \in 1..Len(lines) : i \in 1..d \/ \E j \in 1..Len(t) : i = d + j
    BY PrefixedLines
  <1>2. lines \in Texts
    BY PrefixType
  <1> HIDE DEF lines
  <1>3. /\ whole \in Texts /\ Len(s) \in Nat /\ Len(whole) = Len(s) + d + Len(t)
        /\ \A i \in 1..Len(s) : whole[i] = s[i]
        /\ \A i \in 1..Len(lines) : whole[Len(s) + i] = lines[i]
        /\ \A i \in 1..Len(whole) :
             i \in 1..Len(s) \/ \E j \in 1..Len(lines) : i = Len(s) + j
    <2>1. /\ whole \in Texts /\ Len(s) \in Nat /\ Len(whole) = Len(s) + Len(lines)
          /\ \A i \in 1..Len(s) : whole[i] = s[i]
          /\ \A i \in 1..Len(lines) : whole[Len(s) + i] = lines[i]
          /\ \A i \in 1..Len(whole) :
               i \in 1..Len(s) \/ \E j \in 1..Len(lines) : i = Len(s) + j
      BY <1>2, Joined
    <2> QED
      BY <1>1, <2>1
  <1> HIDE DEF whole
  <1>4. ASSUME NEW j \in 1..Len(t)
        PROVE  LET i == Len(whole) - Len(t) + j
               IN  i \in 1..Len(whole) /\ i > Len(s) /\ whole[i] = t[j]
    <2>1. d + j \in 1..Len(lines) /\ Len(whole) - Len(t) + j = Len(s) + (d + j)
      BY <1>1, <1>3
    <2>2. whole[Len(s) + (d + j)] = t[j]
      BY <1>1, <1>3, <2>1
    <2>3. Len(s) + (d + j) \in 1..Len(whole) /\ Len(s) + (d + j) > Len(s)
      BY <1>1, <1>3
    <2> QED
      BY <2>1, <2>2, <2>3
  <1>5. ASSUME NEW i \in 1..Len(whole), i \notin 1..Len(s), whole[i] # Directive(coord)
        PROVE  \E j \in 1..Len(t) : i = Len(whole) - Len(t) + j /\ whole[i] = t[j]
    <2>1. PICK l \in 1..Len(lines) : i = Len(s) + l
      BY <1>3, <1>5
    <2>2. whole[i] = lines[l]
      BY <1>3, <2>1
    <2>3. l \notin 1..d
      BY <1>1, <1>5, <2>2
    <2>4. PICK j \in 1..Len(t) : l = d + j
      BY <1>1, <2>3
    <2>5. i = Len(whole) - Len(t) + j
      BY <1>1, <1>3, <2>1, <2>4
    <2> QED
      BY <1>1, <2>2, <2>4, <2>5
  <1>6. Len(whole) \in Nat /\ \A i \in 1..Len(s) : i \in 1..Len(whole)
    BY <1>1, <1>3
  <1> QED
    BY <1>1, <1>3, <1>4, <1>5, <1>6 DEF Continues, whole, lines

\* What the generator knows behind a text that it puts a directive in front of
\* where one is needed.
LEMMA KnowsOn ==
    ASSUME NEW s \in Texts, NEW t \in Texts, NEW coord \in Coords, belief \in Positions,
           Len(t) >= 1, \A i \in 1..Len(t) : t[i].role # "directive", Knows(s, belief)
    PROVE  LET whole == s \o Prefixed(coord, t)
               i == Len(whole) - Len(t) + 1
           IN  /\ Knows(whole, BeliefBehind(coord, t))
               /\ coord # NoCoord /\ t[1].coord = coord => RightAt(whole, i)
  <1> DEFINE lines == Prefixed(coord, t)
             whole == s \o lines
             i == Len(whole) - Len(t) + 1
  <1>1. PICK n \in Nat, m \in Nat \ {0} : n = Len(s) /\ m = Len(t)
    BY DEF Texts
  <1>2. lines \in Texts /\ whole \in Texts /\ Len(whole) = n + Len(lines)
    BY <1>1, PrefixType, Joined
  <1>3. /\ \A j \in 1..n : whole[j] = s[j]
        /\ \A j \in 1..Len(lines) : whole[n + j] = lines[j]
    BY <1>1, <1>2, Joined
  <1>4. CASE NeedsDirective(coord)
    <2>1. /\ lines = <<Directive(coord)>> \o t /\ coord # NoCoord
          /\ BeliefBehind(coord, t) = Advance(coord, t)
      BY <1>4 DEF Prefixed, BeliefBehind, NeedsDirective
    <2>2. Len(lines) = m + 1 /\ lines[1] = Directive(coord) /\ \A j \in 1..m : lines[j + 1] = t[j]
      BY <1>1, <2>1 DEF Texts
    <2> HIDE DEF lines
    <2>3. /\ Len(whole) = n + m + 1 /\ i = n + 2 /\ whole[n + 1] = Directive(coord)
          /\ \A j \in 1..m : whole[n + 1 + j] = t[j]
      BY <1>1, <1>2, <1>3, <2>2
    <2> HIDE DEF whole, i
    <2>4. \A j \in (n + 2)..(n + m + 1) : whole[j].role # "directive"
      <3>1. ASSUME NEW j \in (n + 2)..(n + m + 1) PROVE whole[j] = t[j - n - 1] /\ j - n - 1 \in 1..m
        <4>1. j - n - 1 \in 1..m /\ j = n + 1 + (j - n - 1)
          BY <1>1
        <4> QED
          BY <2>3, <4>1
      <3> QED
        BY <1>1, <3>1
    <2>5. Directive(coord).role = "directive" /\ Directive(coord).coord = coord
      BY DEF Directive
    <2>6. Directs(whole, n + 1, n + m + 2) /\ Directs(whole, n + 1, n + 2)
      BY <1>1, <2>3, <2>4, <2>5 DEF Directs
    <2>7. coord.line \in Nat \ {0} /\ coord = Coord(coord.file, coord.line)
      BY <2>1, RealCoords
    <2>8. /\ Said(whole, n + 1, n + m + 2) = Coord(coord.file, coord.line + m)
          /\ Said(whole, n + 1, n + 2) = coord
      <3>1. /\ coord.line + (n + m + 2) - (n + 1) - 1 = coord.line + m
            /\ coord.line + (n + 2) - (n + 1) - 1 = coord.line
        BY <1>1, <2>7
      <3> QED
        BY <2>3, <2>5, <2>7, <3>1 DEF Said
    <2>9. BeliefBehind(coord, t) = Coord(coord.file, coord.line + m)
      BY <1>1, <2>1, <2>7 DEF Advance
    <2>10. Knows(whole, BeliefBehind(coord, t))
      <3>1. Len(whole) + 1 = n + m + 2 /\ n + 1 \in 1..Len(whole)
        BY <1>1, <2>3
      <3> QED
        BY <2>6, <2>8, <2>9, <3>1 DEF Knows
    <2>11. ASSUME t[1].coord = coord PROVE RightAt(whole, i)
      <3>1. whole[n + 2].coord = coord /\ n + 1 \in 1..(n + 2 - 1)
        <4>1. n + 1 + 1 = n + 2 /\ 1 \in 1..m
          BY <1>1
        <4> QED
          BY <2>3, <2>11, <4>1
      <3> QED
        BY <2>3, <2>6, <2>8, <3>1 DEF RightAt
    <2> QED
      BY <2>10, <2>11 DEF lines, whole, i
  <1>5. CASE ~NeedsDirective(coord)
    <2>1. /\ lines = t /\ (coord # NoCoord => coord = belief)
          /\ BeliefBehind(coord, t) = Advance(belief, t)
      BY <1>5 DEF Prefixed, BeliefBehind, NeedsDirective
    <2> HIDE DEF lines
    <2>2. /\ Len(whole) = n + m /\ i = n + 1 /\ \A j \in 1..m : whole[n + j] = t[j]
      BY <1>1, <1>2, <1>3, <2>1
    <2> HIDE DEF whole, i
    <2>3. CASE belief.line = 0
      BY <2>1, <2>3, RealCoords DEF Advance, Knows, lines, whole, i
    <2>4. CASE belief.line # 0
      <3>1. PICK d \in 1..n : Directs(s, d, n + 1) /\ belief = Said(s, d, n + 1)
        BY <1>1, <2>4 DEF Knows
      <3>2. ASSUME NEW j \in (d + 1)..(n + m) PROVE whole[j].role # "directive"
        <4>1. CASE j \in 1..n
          BY <1>1, <1>3, <3>1, <4>1 DEF Directs
        <4>2. CASE j \notin 1..n
          <5>1. j - n \in 1..m /\ j = n + (j - n)
            BY <1>1, <4>2
          <5> QED
            BY <1>1, <2>2, <5>1
        <4> QED
          BY <4>1, <4>2
      <3>3. Directs(whole, d, n + m + 1) /\ Directs(whole, d, n + 1)
        BY <1>1, <1>3, <3>1, <3>2 DEF Directs
      <3>4. whole[d] = s[d] /\ s[d].coord.line \in Nat /\ belief.line \in Nat /\ d \in Nat
        <4>1. d \in Nat /\ d \in 1..Len(s) /\ whole[d] = s[d]
          BY <1>1, <1>3
        <4>2. s[d].coord.line \in Nat
          BY <4>1, LineTypes
        <4> QED
          BY <4>1, <4>2 DEF Positions
      <3>5. /\ Said(whole, d, n + 1) = belief
            /\ belief.file = s[d].coord.file /\ belief.line = s[d].coord.line + (n + 1) - d - 1
        BY <3>1, <3>4 DEF Said, Coord
      <3>6. Said(whole, d, n + m + 1) = Coord(belief.file, belief.line + m)
        <4>1. n \in Nat /\ m \in Nat /\ d \in Nat /\ s[d].coord.line \in Nat
          BY <1>1, <3>4
        <4>2. s[d].coord.line + (n + m + 1) - d - 1 = s[d].coord.line + (n + 1) - d - 1 + m
          BY <4>1
        <4> QED
          BY <3>4, <3>5, <4>2 DEF Said
      <3>7. BeliefBehind(coord, t) = Coord(belief.file, belief.line + m)
        BY <1>1, <2>1, <2>4 DEF Advance
      <3>8. Knows(whole, BeliefBehind(coord, t))
        <4>1. Len(whole) + 1 = n + m + 1 /\ d \in 1..Len(whole)
          BY <1>1, <2>2
        <4> QED
          BY <3>3, <3>6, <3>7, <4>1 DEF Knows
      <3>9. ASSUME coord # NoCoord, t[1].coord = coord PROVE RightAt(whole, i)
        <4>1. whole[n + 1].coord = coord /\ coord = belief /\ d \in 1..(n + 1 - 1)
          <5>1. 1 \in 1..m
            BY <1>1
          <5> QED
            BY <1>1, <2>1, <2>2, <3>9, <5>1
        <4> QED
          BY <2>2, <3>3, <3>5, <4>1 DEF RightAt
      <3> QED
        BY <3>8, <3>9 DEF lines, whole, i
    <2> QED
      BY <2>3, <2>4 DEF lines, whole, i
  <1> QED
    BY <1>4, <1>5

\* A function's parts are its statements between lines of the layout.
AroundBody(parts, body) ==
    /\ Len(body) \in Nat /\ DOMAIN parts = 1..(Len(body) + 3)
    /\ \A i \in DOMAIN parts :
         IF i \in 2..(Len(body) + 1)
           THEN /\ i - 1 \in 1..Len(body) /\ parts[i] = body[i - 1]
                /\ body[i - 1] \in Stmts /\ parts[i].kind # "layout"
           ELSE parts[i] = Layout /\ parts[i].kind = "layout"

LEMMA FuncParts ==
    ASSUME NEW node \in Nodes, node.kind = "func", NEW program
    PROVE  AroundBody(Parts(program, node), node.body)
  <1> DEFINE parts == Parts(program, node)
  <1>1. PICK n \in Nat : n = Len(node.body)
    BY NodeKinds
  <1>2. node.body \in Seq(Stmts) /\ parts = <<Layout>> \o node.body \o <<Layout, Layout>>
    BY NodeKinds DEF Parts
  <1>3. /\ DOMAIN parts = 1..(n + 3) /\ parts[1] = Layout
        /\ \A i \in 2..(n + 1) : parts[i] = node.body[i - 1]
        /\ parts[n + 2] = Layout /\ parts[n + 3] = Layout
    BY <1>1, <1>2
  <1> HIDE DEF parts
  <1>4. \A i \in 2..(n + 1) : i - 1 \in 1..n /\ node.body[i - 1] \in Stmts
    BY <1>1, <1>2
  <1>5. \A statement \in Stmts : statement.kind # "layout"
    BY NodeKinds DEF Nodes
  <1>6. \A i \in 1..(n + 3) : i \notin 2..(n + 1) => i \in {1, n + 2, n + 3}
    BY <1>1
  <1>7. Layout.kind = "layout"
    BY DEF Layout
  <1>8. \A i \in 1..(n + 3) :
          IF i \in 2..(n + 1) THEN /\ i - 1 \in 1..n /\ parts[i] = node.body[i - 1]
                                  /\ node.body[i - 1] \in Stmts /\ parts[i].kind # "layout"
          ELSE parts[i] = Layout /\ parts[i].kind = "layout"
    BY <1>3, <1>4, <1>5, <1>6, <1>7
  <1> QED
    BY <1>1, <1>3, <1>8 DEF parts, AroundBody

LEMMA FuncStmts ==
    ASSUME NEW node \in Nodes, node.kind = "func", NEW program,
           NEW i \in DOMAIN Parts(program, node), Parts(program, node)[i].kind # "layout"
    PROVE  Len(node.body) \in Nat /\ i \in 2..(Len(node.body) + 1)
  <1> DEFINE n == Len(node.body)
             parts == Parts(program, node)
  <1>1. /\ n \in Nat /\ DOMAIN parts = 1..(n + 3)
        /\ \A j \in DOMAIN parts :
             IF j \in 2..(n + 1) THEN /\ j - 1 \in 1..n /\ parts[j] = node.body[j - 1]
                                     /\ node.body[j - 1] \in Stmts /\ parts[j].kind # "layout"
             ELSE parts[j] = Layout /\ parts[j].kind = "layout"
    <2>1. AroundBody(parts, node.body)
      BY FuncParts
    <2> HIDE DEF parts
    <2> QED
      BY <2>1 DEF AroundBody
  <1> HIDE DEF n, parts
  <1>2. n \in Nat /\ i \in 2..(n + 1)
    BY <1>1 DEF parts
  <1> QED
    BY <1>2 DEF n

-----------------------------------------------------------------------------
(* Flat functions.                                                         *)

Stated(line) == line.role \in {"simple", "if", "loop"} /\ line.coord # NoCoord
AllRight(lines) == \A i \in 1..Len(lines) : Stated(lines[i]) => RightAt(lines, i)

LEMMA AllRightJoined ==
    ASSUME NEW s \in Texts, NEW t \in Texts, AllRight(s), AllRight(t)
    PROVE  AllRight(s \o t)
  <1>1. ASSUME NEW i \in 1..Len(s \o t), Stated((s \o t)[i])
        PROVE  RightAt(s \o t, i)
    <2>1. CASE i \in 1..Len(s)
      <3>1. Stated(s[i])
        BY <1>1, <2>1, Joined
      <3> QED
        BY <2>1, <3>1, RightOnTheLeft DEF AllRight
    <2>2. CASE i \notin 1..Len(s)
      <3>1. PICK j \in 1..Len(t) : i = Len(s) + j
        BY <2>2, Joined
      <3>2. Stated(t[j])
        BY <1>1, <3>1, Joined
      <3> QED
        BY <3>1, <3>2, RightOnTheRight DEF AllRight
    <2> QED
      BY <2>1, <2>2
  <1> QED
    BY <1>1 DEF AllRight

LEMMA AllRightPrefixed ==
    ASSUME NEW lines \in Texts, NEW coord \in Coords, AllRight(lines)
    PROVE  AllRight(Prefixed(coord, lines))
  <1>1. <<Directive(coord)>> \in Texts /\ AllRight(<<Directive(coord)>>)
    BY DEF Directive, Texts, TextLines, Roles, AllRight, Stated
  <1> QED
    BY <1>1, AllRightJoined DEF Prefixed

LEMMA BeginningLines ==
    ASSUME NEW node \in Nodes
    PROVE  LET lines == Beginning(node) IN
           /\ \A i \in 1..Len(lines) : lines[i].role # "directive"
           /\ \A i \in 2..Len(lines) : ~Stated(lines[i]) /\ lines[i].coord = NoCoord
           /\ lines[1].coord = node.coord /\ lines[1].role = node.kind
           /\ node.kind \notin {"simple", "if", "loop"} => AllRight(lines)
  <1> DEFINE lines == Beginning(node)
  <1>1. /\ Len(lines) \in Nat \ {0} /\ lines[1] = Line(node)
        /\ \A i \in 2..Len(lines) : lines[i] = Line(Layout)
    BY BeginningType DEF Texts
  <1> HIDE DEF lines
  <1>2. Line(Layout).role = "layout" /\ Line(Layout).coord = NoCoord /\ ~Stated(Line(Layout))
    BY DEF Line, Layout, Stated
  <1>3. /\ lines[1].coord = node.coord /\ lines[1].role = node.kind
        /\ lines[1].role # "directive"
    BY <1>1, NodeKinds DEF Line
  <1>4. \A i \in 1..Len(lines) : i = 1 \/ i \in 2..Len(lines)
    BY <1>1
  <1>5. node.kind \notin {"simple", "if", "loop"} => AllRight(lines)
    BY <1>1, <1>2, <1>3, <1>4 DEF AllRight, Stated
  <1> QED
    BY <1>1, <1>2, <1>3, <1>4, <1>5 DEF lines

FlatFrame(k) ==
    /\ stack[k].node.kind \in {"file", "func", "decl", "object", "simple"}
    /\ IF stack[k].node.kind = "simple"
         THEN k = 3 /\ stack[2].node.kind = "func" /\ stack[3].text = Beginning(stack[3].node)
         ELSE AllRight(stack[k].text)

\* While there are statements left in the function, the generator knows where
\* the text has got to.
FlatBody ==
    Len(stack) >= 2 /\ stack[2].node.kind = "func" =>
      /\ stack[2].next = 1 => belief.line = 0
      /\ stack[2].next <= Len(stack[2].node.body) + 2 => Knows(stack[2].text, belief)

FlatInv ==
    Flat /\ phase \in {"generate", "compile"} =>
      FlatBody /\ \A k \in 1..Len(stack) : FlatFrame(k)

\* The part that comes next, of the program itself, of a function and of a struct.
LEMMA FlatPart ==
    ASSUME TypeInv, FlatInv, Flat, phase = "generate", HasPart
    PROVE  /\ Len(stack) \in {1, 2} /\ Top = stack[Len(stack)]
           /\ Top.node.kind # "simple" /\ FlatFrame(Len(stack))
           /\ Part.kind \in {"layout", "decl", "object", "func", "simple"}
           /\ Part.kind = "simple" => Len(stack) = 2 /\ stack[2].node.kind = "func"
           /\ Len(stack) = 2 /\ stack[2].node.kind = "func" /\ Part.kind = "layout" =>
                \/ stack[2].next = 1
                \/ stack[2].next >= Len(stack[2].node.body) + 2
  <1>1. PICK n \in Nat \ {0} : n = Len(stack)
    BY DEF TypeInv, StackType
  <1>2. /\ n \in 1..Len(stack) /\ Top = stack[n] /\ Top.node \in Nodes
        /\ ast \in Seq(Externals) /\ FlatFrame(n)
        /\ Top.next \in DOMAIN Parts(ast, Top.node)
    BY <1>1, TopType DEF Top, FlatInv, TypeInv, HasPart
  <1>3. Top.node.kind \notin {"simple", "decl"}
    BY <1>2 DEF Parts
  <1>4. n <= 2
    <2>1. ASSUME n > 2 PROVE FALSE
      <3>1. IF stack[2].node.kind = "func" THEN Top.node \in Stmts ELSE Top.node.kind = "decl"
        BY <1>2, <2>1, Places
      <3> QED
        BY <1>2, <1>3, <3>1, NodeKinds DEF FlatFrame
    <2> QED
      BY <1>1, <2>1
  <1>5. CASE n = 1
    <2>1. Top.node.kind = "file"
      BY <1>1, <1>5, TopType
    <2>2. Part \in Externals \/ Part.kind = "layout"
      BY <1>2, <2>1, PartType DEF Part
    <2> QED
      BY <1>1, <1>2, <1>3, <1>5, <2>2, NodeKinds DEF Nodes
  <1>6. CASE n = 2
    <2>1. Top.node \in Externals /\ Top.node.kind \in {"object", "func"}
      BY <1>2, <1>3, <1>6, Places, NodeKinds
    <2>2. CASE Top.node.kind = "object"
      <3>1. Part.kind \in {"layout", "decl"}
        BY <1>2, <2>2, PartType DEF Part
      <3> QED
        BY <1>1, <1>2, <1>3, <1>6, <2>2, <3>1
    <2>3. CASE Top.node.kind = "func"
      <3>1. PICK body : body = Top.node.body
        OBVIOUS
      <3>2. Top.node \in ToSet(ast)
        <4>1. Linked(2) /\ stack[1].node = File
          BY <1>1, <1>6 DEF TypeInv, StackType
        <4>2. Parts(ast, File) = ast
          BY DEF Parts, File
        <4> QED
          BY <1>1, <1>2, <1>6, <4>1, <4>2 DEF Linked, ToSet
      <3>3. \A i \in DOMAIN body : body[i].kind = "simple"
        BY <2>3, <3>1, <3>2 DEF Flat, ToSet
      <3>4. /\ Len(body) \in Nat /\ Top.next \in 1..(Len(body) + 3)
            /\ IF Top.next \in 2..(Len(body) + 1)
                 THEN Top.next - 1 \in 1..Len(body) /\ Part = body[Top.next - 1]
                      /\ Part.kind # "layout"
                 ELSE Part.kind = "layout"
        <4>1. /\ Len(body) \in Nat /\ DOMAIN Parts(ast, Top.node) = 1..(Len(body) + 3)
              /\ \A i \in DOMAIN Parts(ast, Top.node) :
                   IF i \in 2..(Len(body) + 1)
                     THEN /\ i - 1 \in 1..Len(body)
                          /\ Parts(ast, Top.node)[i] = body[i - 1]
                          /\ Parts(ast, Top.node)[i].kind # "layout"
                     ELSE Parts(ast, Top.node)[i].kind = "layout"
          <5> DEFINE parts == Parts(ast, Top.node)
          <5>1. AroundBody(parts, body)
            BY <1>2, <2>3, <3>1, FuncParts
          <5> HIDE DEF parts
          <5>2. /\ Len(body) \in Nat /\ DOMAIN parts = 1..(Len(body) + 3)
                /\ \A i \in DOMAIN parts :
                     IF i \in 2..(Len(body) + 1)
                       THEN /\ i - 1 \in 1..Len(body) /\ parts[i] = body[i - 1]
                            /\ parts[i].kind # "layout"
                       ELSE parts[i].kind = "layout"
            BY <5>1 DEF AroundBody
          <5> QED
            BY <5>2 DEF parts
        <4> QED
          BY <1>2, <4>1 DEF Part
      <3>5. Part.kind \in {"layout", "simple"}
        <4>1. body \in Seq(Stmts)
          BY <1>2, <2>3, <3>1, NodeKinds
        <4> QED
          BY <3>3, <3>4, <4>1
      <3>6. Part.kind = "layout" => Top.next = 1 \/ Top.next >= Len(body) + 2
        BY <3>4
      <3> QED
        BY <1>1, <1>2, <1>3, <1>6, <2>3, <3>1, <3>5, <3>6
    <2> QED
      BY <2>1, <2>2, <2>3
  <1> QED
    BY <1>1, <1>4, <1>5, <1>6

LEMMA FlatInit == Init => FlatInv
  BY DEF Init, FlatInv

LEMMA FlatStarts ==
    ASSUME TypeInv, phase = "declare", UNCHANGED <<stack, belief>>
    PROVE  FlatInv'
  <1>1. stack' = <<Frame(File, <<>>)>>
    BY DEF TypeInv, Phases
  <1>2. Len(stack') = 1 /\ stack'[1].node.kind = "file" /\ stack'[1].text = <<>>
    BY <1>1 DEF Frame, File
  <1> QED
    BY <1>2 DEF FlatInv, FlatBody, FlatFrame, AllRight

LEMMA FlatWriteLayout ==
    ASSUME TypeInv, FlatInv, Flat, phase = "generate", WriteLayout
    PROVE  FlatInv'
  <1>1. PICK n \in {1, 2} : n = Len(stack)
    BY FlatPart DEF WriteLayout
  <1>2. /\ HasPart /\ Part.kind = "layout" /\ Write(<<Line(Layout)>>) /\ belief' = belief
    BY DEF WriteLayout, Layout
  <1>3. /\ Top = stack[n] /\ stack[n].node.kind # "simple" /\ FlatFrame(n)
        /\ n = 2 /\ stack[2].node.kind = "func" =>
             stack[2].next = 1 \/ stack[2].next >= Len(stack[2].node.body) + 2
    BY <1>1, <1>2, FlatPart
  <1>4. /\ Len(stack') = n /\ \A k \in 1..(n - 1) : stack'[k] = stack[k]
        /\ stack'[n].node = stack[n].node /\ stack'[n].next = stack[n].next + 1
        /\ stack'[n].text = stack[n].text \o <<Line(Layout)>>
    BY <1>1, <1>2, Wrote, LayoutType DEF TypeInv, StackType
  <1>5. stack[n].text \in Texts /\ stack[n].next \in Nat \ {0}
    BY <1>1, Places
  <1>6. AllRight(stack[n].text \o <<Line(Layout)>>)
    <2>1. AllRight(stack[n].text)
      BY <1>3 DEF FlatFrame
    <2>2. AllRight(<<Line(Layout)>>)
      BY DEF AllRight, Stated, Line, Layout
    <2> QED
      BY <1>5, <2>1, <2>2, AllRightJoined, LayoutType
  <1>7. ASSUME NEW k \in 1..n PROVE FlatFrame(k)'
    <2>1. CASE k = n
      BY <1>3, <1>4, <1>6, <2>1 DEF FlatFrame
    <2>2. CASE k # n
      <3>1. k \in 1..(n - 1) /\ FlatFrame(k) /\ k # 3
        BY <1>1, <2>2 DEF FlatInv
      <3> QED
        BY <1>4, <3>1 DEF FlatFrame
    <2> QED
      BY <2>1, <2>2
  <1>8. FlatBody'
    <2>1. ASSUME n = 2, stack[2].node.kind = "func"
          PROVE  /\ stack[2].next + 1 = 1 => belief.line = 0
                 /\ stack[2].next + 1 <= Len(stack[2].node.body) + 2 =>
                      Knows(stack[2].text \o <<Line(Layout)>>, belief)
      <3>1. stack[2].next + 1 # 1
        BY <1>5, <2>1
      <3>2. CASE stack[2].next = 1
        <4>1. belief.line = 0
          BY <1>1, <2>1, <3>2 DEF FlatInv, FlatBody
        <4> QED
          BY <4>1 DEF Knows
      <3>3. CASE stack[2].next >= Len(stack[2].node.body) + 2
        <4>1. Len(stack[2].node.body) \in Nat
          BY <1>1, <2>1, Places, NodeKinds
        <4>2. ~(stack[2].next + 1 <= Len(stack[2].node.body) + 2)
          BY <1>5, <2>1, <3>3, <4>1
        <4> QED
          BY <3>1, <4>2
      <3> QED
        BY <1>3, <2>1, <3>2, <3>3
    <2>2. n = 2 => /\ stack'[2].node = stack[2].node /\ stack'[2].next = stack[2].next + 1
                   /\ stack'[2].text = stack[2].text \o <<Line(Layout)>>
      BY <1>4
    <2>3. Len(stack') >= 2 => n = 2
      BY <1>4
    <2> QED
      BY <1>2, <2>1, <2>2, <2>3 DEF FlatBody
  <1> QED
    BY <1>4, <1>7, <1>8 DEF FlatInv

LEMMA FlatBeginStmt ==
    ASSUME TypeInv, FlatInv, Flat, phase = "generate", BeginStmt
    PROVE  FlatInv'
  <1>1. PICK n \in {1, 2} : n = Len(stack)
    BY FlatPart DEF BeginStmt
  <1>2. /\ HasPart /\ Part.kind \notin {"layout", "func"} /\ belief' = belief
        /\ Push(Frame(Part, Beginning(Part)))
    BY DEF BeginStmt
  <1>3. /\ Part \in Nodes /\ Frame(Part, Beginning(Part)) \in Frames
        /\ Part.kind \in {"decl", "object", "simple"}
        /\ Part.kind = "simple" => n = 2 /\ stack[2].node.kind = "func"
    BY <1>1, <1>2, FlatPart, PartFrames
  <1>4. /\ Len(stack') = n + 1 /\ \A k \in 1..(n - 1) : stack'[k] = stack[k]
        /\ stack'[n].node = stack[n].node /\ stack'[n].next = stack[n].next + 1
        /\ stack'[n].text = stack[n].text
        /\ stack'[n + 1] = Frame(Part, Beginning(Part))
    BY <1>1, <1>2, <1>3, Pushed DEF TypeInv, StackType
  <1>5. stack[n].next \in Nat \ {0}
    BY <1>1, Places
  <1>6. \A k \in 1..n : stack'[k].node = stack[k].node /\ stack'[k].text = stack[k].text
    BY <1>4
  <1>7. ASSUME NEW k \in 1..(n + 1) PROVE FlatFrame(k)'
    <2>1. CASE k = n + 1
      <3>1. stack'[k].node = Part /\ stack'[k].text = Beginning(Part)
        BY <1>4, <2>1 DEF Frame
      <3>2. Part.kind = "simple" => k = 3 /\ stack'[2].node.kind = "func"
        BY <1>3, <1>6, <2>1
      <3> QED
        BY <1>3, <3>1, <3>2, BeginningLines DEF FlatFrame
    <2>2. CASE k # n + 1
      <3>1. k \in 1..n /\ FlatFrame(k) /\ k # 3
        BY <1>1, <2>2 DEF FlatInv
      <3> QED
        BY <1>6, <3>1 DEF FlatFrame
    <2> QED
      BY <2>1, <2>2
  <1>8. FlatBody'
    <2>1. CASE n = 1
      BY <1>3, <1>4, <2>1 DEF FlatBody, Frame
    <2>2. CASE n = 2
      <3>1. /\ stack'[2].next = stack[2].next + 1 /\ stack'[2].text = stack[2].text
            /\ stack'[2].node = stack[2].node
        BY <1>4, <2>2
      <3>2. stack[2].node.kind = "func" => Len(stack[2].node.body) \in Nat
        BY <1>1, <2>2, Places, NodeKinds
      <3>3. /\ stack[2].next + 1 # 1
            /\ \A m \in Nat : stack[2].next + 1 <= m + 2 => stack[2].next <= m + 2
        BY <1>5, <2>2
      <3> QED
        BY <1>1, <1>2, <2>2, <3>1, <3>2, <3>3 DEF FlatBody, FlatInv
    <2> QED
      BY <2>1, <2>2
  <1> QED
    BY <1>4, <1>7, <1>8 DEF FlatInv

LEMMA FlatBeginFuncDef ==
    ASSUME TypeInv, FlatInv, Flat, phase = "generate", BeginFuncDef
    PROVE  FlatInv'
  <1> DEFINE lines == Prefixed(Part.coord, Beginning(Part))
  <1>1. /\ HasPart /\ Part.kind = "func" /\ Push(Frame(Part, lines))
        /\ belief' = Forget(BeliefBehind(Part.coord, Beginning(Part)))
    BY DEF BeginFuncDef
  <1>2. Len(stack) = 1 /\ Part \in Nodes /\ Frame(Part, lines) \in Frames
    BY <1>1, PartFrames
  <1>3. /\ Len(stack') = 2 /\ stack'[1].node = stack[1].node /\ stack'[1].text = stack[1].text
        /\ stack'[2] = Frame(Part, lines)
    BY <1>1, <1>2, Pushed DEF TypeInv, StackType
  <1>4. AllRight(lines)
    BY <1>1, <1>2, BeginningLines, BeginningType, NodeKinds, AllRightPrefixed
  <1>5. FlatFrame(1)'
    <2>1. FlatFrame(1)
      BY <1>2 DEF FlatInv
    <2> QED
      BY <1>3, <2>1 DEF FlatFrame
  <1>6. FlatFrame(2)'
    BY <1>1, <1>3, <1>4 DEF FlatFrame, Frame
  <1>7. belief'.line = 0
    BY <1>1 DEF Forget, Coord
  <1>8. FlatBody'
    BY <1>7 DEF FlatBody, Knows
  <1>9. \A k \in 1..2 : k = 1 \/ k = 2
    OBVIOUS
  <1> QED
    BY <1>3, <1>5, <1>6, <1>8, <1>9 DEF FlatInv

LEMMA FlatEndFuncDef ==
    ASSUME TypeInv, FlatInv, Flat, phase = "generate", EndFuncDef
    PROVE  FlatInv'
  <1>1. /\ Len(stack) = 2 /\ Top = stack[2] /\ Top.node.kind = "func" /\ Top.text \in Texts
        /\ Pop(Top.text)
    BY TopType DEF EndFuncDef, Top
  <1>2. /\ Len(stack') = 1 /\ stack'[1].node = stack[1].node
        /\ stack'[1].text = stack[1].text \o Top.text
    <2>1. Len(stack) - 1 = 1 /\ Len(stack) >= 2 /\ stack \in Seq(Frames)
      BY <1>1 DEF TypeInv, StackType
    <2>2. /\ Len(stack') = Len(stack) - 1
          /\ stack'[Len(stack) - 1].node = stack[Len(stack) - 1].node
          /\ stack'[Len(stack) - 1].text = stack[Len(stack) - 1].text \o Top.text
      BY <1>1, <2>1, Popped
    <2> QED
      BY <2>1, <2>2
  <1>3. FlatFrame(1) /\ FlatFrame(2) /\ stack[1].text \in Texts
    BY <1>1, Places DEF FlatInv
  <1>4. AllRight(stack[1].text) /\ AllRight(Top.text)
    BY <1>1, <1>3 DEF FlatFrame
  <1>5. AllRight(stack[1].text \o Top.text)
    BY <1>1, <1>3, <1>4, AllRightJoined
  <1>6. FlatFrame(1)'
    BY <1>2, <1>3, <1>5 DEF FlatFrame
  <1>7. \A k \in 1..1 : k = 1
    OBVIOUS
  <1> QED
    BY <1>2, <1>6, <1>7 DEF FlatInv, FlatBody

LEMMA FlatEndStmt ==
    ASSUME TypeInv, FlatInv, Flat, phase = "generate", EndStmt
    PROVE  FlatInv'
  <1> DEFINE lines == Prefixed(Top.node.coord, Top.text)
  <1>1. PICK n \in Nat \ {0} : Len(stack) = n + 1
    <2>1. Len(stack) \in Nat /\ Len(stack) >= 2
      BY TopType DEF EndStmt
    <2> QED
      BY <2>1
  <1>2. /\ Top = stack[n + 1] /\ Top.node.kind \notin {"file", "func"} /\ Top.node \in Nodes
        /\ Top.node.coord \in Coords /\ Top.text \in Texts /\ lines \in Texts
        /\ belief \in Positions /\ belief' = BeliefBehind(Top.node.coord, Top.text)
        /\ Pop(lines) /\ stack[n].text \in Texts /\ stack[n].node \in Nodes
    BY <1>1, TopType, PrefixType, Places DEF EndStmt, TypeInv
  <1>3. /\ Len(stack') = n /\ \A k \in 1..(n - 1) : stack'[k] = stack[k]
        /\ stack'[n].node = stack[n].node /\ stack'[n].next = stack[n].next
        /\ stack'[n].text = stack[n].text \o lines
    <2>1. Len(stack) - 1 = n /\ Len(stack) >= 2 /\ stack \in Seq(Frames)
      BY <1>1 DEF TypeInv, StackType
    <2>2. /\ Len(stack') = Len(stack) - 1
          /\ \A k \in 1..(Len(stack) - 1 - 1) : stack'[k] = stack[k]
          /\ stack'[Len(stack) - 1].node = stack[Len(stack) - 1].node
          /\ stack'[Len(stack) - 1].next = stack[Len(stack) - 1].next
          /\ stack'[Len(stack) - 1].text = stack[Len(stack) - 1].text \o lines
      BY <1>2, <2>1, Popped
    <2> QED
      BY <2>1, <2>2
  <1>4. /\ FlatFrame(n) /\ FlatFrame(n + 1) /\ \A k \in 1..(n - 1) : FlatFrame(k)
        /\ stack[n].node.kind # "simple" /\ AllRight(stack[n].text)
    <2>1. FlatFrame(n) /\ FlatFrame(n + 1) /\ \A k \in 1..(n - 1) : FlatFrame(k)
      BY <1>1 DEF FlatInv
    <2>2. Linked(n + 1) /\ n + 1 - 1 = n
      BY <1>1 DEF TypeInv, StackType
    <2>3. stack[n].node.kind # "simple"
      <3>1. DOMAIN Parts(ast, stack[n].node) # {}
        BY <2>2 DEF Linked
      <3> QED
        BY <3>1 DEF Parts
    <2> QED
      BY <2>1, <2>3 DEF FlatFrame
  <1>5. ASSUME AllRight(stack[n].text \o lines), NEW k \in 1..n
        PROVE  FlatFrame(k)'
    <2>1. CASE k = n
      BY <1>3, <1>4, <1>5, <2>1 DEF FlatFrame
    <2>2. CASE k # n
      <3>1. k \in 1..(n - 1) /\ stack'[k] = stack[k] /\ FlatFrame(k)
        BY <1>3, <1>4, <2>2
      <3>2. k = 3 => stack'[2] = stack[2]
        BY <1>3, <3>1
      <3> QED
        BY <3>1, <3>2 DEF FlatFrame
    <2> QED
      BY <2>1, <2>2
  <1>6. CASE Top.node.kind = "simple"
    <2> DEFINE s == stack[2].text
               t == Top.text
               whole == s \o lines
    <2>1. n = 2 /\ stack[2].node.kind = "func" /\ t = Beginning(Top.node)
      BY <1>2, <1>4, <1>6 DEF FlatFrame
    <2>2. /\ Len(t) >= 1 /\ t[1].coord = Top.node.coord
          /\ \A i \in 1..Len(t) : t[i].role # "directive"
          /\ \A i \in 2..Len(t) : ~Stated(t[i])
      BY <1>2, <2>1, BeginningLines, BeginningType
    <2>3. Knows(s, belief) /\ stack[2].next # 1
      <3>1. Linked(3)
        BY <1>1, <2>1 DEF TypeInv, StackType
      <3>2. PICK i \in DOMAIN Parts(ast, stack[2].node) :
                i = stack[2].next - 1 /\ Parts(ast, stack[2].node)[i].kind # "layout"
        BY <3>1 DEF Linked
      <3>3. Len(stack[2].node.body) \in Nat /\ i \in 2..(Len(stack[2].node.body) + 1)
        <4>1. stack[2].node \in Nodes /\ stack[2].node.kind = "func"
          BY <1>2, <2>1
        <4> QED
          BY <3>2, <4>1, FuncStmts
      <3>4. stack[2].next \in Nat
        BY <1>1, <2>1, Places
      <3>5. stack[2].next <= Len(stack[2].node.body) + 2 /\ stack[2].next # 1
        BY <3>2, <3>3, <3>4
      <3> QED
        BY <1>1, <2>1, <3>5 DEF FlatInv, FlatBody
    <2> HIDE DEF s, t
    <2>4. /\ Knows(whole, belief')
          /\ Top.node.coord # NoCoord => RightAt(whole, Len(whole) - Len(t) + 1)
      BY <1>2, <2>1, <2>2, <2>3, KnowsOn DEF s, t
    <2>5. AllRight(whole)
      <3>1. ASSUME NEW i \in 1..Len(whole), Stated(whole[i]) PROVE RightAt(whole, i)
        <4>1. CASE i \in 1..Len(s) /\ whole[i] = s[i]
          BY <1>2, <1>4, <2>1, <3>1, <4>1, RightOnTheLeft DEF AllRight, s
        <4>2. CASE whole[i] = Directive(Top.node.coord)
          BY <3>1, <4>2 DEF Directive, Stated
        <4>3. ASSUME NEW j \in 1..Len(t), i = Len(whole) - Len(t) + j, whole[i] = t[j]
              PROVE  RightAt(whole, i)
          <5>1. j = 1
            BY <2>2, <3>1, <4>3
          <5> QED
            BY <2>2, <2>4, <3>1, <4>3, <5>1 DEF Stated
        <4> QED
          <5>1. s \in Texts /\ t \in Texts
            BY <1>2, <2>1 DEF s, t
          <5>2. \/ i \in 1..Len(s) /\ whole[i] = s[i]
                \/ whole[i] = Directive(Top.node.coord)
                \/ \E j \in 1..Len(t) : i = Len(whole) - Len(t) + j /\ whole[i] = t[j]
            <6>1. Continues(whole, s, t, Top.node.coord)
              BY <1>2, <5>1, JoinedPrefixed DEF t
            <6> HIDE DEF whole
            <6> QED
              BY <6>1 DEF Continues
          <5> QED
            BY <4>1, <4>2, <4>3, <5>2
      <3> QED
        BY <3>1 DEF AllRight
    <2>6. FlatBody'
      <3>1. stack'[2].node = stack[2].node /\ stack'[2].next = stack[2].next /\ stack'[2].text = whole
        BY <1>3, <2>1 DEF s
      <3> QED
        BY <2>3, <2>4, <3>1 DEF FlatBody
    <2> QED
      BY <1>3, <1>5, <2>1, <2>5, <2>6 DEF FlatInv, s
  <1>7. CASE Top.node.kind # "simple"
    <2>1. AllRight(stack[n].text \o lines)
      <3>1. AllRight(Top.text)
        BY <1>2, <1>4, <1>7 DEF FlatFrame
      <3> QED
        BY <1>2, <1>4, <3>1, AllRightPrefixed, AllRightJoined
    <2>2. ASSUME n >= 2, stack[2].node.kind = "func" PROVE FALSE
      <3>1. Top.node \in Stmts
        BY <1>1, <1>2, <2>2, Places
      <3> QED
        BY <1>2, <1>4, <1>7, <3>1, NodeKinds DEF FlatFrame
    <2>3. FlatBody'
      <3>1. n >= 2 => stack'[2].node = stack[2].node
        BY <1>3
      <3> QED
        BY <1>3, <2>2, <3>1 DEF FlatBody
    <2> QED
      BY <1>3, <1>5, <2>1, <2>3 DEF FlatInv
  <1> QED
    BY <1>6, <1>7

LEMMA FlatStep == TypeInv /\ FlatInv /\ [Next]_vars => FlatInv'
  <1> SUFFICES ASSUME TypeInv, FlatInv, [Next]_vars PROVE FlatInv'
    OBVIOUS
  <1>1. CASE \/ Tweak("fix_inline", "fix_struct_def", FixInline(ast))
             \/ Tweak("fix_struct_def", "reach_error", FixStructDef(ast))
             \/ Tweak("reach_error", "declare", ReachError(ast))
    BY <1>1 DEF Tweak, FlatInv
  <1>2. CASE Tweak("declare", "generate", DeclareScheduleFunctions(ast))
    BY <1>2, FlatStarts DEF Tweak
  <1>3. CASE \/ WriteLayout \/ BeginStmt \/ EndStmt \/ BeginFuncDef \/ EndFuncDef
    <2>1. phase = "generate" /\ (Flat' <=> Flat) /\ phase' = "generate"
      BY <1>3 DEF WriteLayout, BeginStmt, EndStmt, BeginFuncDef, EndFuncDef, Generating, Flat
    <2>2. CASE Flat
      BY <1>3, <2>1, <2>2, FlatWriteLayout, FlatBeginStmt, FlatEndStmt, FlatBeginFuncDef,
         FlatEndFuncDef
    <2>3. CASE ~Flat
      BY <2>1, <2>3 DEF FlatInv
    <2> QED
      BY <2>2, <2>3
  <1>4. CASE EndFileAST \/ UNCHANGED vars
    BY <1>4 DEF EndFileAST, Generating, vars, Flat, FlatInv, FlatBody, FlatFrame
  <1> QED
    BY <1>1, <1>2, <1>3, <1>4 DEF Next

\* The statements of flat functions are reported at their own lines, whatever
\* is inserted between them and around them.
THEOREM FlatLinesDoSurvive == Spec => []FlatLinesSurvive
  <1>1. TypeInv /\ FlatInv => FlatLinesSurvive
    <2> SUFFICES ASSUME TypeInv, FlatInv, Flat, NEW i \in Statements PROVE Right(i)
      BY DEF FlatLinesSurvive, LinesSurvive
    <2>1. text \in Texts /\ i \in 1..Len(text) /\ Stated(text[i])
      BY DEF TypeInv, Statements, Texts, Stated
    <2>2. phase = "compile"
      BY <2>1 DEF TypeInv, Phases
    <2>3. text = stack[1].text /\ stack[1].node.kind = "file" /\ FlatFrame(1)
      BY <2>2 DEF TypeInv, StackType, FlatInv, File
    <2>4. RightAt(text, i)
      BY <2>1, <2>3 DEF FlatFrame, AllRight
    <2> QED
      BY <2>1, <2>4, RightIsSeen DEF Right
  <1> QED
    BY <1>1, FlatInit, FlatStep, TypesAreRight, PTL DEF Spec

-----------------------------------------------------------------------------
(* Texts of nested statements.                                             *)

\* The lines that statements and blocks of the program begin with.
Marked(line) == line.coord # NoCoord /\ line.role \in {"simple", "if", "loop", "block"}

\* From line b on: whether there are some, that the conditions and loops among
\* them are right, and that the first of them is.
Marks(lines, b) == \E i \in b..Len(lines) : Marked(lines[i])
CondsRight(lines, b) ==
    \A i \in b..Len(lines) :
      Marked(lines[i]) /\ lines[i].role \in {"if", "loop"} => RightAt(lines, i)
FirstRight(lines, b) ==
    \A i \in b..Len(lines) :
      Marked(lines[i]) /\ (\A j \in b..(i - 1) : ~Marked(lines[j])) => RightAt(lines, i)

\* The first of them behind the head of a function is right.
HeadsRight(lines) ==
    \A i, j \in 1..Len(lines) :
      /\ lines[i].role = "func" /\ i < j /\ Marked(lines[j])
      /\ \A m \in (i + 1)..(j - 1) : ~Marked(lines[m])
      => RightAt(lines, j)

LEMMA PrefixedNone == ASSUME NEW t PROVE Prefixed(NoCoord, t) = t
  BY DEF Prefixed, NeedsDirective

\* What is right in a text is right behind another, and so is the first line of
\* one that gets a directive.
LEMMA RightBehind ==
    ASSUME NEW s \in Texts, NEW t \in Texts, NEW coord \in Coords, belief \in Positions,
           NEW whole, whole = s \o Prefixed(coord, t), NEW j \in 1..Len(t),
           RightAt(t, j) \/ (j = 1 /\ t[1].coord = coord /\ NeedsDirective(coord))
    PROVE  RightAt(whole, Len(whole) - Len(t) + j)
  <1> DEFINE lines == Prefixed(coord, t)
  <1>1. PICK d \in {0, 1} :
             /\ Len(lines) = d + Len(t) /\ Len(t) \in Nat
             /\ d = 1 <=> NeedsDirective(coord)
             /\ d = 1 => lines[1] = Directive(coord)
             /\ \A i \in 1..Len(t) : lines[d + i] = t[i]
    BY PrefixedLines
  <1>2. lines \in Texts
    BY PrefixType
  <1>3. RightAt(lines, d + j)
    <2>1. CASE RightAt(t, j) /\ d = 0
      <3>1. lines = t
        BY <1>1, <2>1 DEF Prefixed
      <3> QED
        BY <2>1, <3>1
    <2>2. CASE RightAt(t, j) /\ d = 1
      <3> DEFINE front == <<Directive(coord)>>
      <3>1. front \in Texts /\ Len(front) = 1
        BY DEF Directive, Texts, TextLines, Roles
      <3>2. lines = front \o t
        BY <1>1, <2>2 DEF Prefixed
      <3> HIDE DEF front, lines
      <3>3. RightAt(front \o t, Len(front) + j)
        BY <2>2, <3>1, RightOnTheRight
      <3> QED
        BY <2>2, <3>1, <3>2, <3>3
    <2>3. CASE j = 1 /\ t[1].coord = coord /\ NeedsDirective(coord)
      <3> HIDE DEF lines
      <3>1. d = 1 /\ lines[1] = Directive(coord) /\ lines[2].coord = coord
        BY <1>1, <2>3
      <3>2. Directs(lines, 1, 2)
        BY <3>1 DEF Directs, Directive
      <3>3. Said(lines, 1, 2) = coord
        <4>1. lines[1].coord = coord /\ coord.line \in Nat /\ coord = Coord(coord.file, coord.line)
          BY <3>1, RealCoords DEF Directive
        <4>2. coord.line + 2 - 1 - 1 = coord.line
          BY <4>1
        <4> QED
          BY <4>1, <4>2 DEF Said
      <3>4. RightAt(lines, 2)
        BY <3>1, <3>2, <3>3 DEF RightAt
      <3> QED
        BY <2>3, <3>1, <3>4
    <2> QED
      BY <2>1, <2>2, <2>3
  <1> HIDE DEF lines
  <1>4. RightAt(s \o lines, Len(s) + (d + j))
    <2>1. d + j \in 1..Len(lines)
      BY <1>1
    <2> QED
      BY <1>2, <1>3, <2>1, RightOnTheRight
  <1>5. Len(s) + (d + j) = Len(whole) - Len(t) + j
    <2>1. Len(s \o lines) = Len(s) + Len(lines) /\ Len(s) \in Nat
      BY <1>2, Joined
    <2> QED
      BY <1>1, <2>1 DEF lines
  <1> QED
    BY <1>4, <1>5 DEF lines

\* Lines of declarations.
Headless(lines) == \A i \in 1..Len(lines) : lines[i].role # "func"
Plain(lines) == Headless(lines) /\ ~Marks(lines, 1)
\* Nothing is marked up to the head of a function.
HeadsFirst(lines) ==
    \A i \in 1..Len(lines) : lines[i].role = "func" => \A j \in 1..i : ~Marked(lines[j])

\* A text, a directive if need be, and another text from line o + 1 on.
Carries(whole, s, t, coord, o) ==
    /\ whole \in Texts /\ Len(whole) \in Nat /\ Len(s) \in Nat /\ Len(t) \in Nat
    /\ o \in Nat /\ o >= Len(s)
    /\ \A i \in 1..Len(s) :
         i \in 1..Len(whole) /\ whole[i] = s[i] /\ (RightAt(s, i) => RightAt(whole, i))
    /\ \A j \in 1..Len(t) :
         /\ o + j \in 1..Len(whole) /\ o + j > Len(s) /\ whole[o + j] = t[j]
         /\ RightAt(t, j) \/ (j = 1 /\ t[1].coord = coord /\ NeedsDirective(coord)) =>
              RightAt(whole, o + j)
    /\ \A i \in 1..Len(whole) :
         \/ i \in 1..Len(s)
         \/ whole[i] = Directive(coord)
         \/ \E j \in 1..Len(t) : i = o + j

LEMMA Carried ==
    ASSUME NEW s \in Texts, NEW t \in Texts, NEW coord \in Coords, belief \in Positions,
           NEW whole, whole = s \o Prefixed(coord, t)
    PROVE  \E o \in Nat : Carries(whole, s, t, coord, o)
  <1>1. Continues(whole, s, t, coord)
    BY JoinedPrefixed
  <1>2. PICK o \in Nat : o = Len(whole) - Len(t) /\ o >= Len(s)
    <2>1. /\ Len(whole) \in Nat /\ Len(s) \in Nat /\ Len(t) \in Nat
          /\ Len(whole) = Len(s) + Len(Prefixed(coord, t))
      BY <1>1, PrefixType, Joined DEF Continues
    <2>2. PICK d \in {0, 1} : Len(Prefixed(coord, t)) = d + Len(t)
      BY PrefixedLines
    <2>3. Len(whole) - Len(t) = Len(s) + d /\ Len(s) + d \in Nat /\ Len(s) + d >= Len(s)
      BY <2>1, <2>2
    <2> QED
      BY <2>3
  <1>3. ASSUME NEW i \in 1..Len(s)
        PROVE  i \in 1..Len(whole) /\ whole[i] = s[i] /\ (RightAt(s, i) => RightAt(whole, i))
    <2>1. RightAt(s, i) => RightAt(whole, i)
      BY PrefixType, RightOnTheLeft
    <2> QED
      BY <1>1, <2>1 DEF Continues
  <1>4. ASSUME NEW j \in 1..Len(t)
        PROVE  /\ o + j \in 1..Len(whole) /\ o + j > Len(s) /\ whole[o + j] = t[j]
               /\ RightAt(t, j) \/ (j = 1 /\ t[1].coord = coord /\ NeedsDirective(coord)) =>
                    RightAt(whole, o + j)
    <2>1. RightAt(t, j) \/ (j = 1 /\ t[1].coord = coord /\ NeedsDirective(coord)) =>
            RightAt(whole, o + j)
      BY <1>2, RightBehind
    <2> QED
      BY <1>1, <1>2, <2>1 DEF Continues
  <1>5. ASSUME NEW i \in 1..Len(whole)
        PROVE  \/ i \in 1..Len(s) \/ whole[i] = Directive(coord)
               \/ \E j \in 1..Len(t) : i = o + j
    BY <1>1, <1>2 DEF Continues
  <1>6. /\ whole \in Texts /\ Len(whole) \in Nat /\ Len(s) \in Nat /\ Len(t) \in Nat
    BY <1>1 DEF Continues
  <1>7. Carries(whole, s, t, coord, o)
    BY <1>2, <1>3, <1>4, <1>5, <1>6 DEF Carries
  <1> QED
    BY <1>7

LEMMA Unmarked ==
    /\ \A coord : ~Marked(Directive(coord)) /\ Directive(coord).role # "func"
    /\ ~Marked(Line(Layout)) /\ Line(Layout).role # "func"
  BY DEF Marked, Directive, Line, Layout

\* Which lines of the whole are marked.
LEMMA MarksJoined ==
    ASSUME NEW s, NEW t, NEW whole, NEW coord, NEW o,
           Carries(whole, s, t, coord, o), NEW b \in {1, 2}, Len(s) >= b - 1, Len(t) >= 1
    PROVE  Marks(whole, b) <=> Marks(s, b) \/ Marks(t, 2) \/ Marked(t[1])
  <1> USE DEF Carries
  <1>1. ASSUME Marks(s, b) PROVE Marks(whole, b)
    <2>1. PICK i \in b..Len(s) : Marked(s[i])
      BY <1>1 DEF Marks
    <2>2. i \in 1..Len(s) /\ i \in b..Len(whole)
      OBVIOUS
    <2> QED
      BY <2>1, <2>2 DEF Marks
  <1>2. ASSUME NEW j \in 1..Len(t), Marked(t[j]) PROVE Marks(whole, b)
    <2>1. o + j \in b..Len(whole)
      OBVIOUS
    <2> QED
      BY <1>2, <2>1 DEF Marks
  <1>3. \A j \in 2..Len(t) : j \in 1..Len(t)
    OBVIOUS
  <1>4. ASSUME NEW i \in b..Len(whole), Marked(whole[i])
        PROVE  Marks(s, b) \/ Marks(t, 2) \/ Marked(t[1])
    <2>1. i \in 1..Len(whole) /\ whole[i] # Directive(coord)
      BY <1>4, Unmarked
    <2>2. CASE i \in 1..Len(s)
      <3>1. i \in b..Len(s)
        BY <2>2
      <3> QED
        BY <1>4, <2>2, <3>1 DEF Marks
    <2>3. ASSUME NEW j \in 1..Len(t), i = o + j
          PROVE  Marks(t, 2) \/ Marked(t[1])
      <3>1. j = 1 \/ j \in 2..Len(t)
        OBVIOUS
      <3> QED
        BY <1>4, <2>3, <3>1 DEF Marks
    <2> QED
      BY <2>1, <2>2, <2>3
  <1>5. 1 \in 1..Len(t)
    OBVIOUS
  <1> QED
    BY <1>1, <1>2, <1>3, <1>4, <1>5 DEF Marks

\* Conditions and loops stay right; the whole begins with one of them only
\* behind a directive.
LEMMA CondsJoined ==
    ASSUME NEW s, NEW t, NEW whole, NEW coord, NEW o,
           Carries(whole, s, t, coord, o), NEW b \in {1, 2}, CondsRight(s, b), CondsRight(t, 2),
           1 \in 1..Len(t) /\ Marked(t[1]) /\ t[1].role \in {"if", "loop"} =>
             t[1].coord = coord /\ NeedsDirective(coord)
    PROVE  CondsRight(whole, b)
  <1> USE DEF Carries
  <1>1. ASSUME NEW i \in b..Len(whole), Marked(whole[i]), whole[i].role \in {"if", "loop"}
        PROVE  RightAt(whole, i)
    <2>1. i \in 1..Len(whole) /\ whole[i] # Directive(coord)
      BY <1>1, Unmarked
    <2>2. CASE i \in 1..Len(s)
      <3>1. i \in b..Len(s)
        BY <2>2
      <3> QED
        BY <1>1, <2>2, <3>1 DEF CondsRight
    <2>3. ASSUME NEW j \in 1..Len(t), i = o + j
          PROVE  RightAt(whole, i)
      <3>1. j = 1 \/ j \in 2..Len(t)
        OBVIOUS
      <3> QED
        BY <1>1, <2>3, <3>1 DEF CondsRight
    <2> QED
      BY <2>1, <2>2, <2>3
  <1> QED
    BY <1>1 DEF CondsRight

LEMMA FirstJoined ==
    ASSUME NEW s, NEW t, NEW whole, NEW coord, NEW o,
           Carries(whole, s, t, coord, o), NEW b \in {1, 2}, Len(s) >= b - 1, FirstRight(s, b),
           ~Marks(s, b) =>
             IF Marked(t[1]) THEN t[1].coord = coord /\ NeedsDirective(coord)
             ELSE FirstRight(t, 2)
    PROVE  FirstRight(whole, b)
  <1> USE DEF Carries
  <1>1. ASSUME NEW i \in b..Len(whole), Marked(whole[i]),
               \A m \in b..(i - 1) : ~Marked(whole[m])
        PROVE  RightAt(whole, i)
    <2>1. i \in 1..Len(whole) /\ whole[i] # Directive(coord)
      BY <1>1, Unmarked
    <2>2. CASE i \in 1..Len(s)
      <3>1. i \in b..Len(s) /\ \A m \in b..(i - 1) : m \in 1..Len(s)
        BY <2>2
      <3> QED
        BY <1>1, <2>2, <3>1 DEF FirstRight
    <2>3. ASSUME NEW j \in 1..Len(t), i = o + j
          PROVE  RightAt(whole, i)
      <3>1. ~Marks(s, b)
        <4>1. ASSUME NEW m \in b..Len(s) PROVE ~Marked(s[m])
          <5>1. m \in b..(i - 1) /\ m \in 1..Len(s)
            BY <2>3
          <5> QED
            BY <1>1, <5>1
        <4> QED
          BY <4>1 DEF Marks
      <3>2. j = 1 \/ j \in 2..Len(t)
        OBVIOUS
      <3>3. ASSUME NEW m \in 1..(j - 1) PROVE ~Marked(t[m])
        <4>1. o + m \in b..(i - 1) /\ m \in 1..Len(t)
          BY <2>3
        <4> QED
          BY <1>1, <4>1
      <3>4. CASE j = 1
        BY <1>1, <2>3, <3>1, <3>4
      <3>5. CASE j \in 2..Len(t)
        <4>1. ~Marked(t[1]) /\ \A m \in 2..(j - 1) : ~Marked(t[m])
          BY <3>3, <3>5
        <4>2. RightAt(t, j)
          BY <1>1, <2>3, <3>1, <3>5, <4>1 DEF FirstRight
        <4> QED
          BY <2>3, <4>2
      <3> QED
        BY <3>2, <3>4, <3>5
    <2> QED
      BY <2>1, <2>2, <2>3
  <1> QED
    BY <1>1 DEF FirstRight

\* The lines behind the heads of the functions.
LEMMA HeadsJoined ==
    ASSUME NEW s, NEW t, NEW whole, NEW coord, NEW o,
           Carries(whole, s, t, coord, o), HeadsRight(s), HeadsFirst(t),
           Marks(t, 1) => ~Marked(t[1]) /\ FirstRight(t, 2)
    PROVE  HeadsRight(whole)
  <1> USE DEF Carries
  <1>1. ASSUME NEW i \in 1..Len(whole), NEW j \in 1..Len(whole), whole[i].role = "func", i < j,
               Marked(whole[j]), \A m \in (i + 1)..(j - 1) : ~Marked(whole[m])
        PROVE  RightAt(whole, j)
    <2>1. whole[i] # Directive(coord) /\ whole[j] # Directive(coord)
      BY <1>1, Unmarked
    <2>2. CASE j \in 1..Len(s)
      <3>1. i \in 1..Len(s) /\ \A m \in (i + 1)..(j - 1) : m \in 1..Len(s)
        BY <1>1, <2>2
      <3> QED
        BY <1>1, <2>2, <3>1 DEF HeadsRight
    <2>3. ASSUME NEW l \in 1..Len(t), j = o + l
          PROVE  RightAt(whole, j)
      <3>1. ASSUME NEW m \in 1..(l - 1) PROVE ~Marked(t[m])
        <4>1. m \in 1..Len(t) /\ whole[o + m] = t[m]
          OBVIOUS
        <4>2. CASE o + m > i
          <5>1. o + m \in (i + 1)..(j - 1)
            BY <2>3, <4>2
          <5> QED
            BY <1>1, <4>1, <5>1
        <4>3. CASE o + m <= i
          <5>1. i \notin 1..Len(s)
            BY <4>1, <4>3
          <5>2. PICK h \in 1..Len(t) : i = o + h
            BY <2>1, <5>1
          <5>3. m \in 1..h /\ t[h].role = "func"
            BY <1>1, <4>3, <5>2
          <5> QED
            BY <5>3 DEF HeadsFirst
        <4> QED
          BY <4>2, <4>3
      <3>2. Marks(t, 1) /\ Marked(t[l])
        BY <1>1, <2>3 DEF Marks
      <3>3. l \in 2..Len(t) /\ \A m \in 2..(l - 1) : m \in 1..(l - 1)
        <4>1. l # 1
          BY <3>2
        <4> QED
          BY <4>1
      <3>4. RightAt(t, l)
        BY <3>1, <3>2, <3>3 DEF FirstRight
      <3> QED
        BY <2>3, <3>4
    <2> QED
      BY <2>1, <2>2, <2>3
  <1> QED
    BY <1>1 DEF HeadsRight

LEMMA HeadlessJoined ==
    ASSUME NEW s, NEW t, NEW whole, NEW coord, NEW o,
           Carries(whole, s, t, coord, o), Headless(t)
    PROVE  /\ Headless(s) => Headless(whole)
           /\ HeadsFirst(s) => HeadsFirst(whole)
           /\ Plain(s) /\ ~Marks(t, 1) => Plain(whole)
  <1> USE DEF Carries
  <1>1. ASSUME NEW i \in 1..Len(whole), whole[i].role = "func"
        PROVE  i \in 1..Len(s) /\ s[i].role = "func" /\ \A j \in 1..i : j \in 1..Len(s)
    <2>1. whole[i] # Directive(coord)
      BY <1>1, Unmarked
    <2>2. ASSUME NEW j \in 1..Len(t), i = o + j PROVE FALSE
      BY <1>1, <2>2 DEF Headless
    <2>3. i \in 1..Len(s)
      BY <2>1, <2>2
    <2> QED
      BY <1>1, <2>3
  <1>2. ASSUME Plain(s), ~Marks(t, 1), NEW i \in 1..Len(whole)
        PROVE  ~Marked(whole[i])
    <2>1. CASE i \in 1..Len(s)
      BY <1>2, <2>1 DEF Plain, Marks
    <2>2. CASE whole[i] = Directive(coord)
      BY <2>2, Unmarked
    <2>3. ASSUME NEW j \in 1..Len(t), i = o + j PROVE ~Marked(whole[i])
      BY <1>2, <2>3 DEF Marks
    <2> QED
      BY <2>1, <2>2, <2>3
  <1>3. Headless(s) => Headless(whole)
    BY <1>1 DEF Headless
  <1>4. HeadsFirst(s) => HeadsFirst(whole)
    BY <1>1 DEF HeadsFirst
  <1> QED
    BY <1>2, <1>3, <1>4 DEF Plain, Marks

-----------------------------------------------------------------------------
(* Nested statements.  A condition or loop is right because the generator  *)
(* has got further than its line when its own directive is decided about,  *)
(* and the first statement of a function because the generator believes    *)
(* nothing then.                                                           *)

\* Nothing of the program has been written in the first k calls.
Bare(k) == \A j \in 2..k : ~Marks(stack[j].text, 2)

Written(k) ==
    LET node == stack[k].node
        lines == stack[k].text
    IN  /\ Len(lines) >= 1
        /\ CondsRight(lines, 2)
        /\ Bare(k - 1) => FirstRight(lines, 2)
        /\ IF k = 2 THEN ~Marked(lines[1]) /\ HeadsFirst(lines)
           ELSE lines[1].role = node.kind /\ lines[1].coord = node.coord /\ Headless(lines)

\* The generator has got further than the statements it is in begin, if
\* anything of the program has been written in them.
Ahead(start, k) ==
    Marks(stack[k].text, 2) =>
      start[stack[k].node] # 0 /\ belief.line > start[stack[k].node]

Ordered(start, k) ==
    \A j \in 3..(k - 1) :
      start[stack[k].node] # 0 => start[stack[j].node] \in 1..start[stack[k].node]

\* A part of the program that has been generated is in the text.
Begins(start, part) == part # Layout /\ start[part] # 0
Done(start, k) ==
    LET parts == Parts(ast, stack[k].node)
        next == stack[k].next
    IN  /\ next = 1 \/ next - 1 \in DOMAIN parts
        /\ \A i \in DOMAIN parts :
             \/ ~Begins(start, parts[i])
             \/ i >= next
             \/ k < Len(stack) /\ i = next - 1
             \/ Marks(stack[k].text, 2)

BodyInv(start) ==
    /\ Bare(Len(stack)) => belief.line = 0
    /\ \A k \in 2..Len(stack) : Written(k)
    /\ \A k \in 3..Len(stack) : Ahead(start, k) /\ Ordered(start, k) /\ Done(start, k)

CondInv(start) ==
    phase \in {"generate", "compile"} =>
      /\ CondsRight(stack[1].text, 1) /\ HeadsRight(stack[1].text)
      /\ Len(stack) >= 2 =>
           IF stack[2].node.kind = "func" THEN BodyInv(start)
           ELSE \A k \in 2..Len(stack) : Plain(stack[k].text)

LEMMA Starts ==
    ASSUME NEW start \in [Stmts -> Nat], InOrder(start), NEW node \in Stmts,
           NEW program \in Seq(Externals)
    PROVE  LET parts == Parts(program, node) IN
           /\ start[node] \in Nat
           /\ node.coord # NoCoord => start[node] = node.coord.line /\ start[node] # 0
           /\ \A i \in DOMAIN parts : Begins(start, parts[i]) =>
                parts[i] \in Stmts /\ start[node] \in 1..start[parts[i]]
           /\ \/ node.coord # NoCoord /\ node.kind \in {"if", "loop"}
              \/ node.coord = NoCoord /\ start[node] # 0
              => \E i \in DOMAIN parts : Begins(start, parts[i])
  <1> DEFINE parts == Parts(program, node)
  <1>1. node \in Nodes /\ node.kind \in {"simple", "block", "if", "loop"} /\ node.coord \in Coords
    BY NodeKinds DEF Nodes
  <1>2. parts = Parts(<<>>, node) /\ parts \in Seq({Layout} \cup Stmts)
    <2>1. parts = Parts(<<>>, node)
      BY <1>1 DEF Parts
    <2>2. parts \in Seq(Within(node)) /\ Within(node) = {Layout} \cup Stmts
      BY <1>1, PartsType DEF Within
    <2> QED
      BY <2>1, <2>2
  <1> HIDE DEF parts
  <1>3. \A i \in DOMAIN parts : parts[i] # Layout => parts[i] \in Items(node) /\ parts[i] \in Stmts
    BY <1>2 DEF Items, ToSet
  <1>4. \A item \in Items(node) : \E i \in DOMAIN parts : item = parts[i] /\ item # Layout
    BY <1>2 DEF Items, ToSet
  <1>5. /\ node.coord # NoCoord => start[node] = node.coord.line
        /\ \A item \in Items(node) : start[item] # 0 => start[node] \in 1..start[item]
        /\ \/ node.coord # NoCoord /\ node.kind \in {"if", "loop"}
           \/ node.coord = NoCoord /\ start[node] # 0
           => \E item \in Items(node) : start[item] # 0
    BY DEF InOrder
  <1>6. node.coord # NoCoord => node.coord.line # 0
    BY <1>1, RealCoords
  <1> QED
    BY <1>3, <1>4, <1>5, <1>6 DEF Begins, parts

\* The text of the last call goes on, with a text and perhaps its directive.
LEMMA WrittenOn ==
    ASSUME NEW n \in Nat, 2 <= n, n <= Len(stack), \A k \in 2..n : Written(k),
           NEW t, NEW coord, NEW o, Carries(stack'[n].text, stack[n].text, t, coord, o),
           \A k \in 1..(n - 1) : stack'[k] = stack[k], stack'[n].node = stack[n].node,
           Headless(t), CondsRight(t, 2),
           Marked(t[1]) /\ t[1].role \in {"if", "loop"} =>
             t[1].coord = coord /\ NeedsDirective(coord),
           Bare(n) => IF Marked(t[1]) THEN t[1].coord = coord /\ NeedsDirective(coord)
                      ELSE FirstRight(t, 2)
    PROVE  \A k \in 2..n : Written(k)'
  <1> DEFINE s == stack[n].text
             whole == stack'[n].text
  <1>1. ASSUME NEW k \in 2..n PROVE Bare(k - 1)' <=> Bare(k - 1)
    <2>1. \A j \in 2..(k - 1) : j \in 1..(n - 1)
      OBVIOUS
    <2> QED
      BY <2>1 DEF Bare
  <1>2. ASSUME NEW k \in 2..(n - 1) PROVE Written(k)'
    <2>1. stack'[k] = stack[k] /\ Written(k) /\ (Bare(k - 1)' <=> Bare(k - 1))
      BY <1>1
    <2> QED
      BY <2>1 DEF Written
  <1>3. /\ Written(n) /\ Carries(whole, s, t, coord, o) /\ Len(s) >= 2 - 1
        /\ 2 \in {1, 2}
    BY DEF Written
  <1>4. CondsRight(whole, 2)
    <2>1. CondsRight(s, 2)
      BY <1>3 DEF Written
    <2> QED
      BY <1>3, <2>1, CondsJoined
  <1>5. ASSUME Bare(n - 1) PROVE FirstRight(whole, 2)
    <2>1. FirstRight(s, 2)
      BY <1>3, <1>5 DEF Written
    <2>2. ~Marks(s, 2) => Bare(n)
      <3>1. \A j \in 2..n : j \in 2..(n - 1) \/ j = n
        OBVIOUS
      <3> QED
        BY <1>5, <3>1 DEF Bare
    <2> QED
      BY <1>3, <2>1, <2>2, FirstJoined
  <1>6. Len(whole) >= 1 /\ whole[1] = s[1]
    BY <1>3 DEF Carries
  <1>7. IF n = 2 THEN ~Marked(whole[1]) /\ HeadsFirst(whole)
        ELSE /\ whole[1].role = stack'[n].node.kind /\ whole[1].coord = stack'[n].node.coord
             /\ Headless(whole)
    <2>1. (Headless(s) => Headless(whole)) /\ (HeadsFirst(s) => HeadsFirst(whole))
      BY <1>3, HeadlessJoined
    <2> QED
      BY <1>3, <1>6, <2>1 DEF Written
  <1>8. Written(n)'
    <2>1. Bare(n - 1)' <=> Bare(n - 1)
      BY <1>1
    <2> QED
      BY <1>4, <1>5, <1>6, <1>7, <2>1 DEF Written
  <1> QED
    BY <1>2, <1>8

LEMMA FileOn ==
    ASSUME NEW t, NEW coord, NEW o, Carries(stack'[1].text, stack[1].text, t, coord, o),
           CondsRight(stack[1].text, 1), HeadsRight(stack[1].text),
           CondsRight(t, 2), FirstRight(t, 2), HeadsFirst(t),
           1 \in 1..Len(t) => ~Marked(t[1])
    PROVE  CondsRight(stack'[1].text, 1) /\ HeadsRight(stack'[1].text)
  <1> DEFINE s == stack[1].text
             whole == stack'[1].text
  <1>1. CondsRight(whole, 1)
    BY CondsJoined
  <1>2. HeadsRight(whole)
    <2>1. Marks(t, 1) => ~Marked(t[1]) /\ FirstRight(t, 2)
      <3>1. Marks(t, 1) => 1 \in 1..Len(t)
        BY DEF Marks, Carries
      <3> QED
        BY <3>1
    <2> HIDE DEF s, whole
    <2>2. Carries(whole, s, t, coord, o) /\ HeadsRight(s)
      BY DEF s, whole
    <2> QED
      BY <2>1, <2>2, HeadsJoined
  <1> QED
    BY <1>1, <1>2

LEMMA LayoutLine ==
    ASSUME NEW t, t = <<Line(Layout)>>
    PROVE  /\ t \in Texts /\ Len(t) = 1 /\ ~Marked(t[1]) /\ ~Marks(t, 1) /\ ~Marks(t, 2)
           /\ Headless(t) /\ HeadsFirst(t) /\ CondsRight(t, 2) /\ FirstRight(t, 2)
  <1>1. Len(t) = 1 /\ \A i \in 1..Len(t) : t[i] = Line(Layout) /\ i = 1
    OBVIOUS
  <1>2. \A i \in 2..Len(t) : FALSE
    BY <1>1
  <1> QED
    BY <1>1, <1>2, Unmarked, LayoutType
    DEF Marks, Headless, HeadsFirst, CondsRight, FirstRight

\* Declarations are written outside functions.
LEMMA PlainOn ==
    ASSUME NEW n \in Nat, 2 <= n, n <= Len(stack), \A k \in 2..n : Plain(stack[k].text),
           NEW t, NEW coord, NEW o, Carries(stack'[n].text, stack[n].text, t, coord, o),
           \A k \in 1..(n - 1) : stack'[k] = stack[k], Plain(t)
    PROVE  \A k \in 2..n : Plain(stack'[k].text)
  <1>1. Plain(stack'[n].text)
    BY HeadlessJoined DEF Plain
  <1>2. \A k \in 2..n : k = n \/ (k \in 1..(n - 1) /\ stack'[k] = stack[k])
    OBVIOUS
  <1> QED
    BY <1>1, <1>2

LEMMA CondWriteLayout ==
    ASSUME NEW start \in [Stmts -> Nat], InOrder(start), TypeInv, CondInv(start),
           phase = "generate", WriteLayout
    PROVE  CondInv(start)'
  <1> DEFINE t == <<Line(Layout)>>
  <1>1. PICK n \in Nat \ {0} : n = Len(stack)
    BY DEF TypeInv, StackType
  <1>2. /\ HasPart /\ Part = Layout /\ Write(t) /\ belief' = belief /\ phase' = phase
        /\ ast' = ast /\ Top = stack[n]
    BY <1>1 DEF WriteLayout, Generating, Top
  <1>3. /\ Len(stack') = n /\ \A k \in 1..(n - 1) : stack'[k] = stack[k]
        /\ stack'[n].node = stack[n].node /\ stack'[n].next = stack[n].next + 1
        /\ stack'[n].text = stack[n].text \o t
    BY <1>1, <1>2, Wrote, LayoutType DEF TypeInv, StackType
  <1>4. /\ t \in Texts /\ Len(t) = 1 /\ ~Marked(t[1]) /\ ~Marks(t, 1) /\ ~Marks(t, 2)
        /\ Headless(t) /\ HeadsFirst(t) /\ CondsRight(t, 2) /\ FirstRight(t, 2)
    BY LayoutLine
  <1> HIDE DEF t
  <1>5. PICK o \in Nat : Carries(stack'[n].text, stack[n].text, t, NoCoord, o)
    <2>1. stack'[n].text = stack[n].text \o Prefixed(NoCoord, t) /\ stack[n].text \in Texts
      <3>1. n \in 1..Len(stack) /\ Prefixed(NoCoord, t) = t
        BY <1>1, PrefixedNone
      <3> QED
        BY <1>3, <3>1, Places
    <2> QED
      BY <1>4, <2>1, Carried, CoordTypes DEF TypeInv
  <1>6. CondsRight(stack[1].text, 1) /\ HeadsRight(stack[1].text)
    BY DEF CondInv
  <1>7. CASE n = 1
    <2>1. CondsRight(stack'[1].text, 1) /\ HeadsRight(stack'[1].text)
      BY <1>4, <1>5, <1>6, <1>7, FileOn
    <2> QED
      BY <1>3, <1>7, <2>1 DEF CondInv
  <1>8. CASE n >= 2 /\ stack[2].node.kind # "func"
    <2>1. \A k \in 2..n : Plain(stack[k].text)
      BY <1>1, <1>8 DEF CondInv
    <2>2. \A k \in 2..n : Plain(stack'[k].text)
      <3>1. n \in Nat /\ 2 <= n /\ n <= Len(stack) /\ Plain(t)
        BY <1>1, <1>4, <1>8 DEF Plain
      <3> QED
        BY <1>3, <1>5, <2>1, <3>1, PlainOn
    <2>3. stack'[1] = stack[1] /\ stack'[2].node = stack[2].node
      BY <1>3, <1>8
    <2> QED
      BY <1>3, <1>6, <1>8, <2>2, <2>3 DEF CondInv
  <1>9. CASE n >= 2 /\ stack[2].node.kind = "func"
    <2>1. BodyInv(start) /\ n \in 2..n
      BY <1>1, <1>9 DEF CondInv
    <2>2. \A k \in 2..n : Written(k)'
      <3>1. /\ n \in Nat /\ 2 <= n /\ n <= Len(stack)
            /\ \A k \in 2..n : Written(k)
            /\ Bare(n) => IF Marked(t[1]) THEN t[1].coord = NoCoord /\ NeedsDirective(NoCoord)
                          ELSE FirstRight(t, 2)
        BY <1>1, <1>4, <1>9, <2>1 DEF BodyInv
      <3> QED
        BY <1>3, <1>4, <1>5, <3>1, WrittenOn
    <2>3. Marks(stack'[n].text, 2) <=> Marks(stack[n].text, 2)
      <3>1. Len(stack[n].text) >= 2 - 1 /\ Len(t) >= 1 /\ 2 \in {1, 2}
        BY <1>1, <1>4, <2>1 DEF BodyInv, Written
      <3>2. Marks(stack'[n].text, 2) <=> Marks(stack[n].text, 2) \/ Marks(t, 2) \/ Marked(t[1])
        BY <1>5, <3>1, MarksJoined
      <3> QED
        BY <1>4, <3>2
    <2>4. \A k \in 2..n : /\ stack'[k].node = stack[k].node
                          /\ Marks(stack'[k].text, 2) <=> Marks(stack[k].text, 2)
      <3>1. \A k \in 2..n : k = n \/ stack'[k] = stack[k]
        BY <1>3
      <3> QED
        BY <1>3, <2>3, <3>1
    <2>5. Bare(n)' => belief'.line = 0
      BY <1>1, <1>2, <2>1, <2>4 DEF BodyInv, Bare
    <2>6. ASSUME NEW k \in 3..n PROVE Ahead(start, k)' /\ Ordered(start, k)'
      <3>1. Ahead(start, k) /\ Ordered(start, k) /\ k \in 2..n /\ \A j \in 3..(k - 1) : j \in 2..n
        BY <1>1, <2>1 DEF BodyInv
      <3> QED
        BY <1>2, <2>4, <3>1 DEF Ahead, Ordered
    <2>7. ASSUME NEW k \in 3..n PROVE Done(start, k)'
      <3>1. Done(start, k) /\ k \in 2..n
        BY <1>1, <2>1 DEF BodyInv
      <3>2. CASE k # n
        <4>1. stack'[k] = stack[k]
          BY <1>3, <3>2
        <4> QED
          BY <1>1, <1>2, <1>3, <3>1, <4>1 DEF Done
      <3>3. CASE k = n
        <4> DEFINE parts == Parts(ast, stack[n].node)
                   next == stack[n].next
        <4>1. next \in DOMAIN parts /\ parts[next] = Layout /\ next \in Nat \ {0}
          BY <1>1, <1>2, Places DEF HasPart, Part
        <4>2. ~Begins(start, parts[next])
          BY <4>1 DEF Begins
        <4>3. DOMAIN parts \subseteq Nat
          BY <1>1, Places, PartsType DEF TypeInv
        <4>4. ASSUME NEW i \in DOMAIN parts
              PROVE  \/ ~Begins(start, parts[i]) \/ i >= next + 1 \/ Marks(stack[n].text, 2)
          <5>1. i >= next => i = next \/ i >= next + 1
            BY <4>1, <4>3
          <5> QED
            BY <1>1, <3>1, <3>3, <4>2, <5>1 DEF Done
        <4>5. next + 1 - 1 = next
          BY <4>1
        <4> QED
          BY <1>2, <1>3, <2>4, <3>1, <3>3, <4>1, <4>4, <4>5 DEF Done
      <3> QED
        BY <3>2, <3>3
    <2>8. stack'[1] = stack[1] /\ stack'[2].node = stack[2].node
      BY <1>3, <1>9
    <2> QED
      BY <1>3, <1>6, <1>9, <2>2, <2>5, <2>6, <2>7, <2>8 DEF CondInv, BodyInv
  <1> QED
    BY <1>1, <1>7, <1>8, <1>9

\* What a statement or declaration begins with; its own line is only the first.
LEMMA FreshLines ==
    ASSUME NEW node \in Nodes, node.kind # "func"
    PROVE  LET lines == Beginning(node) IN
           /\ Len(lines) >= 1
           /\ lines[1].role = node.kind /\ lines[1].coord = node.coord
           /\ ~Marks(lines, 2) /\ CondsRight(lines, 2) /\ FirstRight(lines, 2)
           /\ Headless(lines)
           /\ node \notin Stmts => Plain(lines)
  <1> DEFINE lines == Beginning(node)
  <1>1. /\ Len(lines) \in Nat \ {0} /\ lines[1] = Line(node)
        /\ \A i \in 2..Len(lines) : lines[i] = Line(Layout)
    BY BeginningType DEF Texts
  <1> HIDE DEF lines
  <1>2. lines[1].role = node.kind /\ lines[1].coord = node.coord
    BY <1>1 DEF Line
  <1>3. \A i \in 2..Len(lines) : ~Marked(lines[i]) /\ lines[i].role # "func"
    BY <1>1, Unmarked
  <1>4. \A i \in 1..Len(lines) : i = 1 \/ i \in 2..Len(lines)
    BY <1>1
  <1>5. Headless(lines)
    BY <1>2, <1>3, <1>4 DEF Headless
  <1>6. ASSUME node \notin Stmts PROVE Plain(lines)
    <2>1. ~Marked(lines[1])
      BY <1>2, <1>6, NodeKinds DEF Marked
    <2> QED
      BY <1>3, <1>4, <1>5, <2>1 DEF Plain, Marks
  <1> QED
    BY <1>1, <1>2, <1>3, <1>5, <1>6 DEF Marks, CondsRight, FirstRight, lines

LEMMA CondBeginStmt ==
    ASSUME NEW start \in [Stmts -> Nat], InOrder(start), TypeInv, CondInv(start),
           phase = "generate", BeginStmt
    PROVE  CondInv(start)'
  <1> DEFINE t == Beginning(Part)
  <1>1. PICK n \in Nat \ {0} : n = Len(stack)
    BY DEF TypeInv, StackType
  <1>2. /\ HasPart /\ Part.kind \notin {"layout", "func"} /\ belief' = belief
        /\ Push(Frame(Part, t)) /\ phase' = phase /\ ast' = ast /\ Top = stack[n]
    BY <1>1 DEF BeginStmt, Generating, Top
  <1>3. /\ Part \in Nodes /\ Frame(Part, t) \in Frames
        /\ n = 1 => Part \in Externals
        /\ n >= 2 => IF stack[2].node.kind = "func" THEN Part \in Stmts ELSE Part.kind = "decl"
    BY <1>1, <1>2, PartFrames
  <1>4. /\ Len(stack') = n + 1 /\ \A k \in 1..(n - 1) : stack'[k] = stack[k]
        /\ stack'[n].node = stack[n].node /\ stack'[n].next = stack[n].next + 1
        /\ stack'[n].text = stack[n].text
        /\ stack'[n + 1] = Frame(Part, t)
    BY <1>1, <1>2, <1>3, Pushed DEF TypeInv, StackType
  <1>5. \A k \in 1..n : stack'[k].node = stack[k].node /\ stack'[k].text = stack[k].text
    BY <1>4
  <1>6. /\ stack'[n + 1].node = Part /\ stack'[n + 1].text = t /\ stack'[n + 1].next = 1
        /\ Len(t) >= 1 /\ t[1].role = Part.kind /\ t[1].coord = Part.coord
        /\ ~Marks(t, 2) /\ CondsRight(t, 2) /\ FirstRight(t, 2)
        /\ Headless(t) /\ (Part \notin Stmts => Plain(t))
    BY <1>2, <1>3, <1>4, FreshLines DEF Frame
  <1> HIDE DEF t
  <1>7. CondsRight(stack'[1].text, 1) /\ HeadsRight(stack'[1].text)
    BY <1>1, <1>5 DEF CondInv
  <1>8. CASE n = 1
    <2>1. stack'[2].node.kind # "func" /\ Plain(stack'[2].text)
      BY <1>2, <1>3, <1>6, <1>8, NodeKinds
    <2>2. Len(stack') = 2 /\ \A k \in 2..2 : k = 2
      BY <1>4, <1>8
    <2> QED
      BY <1>7, <2>1, <2>2 DEF CondInv
  <1>9. CASE n >= 2 /\ stack[2].node.kind # "func"
    <2>1. \A k \in 2..n : Plain(stack'[k].text)
      BY <1>1, <1>5, <1>9 DEF CondInv
    <2>2. Plain(stack'[n + 1].text)
      BY <1>3, <1>6, <1>9, NodeKinds
    <2>3. \A k \in 2..(n + 1) : k \in 2..n \/ k = n + 1
      OBVIOUS
    <2>4. stack'[2].node = stack[2].node
      BY <1>5, <1>9
    <2> QED
      BY <1>4, <1>7, <1>9, <2>1, <2>2, <2>3, <2>4 DEF CondInv
  <1>10. CASE n >= 2 /\ stack[2].node.kind = "func"
    <2>1. BodyInv(start) /\ Part \in Stmts
      BY <1>1, <1>3, <1>10 DEF CondInv
    <2>2. \A k \in 2..(n + 1) : k \in 2..n \/ k = n + 1
      OBVIOUS
    <2>3. \A k \in 1..n : Bare(k)' <=> Bare(k)
      <3>1. \A k \in 1..n : \A j \in 2..k : j \in 1..n
        OBVIOUS
      <3> QED
        BY <1>5, <3>1 DEF Bare
    <2>4. Bare(n + 1)' => belief'.line = 0
      <3>1. Bare(n + 1)' => Bare(n)'
        BY <2>2 DEF Bare
      <3> QED
        BY <1>1, <1>2, <2>1, <2>3, <3>1 DEF BodyInv
    <2>5. ASSUME NEW k \in 2..(n + 1) PROVE Written(k)'
      <3>1. CASE k \in 2..n
        <4>1. Written(k) /\ (Bare(k - 1)' <=> Bare(k - 1)) /\ k \in 1..n
          BY <1>1, <2>1, <2>3, <3>1 DEF BodyInv
        <4> QED
          BY <1>5, <4>1 DEF Written
      <3>2. CASE k = n + 1
        <4>1. k # 2
          BY <1>10, <3>2
        <4> QED
          BY <1>6, <3>2, <4>1 DEF Written
      <3> QED
        BY <2>2, <3>1, <3>2
    <2>6. ASSUME NEW k \in 3..(n + 1) PROVE Ahead(start, k)'
      <3>1. CASE k \in 3..n
        <4>1. Ahead(start, k) /\ k \in 1..n
          BY <1>1, <2>1, <3>1 DEF BodyInv
        <4> QED
          BY <1>2, <1>5, <4>1 DEF Ahead
      <3>2. CASE k = n + 1
        BY <1>6, <3>2 DEF Ahead
      <3> QED
        BY <2>2, <3>1, <3>2
    <2>7. ASSUME NEW k \in 3..(n + 1) PROVE Ordered(start, k)'
      <3>1. CASE k \in 3..n
        <4>1. Ordered(start, k) /\ k \in 1..n /\ \A j \in 3..(k - 1) : j \in 1..n
          BY <1>1, <2>1, <3>1 DEF BodyInv
        <4> QED
          BY <1>5, <4>1 DEF Ordered
      <3>2. CASE k = n + 1
        <4>1. ASSUME NEW j \in 3..n, start[Part] # 0
              PROVE  start[stack[j].node] \in 1..start[Part]
          <5>1. n >= 3 /\ n \in 1..Len(stack) /\ j \in 1..Len(stack)
            BY <1>1, <4>1
          <5>2. stack[n].node \in Stmts /\ stack[j].node \in Stmts
            BY <1>10, <4>1, <5>1, Places
          <5>3. start[stack[n].node] \in 1..start[Part]
            <6>1. Begins(start, Part)
              BY <1>2, <4>1 DEF Begins, Layout
            <6>2. ast \in Seq(Externals) /\ Top.next \in DOMAIN Parts(ast, stack[n].node)
                  /\ Part = Parts(ast, stack[n].node)[Top.next]
              BY <1>2 DEF TypeInv, HasPart, Part
            <6> QED
              BY <5>2, <6>1, <6>2, Starts
          <5>4. start[stack[n].node] # 0 /\ start[Part] \in Nat /\ start[stack[n].node] \in Nat
            BY <2>1, <5>2, <5>3
          <5>5. CASE j = n
            BY <5>3, <5>5
          <5>6. CASE j # n
            <6>1. j \in 3..(n - 1) /\ Ordered(start, n)
              BY <1>1, <2>1, <4>1, <5>1, <5>6 DEF BodyInv
            <6>2. start[stack[j].node] \in 1..start[stack[n].node]
              BY <5>4, <6>1 DEF Ordered
            <6> QED
              BY <5>3, <5>4, <6>2
          <5> QED
            BY <5>5, <5>6
        <4>2. k - 1 = n /\ \A j \in 3..n : j \in 1..n
          BY <3>2
        <4> QED
          BY <1>5, <1>6, <3>2, <4>1, <4>2 DEF Ordered
      <3> QED
        BY <2>2, <3>1, <3>2
    <2>8. ASSUME NEW k \in 3..(n + 1) PROVE Done(start, k)'
      <3>1. CASE k \in 3..(n - 1)
        <4>1. Done(start, k) /\ stack'[k] = stack[k] /\ k < Len(stack) /\ k < Len(stack')
          BY <1>1, <1>4, <2>1, <3>1 DEF BodyInv
        <4> QED
          BY <1>2, <4>1 DEF Done
      <3>2. CASE k = n
        <4> DEFINE parts == Parts(ast, stack[n].node)
                   next == stack[n].next
        <4>1. next \in DOMAIN parts /\ next \in Nat /\ DOMAIN parts \subseteq Nat /\ n < n + 1
          BY <1>1, <1>2, Places, PartsType DEF HasPart, TypeInv
        <4>2. Done(start, n)
          BY <1>1, <2>1, <2>8, <3>2 DEF BodyInv
        <4>3. ASSUME NEW i \in DOMAIN parts
              PROVE  \/ ~Begins(start, parts[i]) \/ i >= next + 1 \/ i = next
                     \/ Marks(stack[n].text, 2)
          <5>1. i >= next => i = next \/ i >= next + 1
            BY <4>1
          <5> QED
            BY <1>1, <4>2, <5>1 DEF Done
        <4>4. next + 1 - 1 = next
          BY <4>1
        <4> QED
          BY <1>2, <1>4, <3>2, <4>1, <4>3, <4>4 DEF Done
      <3>3. CASE k = n + 1
        <4>1. DOMAIN Parts(ast, Part) \subseteq Nat \ {0}
          BY <1>3, PartsType DEF TypeInv
        <4>2. \A i \in DOMAIN Parts(ast, Part) : i >= 1
          BY <4>1
        <4> QED
          BY <1>2, <1>6, <3>3, <4>2 DEF Done
      <3>4. k \in 3..(n - 1) \/ k = n \/ k = n + 1
        OBVIOUS
      <3> QED
        BY <3>1, <3>2, <3>3, <3>4
    <2>9. stack'[2].node = stack[2].node
      BY <1>5, <1>10
    <2> QED
      BY <1>4, <1>7, <1>10, <2>4, <2>5, <2>6, <2>7, <2>8, <2>9 DEF CondInv, BodyInv
  <1> QED
    BY <1>1, <1>8, <1>9, <1>10

LEMMA CondBeginFuncDef ==
    ASSUME NEW start, TypeInv, CondInv(start), phase = "generate", BeginFuncDef
    PROVE  CondInv(start)'
  <1> DEFINE lines == Prefixed(Part.coord, Beginning(Part))
  <1>1. /\ HasPart /\ Part.kind = "func" /\ Push(Frame(Part, lines))
        /\ belief' = Forget(BeliefBehind(Part.coord, Beginning(Part)))
    BY DEF BeginFuncDef
  <1>2. Len(stack) = 1 /\ Part \in Nodes /\ Frame(Part, lines) \in Frames
    BY <1>1, PartFrames
  <1>3. /\ Len(stack') = 2 /\ stack'[1].text = stack[1].text
        /\ stack'[2] = Frame(Part, lines)
    BY <1>1, <1>2, Pushed DEF TypeInv, StackType
  <1>4. /\ Len(lines) \in Nat /\ Len(lines) >= 1
        /\ \A i \in 1..Len(lines) : ~Marked(lines[i])
    <2>1. Beginning(Part) = <<Line(Part)>> /\ ~Marked(Line(Part))
      BY <1>1 DEF Beginning, Marked, Line
    <2>2. CASE NeedsDirective(Part.coord)
      <3>1. lines = <<Directive(Part.coord)>> \o <<Line(Part)>>
        BY <2>1, <2>2 DEF Prefixed
      <3>2. Len(lines) = 2 /\ lines[1] = Directive(Part.coord) /\ lines[2] = Line(Part)
        BY <3>1
      <3> HIDE DEF lines
      <3>3. \A i \in 1..2 : i = 1 \/ i = 2
        OBVIOUS
      <3> QED
        BY <2>1, <3>2, <3>3, Unmarked
    <2>3. CASE ~NeedsDirective(Part.coord)
      <3>1. lines = <<Line(Part)>>
        BY <2>1, <2>3 DEF Prefixed
      <3>2. Len(lines) = 1 /\ \A i \in 1..Len(lines) : lines[i] = Line(Part)
        BY <3>1
      <3> QED
        BY <2>1, <3>2
    <2> QED
      BY <2>2, <2>3
  <1>5. /\ stack'[2].node = Part /\ stack'[2].text = lines /\ belief'.line = 0
    BY <1>1, <1>3 DEF Frame, Forget, Coord
  <1> HIDE DEF lines
  <1>6. /\ \A i \in 2..Len(lines) : i \in 1..Len(lines)
        /\ 1 \in 1..Len(lines) /\ \A i \in 1..Len(lines) : \A j \in 1..i : j \in 1..Len(lines)
    BY <1>4
  <1>7. Written(2)'
    BY <1>4, <1>5, <1>6 DEF Written, CondsRight, FirstRight, HeadsFirst
  <1>8. BodyInv(start)'
    <2>1. \A k \in 2..2 : k = 2
      OBVIOUS
    <2>2. \A k \in 3..2 : FALSE
      OBVIOUS
    <2> QED
      BY <1>3, <1>5, <1>7, <2>1, <2>2 DEF BodyInv
  <1>9. CondsRight(stack'[1].text, 1) /\ HeadsRight(stack'[1].text)
    BY <1>3 DEF CondInv
  <1> QED
    BY <1>1, <1>3, <1>5, <1>8, <1>9 DEF CondInv

LEMMA CondEndFuncDef ==
    ASSUME NEW start, TypeInv, CondInv(start), phase = "generate", EndFuncDef
    PROVE  CondInv(start)'
  <1>1. /\ Len(stack) = 2 /\ Top = stack[2] /\ Top.node.kind = "func" /\ Top.text \in Texts
        /\ Pop(Top.text)
    BY TopType DEF EndFuncDef, Top
  <1>2. /\ Len(stack') = 1 /\ stack'[1].text = stack[1].text \o Top.text
    <2>1. Len(stack) - 1 = 1 /\ Len(stack) >= 2 /\ stack \in Seq(Frames)
      BY <1>1 DEF TypeInv, StackType
    <2>2. /\ Len(stack') = Len(stack) - 1
          /\ stack'[Len(stack) - 1].text = stack[Len(stack) - 1].text \o Top.text
      BY <1>1, <2>1, Popped
    <2> QED
      BY <2>1, <2>2
  <1>3. PICK o \in Nat : Carries(stack'[1].text, stack[1].text, Top.text, NoCoord, o)
    <2>1. /\ stack'[1].text = stack[1].text \o Prefixed(NoCoord, Top.text)
          /\ stack[1].text \in Texts
      <3>1. 1 \in 1..Len(stack) /\ Prefixed(NoCoord, Top.text) = Top.text
        BY <1>1, PrefixedNone
      <3> QED
        BY <1>2, <3>1, Places
    <2> QED
      BY <1>1, <2>1, Carried, CoordTypes DEF TypeInv
  <1>4. CondsRight(stack[1].text, 1) /\ HeadsRight(stack[1].text) /\ Written(2)
    BY <1>1 DEF CondInv, BodyInv
  <1>5. /\ CondsRight(Top.text, 2) /\ FirstRight(Top.text, 2)
        /\ HeadsFirst(Top.text) /\ ~Marked(Top.text[1])
    <2>1. Bare(2 - 1)
      BY DEF Bare
    <2> QED
      BY <1>1, <1>4, <2>1 DEF Written
  <1>6. CondsRight(stack'[1].text, 1) /\ HeadsRight(stack'[1].text)
    BY <1>3, <1>4, <1>5, FileOn
  <1> QED
    BY <1>2, <1>6 DEF CondInv

\* When a statement that is in others ends.
LEMMA CondEndInside ==
    ASSUME NEW start \in [Stmts -> Nat], InOrder(start), TypeInv, BodyInv(start), EndStmt,
           stack[2].node.kind = "func", Len(stack) >= 3
    PROVE  BodyInv(start)'
  <1> DEFINE t == Top.text
             c == Top.node.coord
             first == start[Top.node]
  <1>1. PICK n \in Nat : Len(stack) = n + 1 /\ n >= 2
    <2>1. Len(stack) \in Nat
      BY TopType
    <2>2. Len(stack) - 1 \in Nat /\ Len(stack) = (Len(stack) - 1) + 1 /\ Len(stack) - 1 >= 2
      BY <2>1
    <2> QED
      BY <2>2
  <1>2. /\ Top = stack[n + 1] /\ t \in Texts /\ c \in Coords /\ belief \in Positions
        /\ Top.node \in Stmts /\ Top.node \in Nodes
        /\ ~HasPart /\ Pop(Prefixed(c, t)) /\ belief' = BeliefBehind(c, t) /\ ast' = ast
        /\ stack[n].text \in Texts
    <2>1. n + 1 \in 1..Len(stack) /\ n \in 1..Len(stack) /\ n + 1 > 2
      BY <1>1
    <2>2. Top = stack[n + 1] /\ Top.node \in Stmts /\ stack[n].text \in Texts
      BY <1>1, <2>1, Places DEF Top
    <2> QED
      BY <2>2, TopType DEF EndStmt, Generating, TypeInv
  <1>3. /\ Len(stack') = n /\ \A k \in 1..(n - 1) : stack'[k] = stack[k]
        /\ stack'[n].node = stack[n].node /\ stack'[n].next = stack[n].next
        /\ stack'[n].text = stack[n].text \o Prefixed(c, t)
    <2>1. /\ Len(stack) - 1 = n /\ Len(stack) >= 2 /\ stack \in Seq(Frames)
          /\ Prefixed(c, t) \in Texts
      BY <1>1, <1>2, PrefixType DEF TypeInv, StackType
    <2>2. /\ Len(stack') = Len(stack) - 1
          /\ \A k \in 1..(Len(stack) - 1 - 1) : stack'[k] = stack[k]
          /\ stack'[Len(stack) - 1].node = stack[Len(stack) - 1].node
          /\ stack'[Len(stack) - 1].next = stack[Len(stack) - 1].next
          /\ stack'[Len(stack) - 1].text = stack[Len(stack) - 1].text \o Prefixed(c, t)
      BY <1>2, <2>1, Popped
    <2> QED
      BY <2>1, <2>2
  <1>4. PICK o \in Nat : Carries(stack'[n].text, stack[n].text, t, c, o)
    BY <1>2, <1>3, Carried
  <1>5. /\ Written(n + 1) /\ Ahead(start, n + 1) /\ Ordered(start, n + 1) /\ Done(start, n + 1)
        /\ Bare(n + 1) => belief.line = 0
        /\ \A k \in 2..n : Written(k)
        /\ \A k \in 3..n : Ahead(start, k) /\ Ordered(start, k) /\ Done(start, k)
    <2>1. n + 1 \in 2..Len(stack) /\ n + 1 \in 3..Len(stack)
      BY <1>1
    <2>2. /\ \A k \in 2..n : k \in 2..Len(stack)
          /\ \A k \in 3..n : k \in 3..Len(stack)
      BY <1>1
    <2> QED
      BY <1>1, <2>1, <2>2 DEF BodyInv
  <1>6. /\ Len(t) \in Nat /\ Len(t) >= 1 /\ t[1].role = Top.node.kind /\ t[1].coord = c
        /\ Marked(t[1]) <=> c # NoCoord
        /\ CondsRight(t, 2) /\ Headless(t)
        /\ Bare(n) => FirstRight(t, 2)
    <2>1. n + 1 # 2 /\ n + 1 - 1 = n
      BY <1>1
    <2>2. /\ Len(t) >= 1 /\ t[1].role = Top.node.kind /\ t[1].coord = c
          /\ CondsRight(t, 2) /\ Headless(t)
          /\ Bare(n) => FirstRight(t, 2)
      BY <1>2, <1>5, <2>1 DEF Written
    <2>3. Top.node.kind \in {"simple", "block", "if", "loop"} /\ Len(t) \in Nat
      BY <1>2, NodeKinds DEF Texts
    <2> QED
      BY <2>2, <2>3 DEF Marked
  <1>7. /\ first \in Nat
        /\ c # NoCoord => first = c.line /\ first # 0
        /\ belief.line \in Nat /\ belief'.line \in Nat
        /\ Marks(t, 2) => first # 0 /\ belief.line > first
        /\ \A j \in 3..n : first # 0 => start[stack[j].node] \in 1..first
    <2>1. first \in Nat /\ (c # NoCoord => first = c.line /\ first # 0)
      BY <1>2, Starts DEF TypeInv
    <2>2. belief.line \in Nat /\ belief'.line \in Nat
      BY <1>2, PrefixType DEF Positions
    <2>3. n + 1 - 1 = n
      OBVIOUS
    <2> QED
      BY <1>2, <1>5, <2>1, <2>2, <2>3 DEF Ahead, Ordered
  <1>8. ASSUME NEW i \in DOMAIN Parts(ast, Top.node), Begins(start, Parts(ast, Top.node)[i])
        PROVE  Marks(t, 2)
    <2>1. /\ ~(n + 1 < Len(stack)) /\ Done(start, n + 1) /\ Top.next \in Nat \ {0}
          /\ Top.next \notin DOMAIN Parts(ast, Top.node)
      BY <1>1, <1>2, <1>5, TopType DEF HasPart
    <2>2. PICK m \in Nat : DOMAIN Parts(ast, Top.node) = 1..m
      <3>1. Parts(ast, Top.node) \in Seq(Within(Top.node))
        BY <1>2, PartsType DEF TypeInv
      <3> QED
        BY <3>1
    <2>3. ~(i >= Top.next)
      <3>1. Top.next = 1 \/ Top.next - 1 \in 1..m
        BY <1>2, <2>1, <2>2 DEF Done
      <3> QED
        BY <2>1, <2>2, <3>1
    <2> QED
      BY <1>2, <1>8, <2>1, <2>3 DEF Done
  <1>9. \/ c # NoCoord /\ Top.node.kind \in {"if", "loop"}
        \/ c = NoCoord /\ first # 0
        => Marks(t, 2)
    <2>1. \/ c # NoCoord /\ Top.node.kind \in {"if", "loop"}
          \/ c = NoCoord /\ first # 0
          => \E i \in DOMAIN Parts(ast, Top.node) : Begins(start, Parts(ast, Top.node)[i])
      BY <1>2, Starts DEF TypeInv
    <2> QED
      BY <1>8, <2>1
  <1>10. c # NoCoord /\ (Marks(t, 2) \/ belief.line = 0) => NeedsDirective(c)
    <2>1. c # NoCoord /\ (Marks(t, 2) \/ belief.line = 0) => belief.line # c.line
      BY <1>7
    <2> QED
      BY <2>1 DEF NeedsDirective
  <1>11. Bare(n + 1) <=> Bare(n) /\ ~Marks(t, 2)
    <2>1. \A j \in 2..(n + 1) : j \in 2..n \/ j = n + 1
      OBVIOUS
    <2>2. n + 1 \in 2..(n + 1) /\ \A j \in 2..n : j \in 2..(n + 1)
      BY <1>1
    <2> QED
      BY <1>2, <2>1, <2>2 DEF Bare
  <1>12. /\ c # NoCoord => belief'.line > first
         /\ c = NoCoord => /\ belief'.line >= belief.line
                           /\ belief.line = 0 => belief'.line = 0
    <2>1. CASE c = NoCoord
      <3>1. belief' = Advance(belief, t)
        BY <1>2, <2>1 DEF BeliefBehind, NeedsDirective
      <3>2. belief'.line = IF belief.line = 0 THEN belief.line ELSE belief.line + Len(t)
        BY <3>1 DEF Advance, Coord
      <3> QED
        BY <1>6, <1>7, <2>1, <3>2
    <2>2. CASE c # NoCoord
      <3>1. belief' = Advance(c, t)
        BY <1>2, <2>2 DEF BeliefBehind, NeedsDirective
      <3>2. belief'.line = c.line + Len(t) /\ c.line = first
        BY <1>7, <2>2, <3>1 DEF Advance, Coord
      <3> QED
        BY <1>6, <1>7, <2>2, <3>2
    <2> QED
      BY <2>1, <2>2
  <1> HIDE DEF t, c, first
  <1>13. \A k \in 2..n : Written(k)'
    <2>1. n \in Nat /\ 2 <= n /\ n <= Len(stack)
      BY <1>1
    <2>2. Marked(t[1]) /\ t[1].role \in {"if", "loop"} => t[1].coord = c /\ NeedsDirective(c)
      BY <1>6, <1>9, <1>10
    <2>3. Bare(n) => IF Marked(t[1]) THEN t[1].coord = c /\ NeedsDirective(c)
                     ELSE FirstRight(t, 2)
      BY <1>5, <1>6, <1>10, <1>11
    <2> QED
      BY <1>3, <1>4, <1>5, <1>6, <2>1, <2>2, <2>3, WrittenOn
  <1>14. Marks(stack'[n].text, 2) <=> Marks(stack[n].text, 2) \/ Marks(t, 2) \/ c # NoCoord
    <2>1. Len(stack[n].text) >= 2 - 1 /\ 2 \in {1, 2}
      <3>1. Written(n)
        BY <1>1, <1>5
      <3> QED
        BY <3>1 DEF Written
    <2>2. Marks(stack'[n].text, 2) <=> Marks(stack[n].text, 2) \/ Marks(t, 2) \/ Marked(t[1])
      BY <1>4, <1>6, <2>1, MarksJoined
    <2> QED
      BY <1>6, <2>2
  <1>15. \A k \in 2..n : k = n \/ (k \in 1..(n - 1) /\ stack'[k] = stack[k])
    BY <1>3
  <1>16. \A k \in 2..n : stack'[k].node = stack[k].node
    BY <1>3, <1>15
  <1>17. Bare(n)' => belief'.line = 0
    <2>1. ASSUME Bare(n)' PROVE Bare(n) /\ ~Marks(t, 2) /\ c = NoCoord
      <3>1. ~Marks(stack'[n].text, 2)
        BY <1>1, <2>1 DEF Bare
      <3>2. \A k \in 2..n : ~Marks(stack[k].text, 2)
        BY <1>14, <1>15, <2>1, <3>1 DEF Bare
      <3> QED
        BY <1>14, <3>1, <3>2 DEF Bare
    <2> QED
      BY <1>5, <1>11, <1>12, <2>1
  <1>18. ASSUME NEW k \in 3..n PROVE Ahead(start, k)'
    <2> DEFINE line == start[stack[k].node]
    <2>1. /\ k \in 2..n /\ stack'[k].node = stack[k].node /\ Ahead(start, k)
          /\ first # 0 => line \in 1..first
      BY <1>5, <1>7, <1>16
    <2>2. CASE c # NoCoord
      <3>1. line \in 1..first /\ belief'.line > first
        BY <1>7, <1>12, <2>1, <2>2
      <3>2. line # 0 /\ belief'.line > line
        BY <1>7, <3>1
      <3> QED
        BY <2>1, <3>2 DEF Ahead
    <2>3. CASE c = NoCoord
      <3>1. ASSUME Marks(stack'[k].text, 2) PROVE line # 0 /\ belief.line > line
        <4>1. CASE Marks(stack[k].text, 2)
          BY <2>1, <4>1 DEF Ahead
        <4>2. CASE Marks(t, 2)
          BY <1>7, <2>1, <4>2
        <4> QED
          BY <1>14, <1>15, <2>1, <2>3, <3>1, <4>1, <4>2
      <3>2. line \in Nat /\ belief'.line >= belief.line
        <4>1. stack[k].node \in Stmts
          <5>1. k \in 1..Len(stack) /\ k > 2
            BY <1>1
          <5> QED
            BY <5>1, Places
        <4> QED
          BY <1>12, <2>3, <4>1
      <3>3. ASSUME Marks(stack'[k].text, 2) PROVE line # 0 /\ belief'.line > line
        BY <1>7, <3>1, <3>2, <3>3
      <3> QED
        BY <2>1, <3>3 DEF Ahead
    <2> QED
      BY <2>2, <2>3
  <1>19. ASSUME NEW k \in 3..n PROVE Ordered(start, k)'
    <2>1. Ordered(start, k) /\ k \in 2..n /\ \A j \in 3..(k - 1) : j \in 2..n
      BY <1>5
    <2> QED
      BY <1>16, <2>1 DEF Ordered
  <1>20. ASSUME NEW k \in 3..n PROVE Done(start, k)'
    <2>1. /\ Done(start, k) /\ k < Len(stack) /\ stack'[k].node = stack[k].node
          /\ stack'[k].next = stack[k].next
      BY <1>1, <1>3, <1>5, <1>15
    <2>2. CASE k # n
      <3>1. stack'[k] = stack[k] /\ k < n
        BY <1>15, <2>2
      <3> QED
        BY <1>2, <1>3, <2>1, <3>1 DEF Done
    <2>3. CASE k = n
      <3> DEFINE parts == Parts(ast, stack[n].node)
                 next == stack[n].next
      <3>1. parts[next - 1] = Top.node
        <4>1. Linked(n + 1) /\ n + 1 - 1 = n
          BY <1>1 DEF TypeInv, StackType
        <4> QED
          BY <1>2, <4>1 DEF Linked
      <3>2. Begins(start, parts[next - 1]) => Marks(stack'[n].text, 2)
        BY <1>9, <1>14, <3>1 DEF Begins, first
      <3>3. Marks(stack[n].text, 2) => Marks(stack'[n].text, 2)
        BY <1>14
      <3> HIDE DEF parts, next
      <3>4. /\ next = 1 \/ next - 1 \in DOMAIN parts
            /\ \A i \in DOMAIN parts :
                 \/ ~Begins(start, parts[i]) \/ i >= next \/ i = next - 1
                 \/ Marks(stack[n].text, 2)
        BY <2>1, <2>3 DEF Done, parts, next
      <3>5. \A i \in DOMAIN parts :
                 \/ ~Begins(start, parts[i]) \/ i >= next \/ Marks(stack'[n].text, 2)
        BY <3>2, <3>3, <3>4
      <3> QED
        BY <1>2, <2>1, <2>3, <3>4, <3>5 DEF Done, parts, next
    <2> QED
      BY <2>2, <2>3
  <1> QED
    BY <1>3, <1>13, <1>17, <1>18, <1>19, <1>20 DEF BodyInv

LEMMA CondEndStmt ==
    ASSUME NEW start \in [Stmts -> Nat], InOrder(start), TypeInv, CondInv(start),
           phase = "generate", EndStmt
    PROVE  CondInv(start)'
  <1> DEFINE t == Top.text
             c == Top.node.coord
  <1>1. PICK n \in Nat \ {0} : Len(stack) = n + 1
    <2>1. PICK l \in Nat : l = Len(stack) /\ l >= 2
      BY TopType DEF EndStmt
    <2>2. l - 1 \in Nat \ {0} /\ l = (l - 1) + 1
      BY <2>1
    <2> QED
      BY <2>1, <2>2
  <1>2. /\ Top = stack[n + 1] /\ Top.node.kind # "func" /\ t \in Texts /\ c \in Coords
        /\ belief \in Positions /\ Pop(Prefixed(c, t)) /\ phase' = phase
        /\ stack[n].text \in Texts
    <2>1. n \in 1..Len(stack)
      BY <1>1
    <2> QED
      BY <1>1, <2>1, Places, TopType DEF EndStmt, Generating, TypeInv, Top
  <1>3. /\ Len(stack') = n /\ \A k \in 1..(n - 1) : stack'[k] = stack[k]
        /\ stack'[n].node = stack[n].node
        /\ stack'[n].text = stack[n].text \o Prefixed(c, t)
    <2>1. /\ Len(stack) - 1 = n /\ Len(stack) >= 2 /\ stack \in Seq(Frames)
          /\ Prefixed(c, t) \in Texts
      BY <1>1, <1>2, PrefixType DEF TypeInv, StackType
    <2>2. /\ Len(stack') = Len(stack) - 1
          /\ \A k \in 1..(Len(stack) - 1 - 1) : stack'[k] = stack[k]
          /\ stack'[Len(stack) - 1].node = stack[Len(stack) - 1].node
          /\ stack'[Len(stack) - 1].text = stack[Len(stack) - 1].text \o Prefixed(c, t)
      BY <1>2, <2>1, Popped
    <2> QED
      BY <2>1, <2>2
  <1>4. CondsRight(stack[1].text, 1) /\ HeadsRight(stack[1].text) /\ Len(stack) >= 2
    BY <1>1 DEF CondInv
  <1>5. PICK o \in Nat : Carries(stack'[n].text, stack[n].text, t, c, o)
    BY <1>2, <1>3, Carried
  <1>6. CASE stack[2].node.kind = "func"
    <2>1. n >= 2
      BY <1>1, <1>2, <1>6
    <2>2. Len(stack) >= 3
      BY <1>1, <2>1
    <2>3. BodyInv(start)
      BY <1>4, <1>6 DEF CondInv
    <2>4. BodyInv(start)'
      BY <1>6, <2>2, <2>3, CondEndInside
    <2>5. stack'[1] = stack[1] /\ stack'[2].node = stack[2].node
      BY <1>3, <2>1
    <2> QED
      BY <1>4, <1>6, <2>4, <2>5 DEF CondInv
  <1>7. CASE stack[2].node.kind # "func"
    <2>1. \A k \in 2..(n + 1) : Plain(stack[k].text)
      BY <1>1, <1>4, <1>7 DEF CondInv
    <2>2. Plain(t)
      <3>1. n + 1 \in 2..(n + 1)
        BY <1>1
      <3> QED
        BY <1>2, <2>1, <3>1
    <2> HIDE DEF t, c
    <2>3. CASE n = 1
      <3>1. /\ CondsRight(t, 2) /\ FirstRight(t, 2) /\ HeadsFirst(t)
            /\ 1 \in 1..Len(t) => ~Marked(t[1])
        <4>1. Len(t) \in Nat /\ \A i \in 1..Len(t) : ~Marked(t[i]) /\ t[i].role # "func"
          BY <1>5, <2>2 DEF Plain, Headless, Marks, Carries
        <4>2. \A i \in 2..Len(t) : i \in 1..Len(t)
          BY <4>1
        <4> QED
          BY <4>1, <4>2 DEF CondsRight, FirstRight, HeadsFirst
      <3>2. CondsRight(stack'[1].text, 1) /\ HeadsRight(stack'[1].text)
        BY <1>4, <1>5, <2>3, <3>1, FileOn
      <3> QED
        BY <1>3, <2>3, <3>2 DEF CondInv
    <2>4. CASE n >= 2
      <3>1. /\ n \in Nat /\ 2 <= n /\ n <= Len(stack)
            /\ \A k \in 2..n : Plain(stack[k].text)
        <4>1. \A k \in 2..n : k \in 2..(n + 1)
          OBVIOUS
        <4> QED
          BY <1>1, <2>1, <2>4, <4>1
      <3>2. \A k \in 2..n : Plain(stack'[k].text)
        BY <1>3, <1>5, <2>2, <3>1, PlainOn
      <3>3. stack'[1] = stack[1] /\ stack'[2].node = stack[2].node
        BY <1>3, <2>4
      <3> QED
        BY <1>3, <1>4, <1>7, <3>2, <3>3 DEF CondInv
    <2> QED
      BY <1>1, <2>3, <2>4
  <1> QED
    BY <1>6, <1>7

LEMMA CondStarts ==
    ASSUME NEW start, TypeInv, phase = "declare", UNCHANGED <<stack, belief>>
    PROVE  CondInv(start)'
  <1>1. stack' = <<Frame(File, <<>>)>>
    BY DEF TypeInv, Phases
  <1>2. Len(stack') = 1 /\ stack'[1].text = <<>>
    BY <1>1 DEF Frame
  <1>3. \A i \in 1..Len(stack'[1].text) : FALSE
    BY <1>2
  <1>4. CondsRight(stack'[1].text, 1) /\ HeadsRight(stack'[1].text)
    BY <1>3 DEF CondsRight, HeadsRight
  <1> QED
    BY <1>2, <1>4 DEF CondInv

LEMMA CondStep ==
    ASSUME NEW start \in [Stmts -> Nat], InOrder(start)
    PROVE  TypeInv /\ CondInv(start) /\ [Next]_vars => CondInv(start)'
  <1> SUFFICES ASSUME TypeInv, CondInv(start), [Next]_vars PROVE CondInv(start)'
    OBVIOUS
  <1>1. CASE \/ Tweak("fix_inline", "fix_struct_def", FixInline(ast))
             \/ Tweak("fix_struct_def", "reach_error", FixStructDef(ast))
             \/ Tweak("reach_error", "declare", ReachError(ast))
    BY <1>1 DEF Tweak, CondInv
  <1>2. CASE Tweak("declare", "generate", DeclareScheduleFunctions(ast))
    BY <1>2, CondStarts DEF Tweak
  <1>3. CASE WriteLayout \/ BeginStmt \/ EndStmt
    <2>1. phase = "generate"
      BY <1>3 DEF WriteLayout, BeginStmt, EndStmt, Generating
    <2> QED
      BY <1>3, <2>1, CondWriteLayout, CondBeginStmt, CondEndStmt
  <1>4. CASE BeginFuncDef \/ EndFuncDef
    <2>1. phase = "generate"
      BY <1>4 DEF BeginFuncDef, EndFuncDef, Generating
    <2> QED
      BY <1>4, <2>1, CondBeginFuncDef, CondEndFuncDef
  <1>5. CASE EndFileAST \/ UNCHANGED vars
    BY <1>5 DEF EndFileAST, Generating, vars, CondInv, BodyInv, Bare, Written, Ahead, Ordered, Done
  <1> QED
    BY <1>1, <1>2, <1>3, <1>4, <1>5 DEF Next

\* Conditions and loops are reported at their own lines, and so is what every
\* function begins with, in programs that are written from the front to the
\* back, whatever is inserted into them and however they are nested.
THEOREM ConditionsDoSurvive ==
    ASSUME NEW start \in [Stmts -> Nat], InOrder(start)
    PROVE  Spec => []ConditionsSurvive
  <1>1. Init => CondInv(start)
    BY DEF Init, CondInv
  <1>2. TypeInv /\ CondInv(start) => ConditionsSurvive
    <2> SUFFICES ASSUME TypeInv, CondInv(start) PROVE ConditionsSurvive
      OBVIOUS
    <2>1. CASE phase # "compile"
      <3>1. text = <<>>
        BY <2>1 DEF TypeInv, Phases
      <3>2. DOMAIN text = {}
        BY <3>1
      <3> QED
        BY <3>2 DEF ConditionsSurvive, Statements
    <2>2. CASE phase = "compile"
      <3>1. /\ text \in Texts /\ DOMAIN text = 1..Len(text) /\ Len(text) \in Nat
            /\ CondsRight(text, 1) /\ HeadsRight(text)
        BY <2>2 DEF TypeInv, CondInv, Texts
      <3>2. ASSUME NEW i \in 1..Len(text), RightAt(text, i) PROVE Right(i)
        BY <3>1, <3>2, RightIsSeen DEF Right
      <3>3. ASSUME NEW i \in Statements, text[i].role \in {"if", "loop"} PROVE Right(i)
        <4>1. i \in 1..Len(text) /\ Marked(text[i])
          BY <3>1, <3>3 DEF Statements, Marked
        <4>2. RightAt(text, i)
          BY <3>1, <3>3, <4>1 DEF CondsRight
        <4> QED
          BY <3>2, <4>1, <4>2
      <3>4. ASSUME NEW i \in DOMAIN text, text[i].role = "func", NEW j \in FirstBehind(i)
            PROVE  Right(j)
        <4> DEFINE behind == {l \in DOMAIN text : l > i /\ text[l].coord # NoCoord
                                /\ text[l].role \in {"simple", "if", "loop", "block"}}
        <4>1. behind # {} /\ j = Min(behind) /\ behind \subseteq Nat
          BY <3>1, <3>4 DEF FirstBehind
        <4> HIDE DEF behind
        <4>2. j \in behind /\ \A l \in behind : j <= l
          BY <4>1, NatMin
        <4>3. i \in 1..Len(text) /\ j \in 1..Len(text) /\ i < j /\ Marked(text[j])
          BY <3>1, <4>2 DEF behind, Marked
        <4>4. ASSUME NEW m \in (i + 1)..(j - 1), Marked(text[m]) PROVE FALSE
          <5>1. m \in DOMAIN text /\ m > i /\ ~(j <= m)
            BY <3>1, <4>3
          <5>2. m \in behind
            BY <4>4, <5>1 DEF behind, Marked
          <5> QED
            BY <4>2, <5>1, <5>2
        <4>5. RightAt(text, j)
          BY <3>1, <3>4, <4>3, <4>4 DEF HeadsRight
        <4> QED
          BY <3>2, <4>3, <4>5
      <3> QED
        BY <3>3, <3>4 DEF ConditionsSurvive
    <2> QED
      BY <2>1, <2>2
  <1> QED
    BY <1>1, <1>2, CondStep, TypesAreRight, PTL DEF Spec

=============================================================================
