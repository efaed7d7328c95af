------------------------- MODULE WitnessParserProofs -------------------------
(***************************************************************************)
(* Theorems about WitnessParser, for every set of witnesses and every      *)
(* program.                                                                *)
(*                                                                         *)
(* A line is right because of what the loop keeps true while it reads      *)
(* (Reading): the position is the end of the line read last, and the line  *)
(* before ended at or before the offset that is looked for.                *)
(*                                                                         *)
(* The walk along an automaton ends with every edge of the path taken      *)
(* because the nodes it has come by are closed, and with no edge taken     *)
(* twice because a walk that comes back repeats itself (Repeats) and then  *)
(* has no end.                                                             *)
(***************************************************************************)
EXTENDS WitnessParser, TLAPS, FiniteSetTheorems

Formats ==
    /\ phase = "walk" => doc.format = "graphml"
    /\ phase = "segments" => doc.format = "yaml"

Reading ==
    phase = "lines" =>
        /\ StartOffset(here.location) \in Nat
        /\ pos = Ends[IF line <= Lines THEN line ELSE Lines]
        /\ line > 0 => Ends[line - 1] <= StartOffset(here.location)

IInv == TypeOK /\ Formats /\ Reading /\ LineRight

USE LinesAssumption, NodesAssumption

\* Every line begins somewhere, even one behind the last.
LEMMA OffsetType == \A n \in Nat : OffsetOfLine(n) \in Nat
  BY DEF OffsetOfLine

LEMMA StartType ==
  ASSUME NEW loc \in Location PROVE StartOffset(loc) \in Nat \union {Absent}
  BY OffsetType DEF StartOffset, Location, Truthy, Absent

LEMMA NoAttributesType == NoLocation \in Location /\ NoAttributes \in Attributes
  BY DEF NoLocation, NoAttributes, Attributes, Location, Absent

\* What the documents are made of.
LEMMA DocumentType ==
  ASSUME doc \in Documents
  PROVE  /\ doc.format = "graphml" => doc \in Graph
         /\ doc.format = "yaml" => doc \in Sequence
         /\ doc.format \in {"graphml", "yaml"}
  BY DocumentsAssumption DEF Graph, Sequence

\* The offset that a line starts at is in that line.
LEMMA OffsetInLine ==
  ASSUME NEW l \in 1..Lines, NEW n \in Nat, n >= 1,
         Ends[l - 1] <= OffsetOfLine(n), OffsetOfLine(n) < Ends[l]
  PROVE  l = n
<1>1. CASE n - 1 > Lines
  <2>1. OffsetOfLine(n) = Ends[Lines]
    BY <1>1 DEF OffsetOfLine
  <2>2. l = Lines \/ Ends[l] < Ends[Lines]
    OBVIOUS
  <2> QED BY <2>1, <2>2
<1>2. CASE n - 1 <= Lines
  <2>1. OffsetOfLine(n) = Ends[n - 1] /\ n - 1 \in 0..Lines
    BY <1>2 DEF OffsetOfLine
  <2>2. n - 1 >= l => Ends[l] <= Ends[n - 1]
    BY <2>1
  <2>3. n - 1 < l - 1 => Ends[n - 1] < Ends[l - 1]
    BY <2>1
  <2>4. ~(n - 1 >= l)
    BY <2>1, <2>2
  <2>5. ~(n - 1 < l - 1)
    BY <2>1, <2>3
  <2> QED BY <2>4, <2>5
<1> QED BY <1>1, <1>2

LEMMA InitEstablishes == Init => IInv
<1> SUFFICES ASSUME Init PROVE IInv
  OBVIOUS
<1>1. node \in Nodes
  BY DEF Init
<1>2. steps = <<>> /\ steps \in Seq(ReadStep)
  <2>1. steps = <<>>
    BY DEF Init
  <2>2. <<>> \in Seq(ReadStep)
    OBVIOUS
  <2> QED BY <2>1, <2>2
<1>3. TypeOK
  <2>1. doc \in Documents /\ verdict \in Verdicts /\ phase = "open"
    BY DEF Init, Verdicts
  <2>2. cursor \in (Nat \ {0}) \X (Nat \ {0}) /\ origin \in Origins /\ here \in Attributes
    <3>1. cursor = <<1, 1>> /\ origin = <<>> /\ here = NoAttributes
      BY DEF Init
    <3>2. <<1, 1>> \in (Nat \ {0}) \X (Nat \ {0})
      OBVIOUS
    <3>3. <<>> \in Origins
      BY DEF Origins
    <3> QED BY <3>1, <3>2, <3>3, NoAttributesType
  <2>3. pos \in Nat /\ line \in 0..(Lines + 1)
    <3>1. pos = 0 /\ line = 0
      BY DEF Init
    <3>2. 0 \in 0..(Lines + 1)
      OBVIOUS
    <3> QED BY <3>1, <3>2
  <2> QED BY <1>1, <1>2, <2>1, <2>2, <2>3 DEF TypeOK
<1>4. Formats /\ Reading
  BY DEF Init, Formats, Reading
<1>5. LineRight
  BY <1>2 DEF LineRight
<1> QED BY <1>3, <1>4, <1>5 DEF IInv

\* A step that is not part of the loop and makes none keeps the lines right.
LEMMA LinesKept ==
  ASSUME LineRight, UNCHANGED steps PROVE LineRight'
  BY DEF LineRight

\* A new step is a step, and the others are as before.
LEMMA StepAdded ==
  ASSUME TypeOK, LineRight, NEW n \in 0..Lines, AddStep(n),
         n # 0 =>
           /\ Ends[n - 1] <= StartOffset(here.location)
           /\ StartOffset(here.location) < Ends[n]
           /\ ~Truthy(here.location.startoffset) /\ Truthy(here.location.startline) =>
                n = here.location.startline
  PROVE  LineRight' /\ steps' \in Seq(ReadStep)
<1> DEFINE step == [origin |-> origin, line |-> n, attributes |-> here]
<1>1. step \in ReadStep
  BY DEF TypeOK, ReadStep
<1>2. steps' = Append(steps, step)
  BY DEF AddStep
<1>3. steps \in Seq(ReadStep)
  BY DEF TypeOK
<1> HIDE DEF step
<1>4. /\ steps' \in Seq(ReadStep)
      /\ DOMAIN steps' = 1..(Len(steps) + 1)
      /\ \A i \in 1..Len(steps) : steps'[i] = steps[i]
      /\ steps'[Len(steps) + 1] = step
  BY <1>1, <1>2, <1>3
<1>5. step.line = n /\ step.attributes = here
  BY DEF step
<1>6. ASSUME NEW i \in DOMAIN steps'
      PROVE  LET loc == steps'[i].attributes.location
             IN  steps'[i].line # 0 =>
                   /\ Ends[steps'[i].line - 1] <= StartOffset(loc)
                   /\ StartOffset(loc) < Ends[steps'[i].line]
                   /\ ~Truthy(loc.startoffset) /\ Truthy(loc.startline) =>
                        steps'[i].line = loc.startline
  <2>1. CASE i \in 1..Len(steps)
    <3>1. i \in DOMAIN steps
      BY <1>3, <2>1
    <3>2. steps'[i] = steps[i]
      BY <1>4, <2>1
    <3> QED BY <3>1, <3>2 DEF LineRight
  <2>2. CASE i = Len(steps) + 1
    BY <1>4, <1>5, <2>2
  <2>3. Len(steps) \in Nat
    BY <1>3
  <2> QED BY <1>4, <1>6, <2>1, <2>2, <2>3
<1>7. LineRight'
  BY <1>6 DEF LineRight
<1> QED BY <1>4, <1>7

\* Every step keeps the invariant.
LEMMA NextPreserves == IInv /\ [Next]_vars => IInv'
<1> SUFFICES ASSUME IInv, [Next]_vars PROVE IInv'
  OBVIOUS
<1> USE DEF IInv
<1>1. CASE OpenGraph
  <2>1. TypeOK'
    BY <1>1, DocumentType DEF OpenGraph, EntryNodes, TypeOK, Graph
  <2>2. Formats' /\ Reading' /\ LineRight'
    BY <1>1, LinesKept DEF OpenGraph, Formats, Reading
  <2> QED BY <2>1, <2>2
<1>2. CASE RefuseGraph
  <2>1. TypeOK'
    BY <1>2 DEF RefuseGraph, Reject, readerVars, Verdicts, TypeOK
  <2>2. Formats' /\ Reading' /\ LineRight'
    BY <1>2, LinesKept DEF RefuseGraph, Reject, readerVars, Formats, Reading
  <2> QED BY <2>1, <2>2
<1>3. CASE FollowEdge
  <2>1. PICK e \in Followed :
          /\ Look(<<e.from, e.to>>, IF Parallel THEN NoAttributes ELSE e.attributes)
          /\ node' = e.to
    BY <1>3 DEF FollowEdge
  <2>2. doc.format = "graphml"
    BY <1>3 DEF FollowEdge, Formats
  <2>3. e \in Edge
    BY <2>2, DocumentType DEF TypeOK, Graph, Followed, OutEdges
  <2>4. TypeOK'
    BY <1>3, <2>1, <2>3, NoAttributesType DEF FollowEdge, Look, TypeOK, Edge, Origins
  <2>5. Formats' /\ Reading' /\ LineRight'
    BY <2>1, LinesKept DEF Look, Formats, Reading
  <2> QED BY <2>4, <2>5
<1>4. CASE Branching \/ OnlySinks \/ NowhereToStart
  <2>1. TypeOK'
    BY <1>4 DEF Branching, OnlySinks, NowhereToStart, Raise, Reject, readerVars, Verdicts, TypeOK
  <2>2. Formats' /\ Reading' /\ LineRight'
    BY <1>4, LinesKept
    DEF Branching, OnlySinks, NowhereToStart, Raise, Reject, readerVars, Formats, Reading
  <2> QED BY <2>1, <2>2
<1>5. CASE PathEnds \/ SegmentsEnd \/ HandOver
  <2>1. TypeOK'
    BY <1>5 DEF PathEnds, SegmentsEnd, HandOver, Stop, Reject, readerVars, Verdicts, TypeOK
  <2>2. Formats' /\ Reading' /\ LineRight'
    BY <1>5, LinesKept
    DEF PathEnds, SegmentsEnd, HandOver, Stop, Reject, readerVars, Formats, Reading
  <2> QED BY <2>1, <2>2
<1>6. CASE OpenSequence
  <2>1. TypeOK'
    BY <1>6 DEF OpenSequence, TypeOK
  <2>2. Formats' /\ Reading' /\ LineRight'
    BY <1>6, LinesKept DEF OpenSequence, Formats, Reading
  <2> QED BY <2>1, <2>2
<1>7. CASE RefuseSequence
  <2>1. TypeOK'
    BY <1>7 DEF RefuseSequence, Reject, readerVars, Verdicts, TypeOK
  <2>2. Formats' /\ Reading' /\ LineRight'
    BY <1>7, LinesKept DEF RefuseSequence, Reject, readerVars, Formats, Reading
  <2> QED BY <2>1, <2>2
<1>8. CASE SkipWaypoint \/ NextSegment
  <2>1. cursor' \in (Nat \ {0}) \X (Nat \ {0})
    BY <1>8 DEF SkipWaypoint, NextSegment, NextWaypoint, TypeOK
  <2>2. TypeOK'
    BY <1>8, <2>1 DEF SkipWaypoint, NextSegment, TypeOK
  <2>3. Formats' /\ Reading' /\ LineRight'
    BY <1>8, LinesKept DEF SkipWaypoint, NextSegment, Formats, Reading
  <2> QED BY <2>2, <2>3
<1>9. CASE FollowWaypoint
  <2>1. ThisWaypoint \in Waypoint
    <3>1. doc \in Sequence
      BY <1>9, DocumentType DEF FollowWaypoint, Formats, TypeOK
    <3>2. cursor[1] \in 1..Len(doc.content) /\ cursor[2] \in 1..Len(doc.content[cursor[1]])
      BY <1>9 DEF FollowWaypoint, InSegment, TypeOK
    <3>3. doc.content \in Seq(Seq(Waypoint))
      BY <3>1 DEF Sequence
    <3>4. doc.content[cursor[1]] \in Seq(Waypoint)
      BY <3>2, <3>3
    <3> QED BY <3>2, <3>4 DEF ThisWaypoint
  <2> DEFINE said == ThisWaypoint.attributes
             found == [location |-> [NoLocation EXCEPT !.startline =
                                       IF Truthy(said.location.startline)
                                         THEN said.location.startline ELSE Absent],
                       thread |-> IF said.thread = Absent THEN 0 ELSE said.thread,
                       value |-> Constraint(ThisWaypoint)]
  <2>2. found \in Attributes
    <3>1. said \in Attributes
      BY <2>1 DEF Waypoint
    <3>2. found.location \in Location
      BY <3>1 DEF Attributes, Location, NoLocation, Absent
    <3>3. Constraint(ThisWaypoint) \in Values \union {NoValue}
      BY <3>1 DEF Constraint, Attributes
    <3> QED BY <3>1, <3>2, <3>3 DEF Attributes
  <2>3. Look(cursor, found) /\ UNCHANGED node
    BY <1>9 DEF FollowWaypoint, LocationOf
  <2>4. cursor' \in (Nat \ {0}) \X (Nat \ {0})
    BY <1>9 DEF FollowWaypoint, NextWaypoint, TypeOK
  <2> HIDE DEF found
  <2>5. TypeOK'
    BY <2>2, <2>3, <2>4 DEF Look, TypeOK, Origins
  <2>6. Formats' /\ Reading' /\ LineRight'
    BY <2>3, LinesKept DEF Look, Formats, Reading
  <2> QED BY <2>5, <2>6
<1>10. CASE NoCoordinates
  <2>1. LineRight' /\ steps' \in Seq(ReadStep)
    BY <1>10, StepAdded DEF NoCoordinates
  <2>2. TypeOK'
    BY <1>10, <2>1 DEF NoCoordinates, GoOn, readerVars, Verdicts, TypeOK
  <2>3. Formats' /\ Reading'
    BY <1>10, DocumentType DEF NoCoordinates, GoOn, readerVars, Formats, Reading, TypeOK
  <2> QED BY <2>1, <2>2, <2>3
<1>11. CASE OpenProgram
  <2>1. StartOffset(here.location) \in Nat
    BY <1>11, StartType DEF OpenProgram, TypeOK, Attributes
  <2>2. TypeOK'
    BY <1>11 DEF OpenProgram, readerVars, TypeOK
  <2>3. Formats' /\ Reading' /\ LineRight'
    BY <1>11, <2>1, LinesKept DEF OpenProgram, readerVars, Formats, Reading
  <2> QED BY <2>2, <2>3
<1>12. CASE ReadLine
  <2>1. TypeOK'
    BY <1>12 DEF ReadLine, readerVars, TypeOK
  <2>2. Reading'
    BY <1>12 DEF ReadLine, readerVars, MoreLines, Reading, TypeOK
  <2>3. Formats' /\ LineRight'
    BY <1>12, LinesKept DEF ReadLine, readerVars, Formats
  <2> QED BY <2>1, <2>2, <2>3
<1>13. CASE LineFound
  <2>1. CASE EndLine(here.location) = Absent
    <3>1. Raise /\ UNCHANGED doc
      BY <1>13, <2>1 DEF LineFound
    <3>2. TypeOK'
      BY <3>1 DEF Raise, Reject, readerVars, Verdicts, TypeOK
    <3>3. Formats' /\ Reading' /\ LineRight'
      BY <3>1, LinesKept DEF Raise, Reject, readerVars, Formats, Reading
    <3> QED BY <3>2, <3>3
  <2>2. CASE EndLine(here.location) # Absent
    <3>1. AddStep(line) /\ GoOn /\ UNCHANGED <<doc, verdict, readerVars, pos, line>>
      BY <1>13, <2>2 DEF LineFound
    <3>2. /\ StartOffset(here.location) \in Nat
          /\ pos > StartOffset(here.location)
          /\ pos = Ends[IF line <= Lines THEN line ELSE Lines]
          /\ line > 0 => Ends[line - 1] <= StartOffset(here.location)
      BY <1>13 DEF LineFound, MoreLines, Reading, TypeOK
    <3>3. line \in 1..Lines /\ StartOffset(here.location) < Ends[line]
      <4>1. line \in 0..(Lines + 1) /\ Lines \in Nat
        BY DEF TypeOK
      <4>2. line # 0
        BY <3>2
      <4>3. line # Lines + 1
        BY <3>2, <4>1
      <4>4. line \in 1..Lines
        BY <4>1, <4>2, <4>3
      <4> QED BY <3>2, <4>4
    <3>4. ~Truthy(here.location.startoffset) /\ Truthy(here.location.startline) =>
            line = here.location.startline
      <4> SUFFICES ASSUME ~Truthy(here.location.startoffset), Truthy(here.location.startline)
                   PROVE  line = here.location.startline
        OBVIOUS
      <4>1. here.location.startline \in Nat /\ here.location.startline >= 1
        BY DEF TypeOK, Attributes, Location, Truthy, Absent
      <4>2. StartOffset(here.location) = OffsetOfLine(here.location.startline)
        BY DEF StartOffset
      <4> QED BY <3>2, <3>3, <4>1, <4>2, OffsetInLine
    <3>5. LineRight' /\ steps' \in Seq(ReadStep)
      BY <3>1, <3>2, <3>3, <3>4, StepAdded
    <3>6. TypeOK'
      BY <3>1, <3>5 DEF GoOn, readerVars, Verdicts, TypeOK
    <3>7. Formats' /\ Reading'
      BY <3>1, DocumentType DEF GoOn, readerVars, Formats, Reading, TypeOK
    <3> QED BY <3>5, <3>6, <3>7
  <2> QED BY <2>1, <2>2
<1>14. CASE UNCHANGED vars
  BY <1>14 DEF vars, TypeOK, Formats, Reading, LineRight
<1> QED BY <1>1, <1>2, <1>3, <1>4, <1>5, <1>6, <1>7, <1>8, <1>9, <1>10, <1>11, <1>12,
           <1>13, <1>14 DEF Next

\* The parser's variables keep their types: its steps are on lines there are.
THEOREM ParserTypes == SafeSpec => []TypeOK
<1>1. IInv => TypeOK
  BY DEF IInv
<1> QED BY <1>1, InitEstablishes, NextPreserves, PTL DEF SafeSpec

\* Every step is about the line that its witness names, or that the offset in
\* the witness is in.
THEOREM LinesAreRight == SafeSpec => []LineRight
<1>1. IInv => LineRight
  BY DEF IInv
<1> QED BY <1>1, InitEstablishes, NextPreserves, PTL DEF SafeSpec

-----------------------------------------------------------------------------
(* The steps of a YAML witness.  The steps made so far are the waypoints   *)
(* before the cursor, or before the one whose location is being looked up. *)

Precedes(a, b) == a[1] < b[1] \/ (a[1] = b[1] /\ a[2] < b[2])
FollowsBefore(place) == {w \in Follows : Precedes(w, place)}
Made == {steps[i].origin : i \in DOMAIN steps}
InOrder == \A i, j \in DOMAIN steps : i < j => Precedes(steps[i].origin, steps[j].origin)

SegmentsInv ==
    doc.format = "yaml" =>
      /\ phase # "walk"
      /\ InOrder
      /\ phase = "open" => Made = {}
      /\ phase = "segments" => Made = FollowsBefore(cursor)
      /\ phase \in {"coords", "lines"} =>
           /\ origin \in Follows
           /\ cursor = <<origin[1], origin[2] + 1>>
           /\ Made = FollowsBefore(origin)
      /\ phase \in {"parsed", "accepted"} => Made = Follows

LEMMA ContentType ==
  ASSUME doc \in Sequence
  PROVE  /\ Len(doc.content) \in Nat
         /\ DOMAIN doc.content = 1..Len(doc.content)
         /\ \A i \in DOMAIN doc.content :
              /\ Len(doc.content[i]) \in Nat
              /\ DOMAIN doc.content[i] = 1..Len(doc.content[i])
<1>1. doc.content \in Seq(Seq(Waypoint))
  BY DEF Sequence
<1>2. \A i \in DOMAIN doc.content : doc.content[i] \in Seq(Waypoint)
  BY <1>1
<1> QED BY <1>1, <1>2

\* A waypoint to follow has a segment and a place in it.
LEMMA FollowsType ==
  ASSUME doc \in Sequence, NEW w \in Follows
  PROVE  /\ w = <<w[1], w[2]>>
         /\ w[1] \in 1..Len(doc.content)
         /\ w[2] \in 1..Len(doc.content[w[1]])
         /\ w[1] \in Nat /\ w[2] \in Nat
         /\ doc.content[w[1]][w[2]].follow
<1>1. PICK i \in DOMAIN doc.content :
        w \in {<<i, j>> : j \in {k \in DOMAIN doc.content[i] : doc.content[i][k].follow}}
  BY DEF Follows
<1>2. PICK j \in DOMAIN doc.content[i] : doc.content[i][j].follow /\ w = <<i, j>>
  BY <1>1
<1>3. i \in 1..Len(doc.content) /\ j \in 1..Len(doc.content[i])
  BY <1>1, <1>2, ContentType
<1> QED BY <1>2, <1>3, ContentType

LEMMA FollowsMember ==
  ASSUME doc \in Sequence, NEW i \in 1..Len(doc.content), NEW j \in 1..Len(doc.content[i]),
         doc.content[i][j].follow
  PROVE  <<i, j>> \in Follows
<1>1. i \in DOMAIN doc.content /\ j \in DOMAIN doc.content[i]
  BY ContentType
<1>2. <<i, j>> \in {<<i, k>> : k \in {l \in DOMAIN doc.content[i] : doc.content[i][l].follow}}
  BY <1>1
<1> QED BY <1>1, <1>2 DEF Follows

LEMMA SegmentsInit == Init => SegmentsInv
<1> SUFFICES ASSUME Init, doc.format = "yaml" PROVE SegmentsInv
  BY DEF SegmentsInv
<1>1. steps = <<>> /\ phase = "open"
  BY DEF Init
<1>2. DOMAIN steps = {}
  BY <1>1
<1> QED BY <1>1, <1>2 DEF SegmentsInv, InOrder, Made

\* A step that makes none and stays at its place.
LEMMA MadeKept ==
  ASSUME UNCHANGED <<doc, steps>>
  PROVE  Made' = Made /\ InOrder' = InOrder /\ Follows' = Follows
  BY DEF Made, InOrder, Follows

\* The new step is the waypoint whose location has been looked up.
LEMMA MadeGrows ==
  ASSUME TypeOK, SegmentsInv, doc.format = "yaml", phase \in {"coords", "lines"},
         NEW n, AddStep(n), GoOn, UNCHANGED <<doc, cursor>>
  PROVE  SegmentsInv'
<1>1. doc \in Sequence
  BY DocumentType DEF TypeOK
<1>2. /\ origin \in Follows /\ cursor = <<origin[1], origin[2] + 1>>
      /\ Made = FollowsBefore(origin) /\ InOrder
  BY DEF SegmentsInv
<1>3. origin[1] \in Nat /\ origin[2] \in Nat /\ origin = <<origin[1], origin[2]>>
  BY <1>1, <1>2, FollowsType
<1>4. steps \in Seq(ReadStep) /\ Len(steps) \in Nat
  BY DEF TypeOK
<1> DEFINE step == [origin |-> origin, line |-> n, attributes |-> here]
<1>5. /\ DOMAIN steps' = 1..(Len(steps) + 1)
      /\ DOMAIN steps = 1..Len(steps)
      /\ \A i \in 1..Len(steps) : steps'[i].origin = steps[i].origin
      /\ steps'[Len(steps) + 1].origin = origin
  BY <1>4 DEF AddStep
<1>6. Made' = Made \cup {origin}
  <2>1. ASSUME NEW o \in Made' PROVE o \in Made \cup {origin}
    <3>1. PICK i \in DOMAIN steps' : o = steps'[i].origin
      BY <2>1 DEF Made
    <3>2. CASE i \in 1..Len(steps)
      BY <1>5, <3>1, <3>2 DEF Made
    <3>3. CASE i = Len(steps) + 1
      BY <1>5, <3>1, <3>3
    <3> QED BY <1>4, <1>5, <3>1, <3>2, <3>3
  <2>2. ASSUME NEW o \in Made PROVE o \in Made'
    <3>1. PICK i \in DOMAIN steps : o = steps[i].origin
      BY <2>2 DEF Made
    <3>2. i \in DOMAIN steps' /\ steps'[i].origin = o
      BY <1>4, <1>5, <3>1
    <3> QED BY <3>2 DEF Made
  <2>3. origin \in Made'
    <3>1. Len(steps) + 1 \in DOMAIN steps'
      BY <1>4, <1>5
    <3> QED BY <1>5, <3>1 DEF Made
  <2> QED BY <2>1, <2>2, <2>3
<1>7. FollowsBefore(cursor) = FollowsBefore(origin) \cup {origin}
  <2>1. ASSUME NEW w \in Follows
        PROVE  Precedes(w, cursor) <=> Precedes(w, origin) \/ w = origin
    <3>1. w[1] \in Nat /\ w[2] \in Nat /\ w = <<w[1], w[2]>>
      BY <1>1, FollowsType
    <3>2. w = origin <=> w[1] = origin[1] /\ w[2] = origin[2]
      BY <1>3, <3>1
    <3>3. cursor[1] = origin[1] /\ cursor[2] = origin[2] + 1
      BY <1>2
    <3> QED BY <1>3, <3>1, <3>2, <3>3 DEF Precedes
  <2> QED BY <1>2, <2>1 DEF FollowsBefore
<1>8. InOrder'
  <2> SUFFICES ASSUME NEW i \in DOMAIN steps', NEW j \in DOMAIN steps', i < j
               PROVE  Precedes(steps'[i].origin, steps'[j].origin)
    BY DEF InOrder, Precedes
  <2>1. i \in 1..Len(steps)
    BY <1>4, <1>5
  <2>2. CASE j \in 1..Len(steps)
    BY <1>2, <1>5, <2>1, <2>2 DEF InOrder
  <2>3. CASE j = Len(steps) + 1
    <3>1. steps[i].origin \in FollowsBefore(origin)
      BY <1>2, <1>5, <2>1 DEF Made
    <3> QED BY <1>5, <2>1, <2>3, <3>1 DEF FollowsBefore
  <2> QED BY <1>4, <1>5, <2>2, <2>3
<1>9. Follows' = Follows /\ FollowsBefore(cursor)' = FollowsBefore(cursor)
  BY DEF Follows, FollowsBefore, Precedes
<1>10. phase' = "segments"
  BY DEF GoOn
<1> QED BY <1>2, <1>6, <1>7, <1>8, <1>9, <1>10 DEF SegmentsInv

\* What is before the cursor when it moves on without a step.
LEMMA CursorMoves ==
  ASSUME TypeOK, doc.format = "yaml"
  PROVE  /\ InSegment /\ ~ThisWaypoint.follow =>
              FollowsBefore(<<cursor[1], cursor[2] + 1>>) = FollowsBefore(cursor)
         /\ cursor[1] <= Len(doc.content) /\ ~InSegment =>
              FollowsBefore(<<cursor[1] + 1, 1>>) = FollowsBefore(cursor)
         /\ cursor[1] > Len(doc.content) => FollowsBefore(cursor) = Follows
         /\ FollowsBefore(<<1, 1>>) = {}
<1>1. doc \in Sequence
  BY DocumentType DEF TypeOK
<1>2. cursor[1] \in Nat \ {0} /\ cursor[2] \in Nat \ {0}
  BY DEF TypeOK
<1>3. InSegment /\ ~ThisWaypoint.follow =>
        FollowsBefore(<<cursor[1], cursor[2] + 1>>) = FollowsBefore(cursor)
  <2> SUFFICES ASSUME ~ThisWaypoint.follow, NEW w \in Follows
               PROVE  Precedes(w, <<cursor[1], cursor[2] + 1>>) <=> Precedes(w, cursor)
    BY DEF FollowsBefore
  <2>1. w[1] \in Nat /\ w[2] \in Nat /\ doc.content[w[1]][w[2]].follow
    BY <1>1, FollowsType
  <2>2. ~(w[1] = cursor[1] /\ w[2] = cursor[2])
    BY <2>1 DEF ThisWaypoint
  <2> QED BY <1>2, <2>1, <2>2 DEF Precedes
<1>4. cursor[1] <= Len(doc.content) /\ ~InSegment =>
        FollowsBefore(<<cursor[1] + 1, 1>>) = FollowsBefore(cursor)
  <2> SUFFICES ASSUME cursor[1] <= Len(doc.content), ~InSegment, NEW w \in Follows
               PROVE  Precedes(w, <<cursor[1] + 1, 1>>) <=> Precedes(w, cursor)
    BY DEF FollowsBefore
  <2>1. w[1] \in Nat /\ w[2] \in 1..Len(doc.content[w[1]]) /\ w[2] \in Nat
    BY <1>1, FollowsType
  <2>2. cursor[1] \in DOMAIN doc.content /\ Len(doc.content[cursor[1]]) \in Nat
    BY <1>1, <1>2, ContentType
  <2>3. cursor[2] > Len(doc.content[cursor[1]])
    BY <1>2, <2>2 DEF InSegment
  <2>4. w[1] = cursor[1] => w[2] < cursor[2]
    BY <1>2, <2>1, <2>2, <2>3
  <2> QED BY <1>2, <2>1, <2>4 DEF Precedes
<1>5. cursor[1] > Len(doc.content) => FollowsBefore(cursor) = Follows
  <2> SUFFICES ASSUME cursor[1] > Len(doc.content), NEW w \in Follows PROVE Precedes(w, cursor)
    BY DEF FollowsBefore
  <2> QED BY <1>1, <1>2, FollowsType, ContentType DEF Precedes
<1>6. FollowsBefore(<<1, 1>>) = {}
  <2> SUFFICES ASSUME NEW w \in Follows PROVE ~Precedes(w, <<1, 1>>)
    BY DEF FollowsBefore
  <2>1. w[1] \in Nat /\ w[1] >= 1 /\ w[2] \in Nat /\ w[2] >= 1
    BY <1>1, FollowsType, ContentType
  <2> QED BY <2>1 DEF Precedes
<1> QED BY <1>3, <1>4, <1>5, <1>6

LEMMA SegmentsPreserved == IInv /\ SegmentsInv /\ [Next]_vars => SegmentsInv'
<1> SUFFICES ASSUME IInv, SegmentsInv, [Next]_vars, doc'.format = "yaml" PROVE SegmentsInv'
  BY DEF SegmentsInv
<1>0. TypeOK /\ Formats /\ doc' = doc /\ doc.format = "yaml"
  <2>1. doc' = doc
    BY DEF Next, vars, OpenGraph, RefuseGraph, FollowEdge, Branching, OnlySinks, PathEnds,
           OpenSequence, RefuseSequence, SkipWaypoint, FollowWaypoint, NextSegment, SegmentsEnd,
           NoCoordinates, NowhereToStart, OpenProgram, ReadLine, LineFound, HandOver, Look
  <2> QED BY <2>1 DEF IInv
<1>1. CASE OpenGraph \/ RefuseGraph
  BY <1>0, <1>1 DEF OpenGraph, RefuseGraph
<1>2. CASE FollowEdge \/ Branching \/ OnlySinks \/ PathEnds
  BY <1>0, <1>2 DEF FollowEdge, Branching, OnlySinks, PathEnds, Formats
<1>3. CASE OpenSequence
  <2>1. cursor' = <<1, 1>> /\ phase' = "segments" /\ UNCHANGED <<doc, steps>>
    BY <1>3 DEF OpenSequence
  <2>2. Made = {} /\ InOrder
    BY <1>0, <1>3 DEF SegmentsInv, OpenSequence
  <2>3. FollowsBefore(cursor)' = FollowsBefore(<<1, 1>>)
    BY <2>1 DEF FollowsBefore, Precedes, Follows
  <2> QED BY <1>0, <2>1, <2>2, <2>3, MadeKept, CursorMoves DEF SegmentsInv
<1>4. CASE RefuseSequence \/ NowhereToStart
  <2>1. phase' = "rejected" /\ UNCHANGED <<doc, steps>>
    BY <1>4 DEF RefuseSequence, NowhereToStart, Raise, Reject
  <2> QED BY <1>0, <2>1, MadeKept DEF SegmentsInv
<1>5. CASE SkipWaypoint
  <2>1. /\ cursor' = <<cursor[1], cursor[2] + 1>> /\ UNCHANGED <<doc, steps, phase>>
        /\ phase = "segments" /\ InSegment /\ ~ThisWaypoint.follow
    BY <1>5 DEF SkipWaypoint, NextWaypoint
  <2>2. FollowsBefore(cursor)' = FollowsBefore(<<cursor[1], cursor[2] + 1>>)
    BY <2>1 DEF FollowsBefore, Precedes, Follows
  <2> QED BY <1>0, <2>1, <2>2, MadeKept, CursorMoves DEF SegmentsInv
<1>6. CASE NextSegment
  <2>1. /\ cursor' = <<cursor[1] + 1, 1>> /\ UNCHANGED <<doc, steps, phase>>
        /\ phase = "segments" /\ cursor[1] <= Len(doc.content) /\ ~InSegment
    BY <1>6 DEF NextSegment
  <2>2. FollowsBefore(cursor)' = FollowsBefore(<<cursor[1] + 1, 1>>)
    BY <2>1 DEF FollowsBefore, Precedes, Follows
  <2> QED BY <1>0, <2>1, <2>2, MadeKept, CursorMoves DEF SegmentsInv
<1>7. CASE SegmentsEnd
  <2>1. phase' = "parsed" /\ UNCHANGED <<doc, steps>> /\ phase = "segments"
        /\ cursor[1] > Len(doc.content)
    BY <1>7 DEF SegmentsEnd, Stop
  <2> QED BY <1>0, <2>1, MadeKept, CursorMoves DEF SegmentsInv
<1>8. CASE FollowWaypoint
  <2>1. /\ origin' = cursor /\ cursor' = <<cursor[1], cursor[2] + 1>>
        /\ phase' = "coords" /\ UNCHANGED <<doc, steps>>
        /\ phase = "segments" /\ InSegment /\ ThisWaypoint.follow
    BY <1>8 DEF FollowWaypoint, Look, NextWaypoint
  <2>2. cursor \in Follows
    <3>1. cursor = <<cursor[1], cursor[2]>> /\ cursor[1] \in Nat \ {0} /\ cursor[2] \in Nat \ {0}
      BY <1>0 DEF TypeOK
    <3>2. doc \in Sequence
      BY <1>0, DocumentType DEF TypeOK
    <3>3. cursor[1] \in 1..Len(doc.content)
      BY <2>1, <3>1, <3>2, ContentType DEF InSegment
    <3>4. cursor[2] \in 1..Len(doc.content[cursor[1]])
      BY <2>1, <3>1, <3>2, <3>3, ContentType DEF InSegment
    <3> QED BY <2>1, <3>1, <3>2, <3>3, <3>4, FollowsMember DEF ThisWaypoint
  <2>3. FollowsBefore(origin)' = FollowsBefore(cursor)
    BY <2>1 DEF FollowsBefore, Precedes, Follows
  <2> QED BY <1>0, <2>1, <2>2, <2>3, MadeKept DEF SegmentsInv
<1>9. CASE NoCoordinates
  <2>1. AddStep(0) /\ GoOn /\ UNCHANGED <<doc, cursor>> /\ phase = "coords"
    BY <1>9 DEF NoCoordinates, readerVars
  <2> QED BY <1>0, <2>1, MadeGrows
<1>10. CASE OpenProgram \/ ReadLine
  <2>1. /\ phase \in {"coords", "lines"} /\ phase' = "lines"
        /\ UNCHANGED <<doc, cursor, origin, steps>>
    BY <1>10 DEF OpenProgram, ReadLine, readerVars
  <2>2. FollowsBefore(origin)' = FollowsBefore(origin)
    BY <2>1 DEF FollowsBefore, Precedes, Follows
  <2> QED BY <1>0, <2>1, <2>2, MadeKept DEF SegmentsInv
<1>11. CASE LineFound
  <2>1. CASE EndLine(here.location) = Absent
    <3>1. phase' = "rejected" /\ UNCHANGED <<doc, steps>>
      BY <1>11, <2>1 DEF LineFound, Raise, Reject
    <3> QED BY <1>0, <3>1, MadeKept DEF SegmentsInv
  <2>2. CASE EndLine(here.location) # Absent
    <3>1. AddStep(line) /\ GoOn /\ UNCHANGED <<doc, cursor>> /\ phase = "lines"
      BY <1>11, <2>2 DEF LineFound, readerVars
    <3> QED BY <1>0, <3>1, MadeGrows
  <2> QED BY <2>1, <2>2
<1>12. CASE HandOver
  <2>1. phase = "parsed" /\ phase' \in {"rejected", "accepted"} /\ UNCHANGED <<doc, steps>>
    BY <1>12 DEF HandOver, Reject, Stop
  <2> QED BY <1>0, <2>1, MadeKept DEF SegmentsInv
<1>13. CASE UNCHANGED vars
  <2>1. UNCHANGED <<doc, steps, phase, cursor, origin>>
    BY <1>13 DEF vars
  <2>2. FollowsBefore(cursor)' = FollowsBefore(cursor) /\ FollowsBefore(origin)' = FollowsBefore(origin)
    BY <2>1 DEF FollowsBefore, Precedes, Follows
  <2> QED BY <1>0, <2>1, <2>2, MadeKept DEF SegmentsInv
<1> QED BY <1>1, <1>2, <1>3, <1>4, <1>5, <1>6, <1>7, <1>8, <1>9, <1>10, <1>11, <1>12, <1>13
        DEF Next

\* The steps of a YAML witness are its waypoints to follow, all of them, each
\* once and in the order of the segments, for every witness.
THEOREM SegmentsFollowed == SafeSpec => []FollowsTheSegments
<1>1. SegmentsInv => FollowsTheSegments
  BY DEF SegmentsInv, FollowsTheSegments, InOrder, Made, Precedes
<1> QED BY <1>1, InitEstablishes, NextPreserves, SegmentsInit, SegmentsPreserved, PTL
        DEF SafeSpec

-----------------------------------------------------------------------------
(* The path of an automaton.                                               *)

\* A step that is made from edge e, the one edge that goes on from its node.
Takes(e, where, attributes) ==
    /\ InnerFrom(e.from) = {e} /\ e.from \in Reached
    /\ where = <<e.from, e.to>>
    /\ Parallel \/ attributes = e.attributes

StepsTaken ==
    \A i \in DOMAIN steps : \E e \in Inner : Takes(e, steps[i].origin, steps[i].attributes)
Chained == \A i \in 2..Len(steps) : steps[i].origin[1] = steps[i - 1].origin[2]
Repeats ==
    \A i, j \in DOMAIN steps :
      i < j /\ steps[i].origin = steps[j].origin =>
        \A m \in j..Len(steps) : steps[m - (j - i)].origin = steps[m].origin

\* Where the steps made so far have got to.
LookingUp == phase \in {"coords", "lines"}
Place == IF LookingUp THEN origin[1] ELSE node
Connected ==
    /\ EntryNodes = {IF steps = <<>> THEN Place ELSE steps[1].origin[1]}
    /\ steps # <<>> => Place = steps[Len(steps)].origin[2]

PathInv ==
    doc.format = "graphml" =>
      /\ phase # "segments"
      /\ phase = "open" => steps = <<>>
      /\ StepsTaken /\ Chained /\ Repeats
      /\ phase \in {"walk", "coords", "lines", "parsed", "accepted"} =>
           Connected /\ node \in Reached
      /\ LookingUp =>
           \E e \in Inner : /\ Takes(e, origin, here) /\ node = e.to
                            /\ here \in {e.attributes, NoAttributes}
      /\ phase \in {"parsed", "accepted"} => \A e \in doc.edges : e.from # node

-----------------------------------------------------------------------------
(* Automata.                                                               *)

LEMMA EdgeType ==
  ASSUME doc \in Graph
  PROVE  /\ doc.edges \subseteq Edge
         /\ Inner \subseteq doc.edges
         /\ \A e \in doc.edges : e.from \in Nodes /\ e.to \in Nodes
         /\ EntryNodes \subseteq Nodes
  BY DEF Graph, Edge, Inner, EntryNodes

\* Where the walk can get to: from the entry node along the edges, and no further.
LEMMA ReachedLeast ==
  ASSUME doc \in Graph
  PROVE  /\ EntryNodes \subseteq Reached
         /\ \A e \in Inner : e.from \in Reached => e.to \in Reached
         /\ \A set \in SUBSET Nodes : Closed(set) => Reached \subseteq set
<1>1. EntryNodes \subseteq Reached
  BY EdgeType DEF Reached, Closed
<1>2. ASSUME NEW e \in Inner, e.from \in Reached
      PROVE  e.to \in Reached
  <2>1. e.to \in Nodes
    BY <1>2, EdgeType
  <2>2. ASSUME NEW set \in SUBSET Nodes, Closed(set)
        PROVE  e.to \in set
    <3>1. e.from \in set
      BY <1>2, <2>2 DEF Reached
    <3> QED BY <1>2, <2>2, <3>1 DEF Closed
  <2> QED BY <2>1, <2>2 DEF Reached
<1>3. \A set \in SUBSET Nodes : Closed(set) => Reached \subseteq set
  BY DEF Reached
<1> QED BY <1>1, <1>2, <1>3

\* The witness does not change, nor does what is read off it.
LEMMA DocKept ==
  ASSUME doc' = doc
  PROVE  /\ Inner' = Inner /\ EntryNodes' = EntryNodes /\ Reached' = Reached
         /\ Parallel' = Parallel /\ OnPath' = OnPath
         /\ \A n : InnerFrom(n)' = InnerFrom(n)
<1>1. Inner' = Inner
  BY DEF Inner
<1>2. EntryNodes' = EntryNodes
  BY DEF EntryNodes
<1>3. ASSUME NEW set PROVE Closed(set)' <=> Closed(set)
  BY <1>1, <1>2 DEF Closed
<1>4. Reached' = Reached
  BY <1>3 DEF Reached
<1>5. Parallel' = Parallel
  BY DEF Parallel
<1>6. OnPath' = OnPath
  BY <1>1, <1>4 DEF OnPath
<1>7. \A n : InnerFrom(n)' = InnerFrom(n)
  BY <1>1 DEF InnerFrom
<1> QED BY <1>1, <1>2, <1>4, <1>5, <1>6, <1>7

LEMMA NextKeepsDoc == [Next]_vars => doc' = doc
  BY DEF Next, vars, OpenGraph, RefuseGraph, FollowEdge, Branching, OnlySinks, PathEnds,
         OpenSequence, RefuseSequence, SkipWaypoint, FollowWaypoint, NextSegment, SegmentsEnd,
         NoCoordinates, NowhereToStart, OpenProgram, ReadLine, LineFound, HandOver, Look

-----------------------------------------------------------------------------
(* The walk.                                                               *)

LEMMA PathInit == Init => PathInv
<1> SUFFICES ASSUME Init PROVE PathInv
  OBVIOUS
<1>1. steps = <<>> /\ phase = "open"
  BY DEF Init
<1>2. DOMAIN steps = {} /\ Len(steps) = 0
  BY <1>1
<1>3. StepsTaken /\ Repeats
  BY <1>2 DEF StepsTaken, Repeats
<1>4. Chained
  BY <1>2 DEF Chained
<1> QED BY <1>1, <1>3, <1>4 DEF PathInv, LookingUp

\* A step of the parser that makes none of the witness.
LEMMA StepsKept ==
  ASSUME UNCHANGED <<doc, steps>>
  PROVE  StepsTaken' = StepsTaken /\ Chained' = Chained /\ Repeats' = Repeats
<1>1. StepsTaken' = StepsTaken
  <2>1. Inner' = Inner /\ steps' = steps
    BY DocKept
  <2>2. \A i, e : Takes(e, steps[i].origin, steps[i].attributes)'
                   <=> Takes(e, steps[i].origin, steps[i].attributes)
    BY <2>1, DocKept DEF Takes
  <2> QED BY <2>1, <2>2 DEF StepsTaken
<1> QED BY <1>1 DEF Chained, Repeats

\* The edge that a location has been looked up for becomes a step.
LEMMA EdgeAdded ==
  ASSUME TypeOK, PathInv, doc.format = "graphml", LookingUp,
         NEW n, AddStep(n), GoOn, UNCHANGED <<doc, node>>
  PROVE  PathInv'
<1>1. doc \in Graph
  BY DocumentType DEF TypeOK
<1>2. PICK e \in Inner : Takes(e, origin, here) /\ node = e.to
  BY DEF PathInv
<1>3. origin = <<e.from, e.to>> /\ origin[1] = e.from /\ origin[2] = e.to
  BY <1>2 DEF Takes
<1>4. steps \in Seq(ReadStep) /\ Len(steps) \in Nat /\ DOMAIN steps = 1..Len(steps)
  BY DEF TypeOK
<1>5. /\ DOMAIN steps' = 1..(Len(steps) + 1) /\ Len(steps') = Len(steps) + 1
      /\ \A i \in 1..Len(steps) : steps'[i] = steps[i]
      /\ steps'[Len(steps) + 1].origin = origin
      /\ steps'[Len(steps) + 1].attributes = here
  BY <1>4 DEF AddStep
<1>6. StepsTaken /\ Chained /\ Repeats /\ Connected /\ node \in Reached /\ Place = origin[1]
  BY DEF PathInv, LookingUp, Place
<1>7. phase' = "walk"
  BY DEF GoOn
<1>8. steps' # <<>> /\ (steps = <<>> <=> Len(steps) = 0)
  BY <1>4, <1>5
<1>9. StepsTaken'
  <2> SUFFICES ASSUME NEW i \in DOMAIN steps'
               PROVE  \E f \in Inner : Takes(f, steps'[i].origin, steps'[i].attributes)
    <3>1. Inner' = Inner
      BY DocKept
    <3>2. \A i, f : Takes(f, steps[i].origin, steps[i].attributes)'
                     <=> Takes(f, steps'[i].origin, steps'[i].attributes)
      BY DocKept DEF Takes
    <3> QED BY <3>1, <3>2 DEF StepsTaken
  <2>1. CASE i \in 1..Len(steps)
    BY <1>4, <1>5, <1>6, <2>1 DEF StepsTaken
  <2>2. CASE i = Len(steps) + 1
    BY <1>2, <1>5, <2>2
  <2> QED BY <1>4, <1>5, <2>1, <2>2
<1>10. Chained'
  <2> SUFFICES ASSUME NEW i \in 2..(Len(steps) + 1)
               PROVE  steps'[i].origin[1] = steps'[i - 1].origin[2]
    BY <1>5 DEF Chained
  <2>1. steps'[i - 1] = steps[i - 1]
    <3>1. i - 1 \in 1..Len(steps)
      BY <1>4
    <3> QED BY <1>5, <3>1
  <2>2. CASE i \in 2..Len(steps)
    BY <1>4, <1>5, <1>6, <2>1, <2>2 DEF Chained
  <2>3. CASE i = Len(steps) + 1
    <3>1. steps # <<>> /\ i - 1 = Len(steps)
      BY <1>4, <1>8, <2>3
    <3> QED BY <1>5, <1>6, <2>1, <2>3, <3>1 DEF Connected
  <2> QED BY <1>4, <2>2, <2>3
<1>11. Repeats'
  <2> SUFFICES ASSUME NEW i \in DOMAIN steps', NEW j \in DOMAIN steps', i < j,
                      steps'[i].origin = steps'[j].origin, NEW m \in j..Len(steps')
               PROVE  steps'[m - (j - i)].origin = steps'[m].origin
    BY DEF Repeats
  <2>0. /\ i \in 1..(Len(steps) + 1) /\ j \in 1..(Len(steps) + 1)
        /\ m \in j..(Len(steps) + 1)
    BY <1>5
  <2>1. CASE j = Len(steps) + 1
    <3>1. m = j /\ m - (j - i) = i
      BY <1>4, <2>0, <2>1
    <3> QED BY <3>1
  <2>2. CASE j \in 1..Len(steps)
    <3>1. i \in 1..Len(steps) /\ steps[i].origin = steps[j].origin
      BY <1>4, <1>5, <2>0, <2>2
    <3>2. \A k \in j..Len(steps) : steps[k - (j - i)].origin = steps[k].origin
      BY <1>4, <1>6, <2>0, <2>2, <3>1 DEF Repeats
    <3>3. CASE m \in j..Len(steps)
      <4>1. m \in 1..Len(steps) /\ m - (j - i) \in 1..Len(steps)
        BY <1>4, <2>0, <2>2, <3>1, <3>3
      <4> QED BY <1>5, <3>2, <3>3, <4>1
    <3>4. CASE m = Len(steps) + 1
      <4> DEFINE l == Len(steps) - (j - i)
      <4>1. l \in 1..Len(steps) /\ l + 1 \in 2..Len(steps) /\ Len(steps) \in j..Len(steps)
        BY <1>4, <2>0, <2>2, <3>1
      <4>2. steps[l].origin = steps[Len(steps)].origin
        BY <3>2, <4>1
      <4>3. steps[l + 1].origin[1] = steps[l].origin[2]
        <5>1. (l + 1) - 1 = l
          BY <4>1
        <5> HIDE DEF l
        <5> QED BY <1>6, <4>1, <5>1 DEF Chained
      <4>4. steps[Len(steps)].origin[2] = e.from
        BY <1>3, <1>6, <1>8, <4>1 DEF Connected
      <4>5. PICK f \in Inner : Takes(f, steps[l + 1].origin, steps[l + 1].attributes)
        <5>1. l + 1 \in DOMAIN steps
          BY <1>4, <4>1
        <5> HIDE DEF l
        <5> QED BY <1>6, <5>1 DEF StepsTaken
      <4>6. f.from = e.from
        BY <4>2, <4>3, <4>4, <4>5 DEF Takes
      <4>7. f = e
        BY <1>2, <4>5, <4>6 DEF Takes
      <4>8. steps[l + 1].origin = origin
        BY <1>3, <4>5, <4>7 DEF Takes
      <4>9. m - (j - i) = l + 1
        BY <1>4, <2>0, <2>2, <3>1, <3>4
      <4>10. steps'[l + 1] = steps[l + 1]
        <5>1. l + 1 \in 1..Len(steps)
          BY <1>4, <4>1
        <5> HIDE DEF l
        <5> QED BY <1>5, <5>1
      <4> QED BY <1>5, <3>4, <4>8, <4>9, <4>10
    <3>5. m \in j..Len(steps) \/ m = Len(steps) + 1
      BY <1>4, <2>0, <2>2
    <3> QED BY <3>3, <3>4, <3>5
  <2> QED BY <1>4, <2>0, <2>1, <2>2
<1>12. Connected'
  <2>1. Place' = node
    BY <1>7 DEF Place, LookingUp
  <2>2. steps'[1].origin[1] = IF steps = <<>> THEN Place ELSE steps[1].origin[1]
    <3>1. CASE Len(steps) = 0
      BY <1>4, <1>5, <1>6, <1>8, <3>1
    <3>2. CASE Len(steps) # 0
      BY <1>4, <1>5, <1>8, <3>2
    <3> QED BY <3>1, <3>2
  <2>3. steps'[Len(steps')].origin[2] = node
    BY <1>2, <1>3, <1>5
  <2> QED BY <1>6, <1>8, <2>1, <2>2, <2>3, DocKept DEF Connected
<1> QED BY <1>6, <1>7, <1>9, <1>10, <1>11, <1>12, DocKept DEF PathInv, LookingUp

LEMMA PathPreserved == IInv /\ PathInv /\ [Next]_vars => PathInv'
<1> SUFFICES ASSUME IInv, PathInv, [Next]_vars, doc'.format = "graphml" PROVE PathInv'
  BY DEF PathInv
<1>0. TypeOK /\ Formats /\ doc' = doc /\ doc.format = "graphml" /\ doc \in Graph
  BY NextKeepsDoc, DocumentType DEF IInv, TypeOK
<1>1. CASE OpenGraph
  <2>1. /\ phase = "open" /\ phase' = "walk" /\ UNCHANGED <<doc, steps>>
        /\ EntryNodes = {node'}
    BY <1>1 DEF OpenGraph
  <2>2. steps' = <<>>
    BY <1>0, <2>1 DEF PathInv
  <2>3. Connected'
    BY <2>1, <2>2, DocKept DEF Connected, Place, LookingUp
  <2>4. (node \in Reached)'
    BY <1>0, <2>1, ReachedLeast, DocKept
  <2> QED BY <1>0, <2>1, <2>3, <2>4, StepsKept DEF PathInv, LookingUp
<1>2. CASE RefuseGraph \/ Branching \/ OnlySinks \/ NowhereToStart
  <2>1. phase' = "rejected" /\ UNCHANGED <<doc, steps>>
    BY <1>2 DEF RefuseGraph, Branching, OnlySinks, NowhereToStart, Raise, Reject
  <2> QED BY <1>0, <2>1, StepsKept DEF PathInv, LookingUp
<1>3. CASE FollowEdge
  <2>1. PICK e \in Followed :
          /\ Followed = {e} /\ phase = "walk" /\ phase' = "coords"
          /\ origin' = <<e.from, e.to>> /\ node' = e.to /\ UNCHANGED <<doc, steps>>
          /\ here' = IF Parallel THEN NoAttributes ELSE e.attributes
    BY <1>3 DEF FollowEdge, Look
  <2>2. Connected /\ node \in Reached /\ Place = node
    BY <1>0, <2>1 DEF PathInv, LookingUp, Place
  <2>3. e \in Inner /\ e.from = node /\ InnerFrom(node) = {e}
    BY <2>1 DEF Followed, OutEdges, Inner, InnerFrom
  <2>4. Takes(e, origin', here')
    BY <2>1, <2>2, <2>3 DEF Takes
  <2>5. Connected'
    <3>1. Place' = Place
      BY <2>1, <2>2, <2>3 DEF Place, LookingUp
    <3> QED BY <2>1, <2>2, <3>1, DocKept DEF Connected
  <2>6. node' \in Reached
    BY <1>0, <2>1, <2>2, <2>3, ReachedLeast
  <2>7. (\E f \in Inner : /\ Takes(f, origin, here) /\ node = f.to
                          /\ here \in {f.attributes, NoAttributes})'
    BY <2>1, <2>3, <2>4, DocKept DEF Takes
  <2> QED BY <1>0, <2>1, <2>5, <2>6, <2>7, DocKept, StepsKept DEF PathInv, LookingUp
<1>4. CASE PathEnds
  <2>1. /\ phase = "walk" /\ phase' = "parsed" /\ UNCHANGED <<doc, steps, node>>
        /\ OutEdges = {}
    BY <1>4 DEF PathEnds, Stop, readerVars
  <2>2. Connected'
    BY <1>0, <2>1, DocKept DEF PathInv, Connected, Place, LookingUp
  <2>3. \A e \in doc.edges : e.from # node
    BY <2>1 DEF OutEdges
  <2> QED BY <1>0, <2>1, <2>2, <2>3, DocKept, StepsKept DEF PathInv, LookingUp
<1>5. CASE OpenSequence \/ RefuseSequence
  BY <1>0, <1>5 DEF OpenSequence, RefuseSequence
<1>6. CASE SkipWaypoint \/ FollowWaypoint \/ NextSegment \/ SegmentsEnd
  BY <1>0, <1>6 DEF SkipWaypoint, FollowWaypoint, NextSegment, SegmentsEnd, Formats
<1>7. CASE NoCoordinates
  <2>1. AddStep(0) /\ GoOn /\ UNCHANGED <<doc, node>> /\ LookingUp
    BY <1>7 DEF NoCoordinates, readerVars, LookingUp
  <2> QED BY <1>0, <2>1, EdgeAdded
<1>8. CASE OpenProgram \/ ReadLine
  <2>1. /\ LookingUp /\ phase' = "lines"
        /\ UNCHANGED <<doc, steps, node, origin, here>>
    BY <1>8 DEF OpenProgram, ReadLine, readerVars, LookingUp
  <2>2. Connected' /\ node' \in Reached'
    BY <1>0, <2>1, DocKept DEF PathInv, Connected, Place, LookingUp
  <2>3. (\E e \in Inner : /\ Takes(e, origin, here) /\ node = e.to
                          /\ here \in {e.attributes, NoAttributes})'
    BY <1>0, <2>1, DocKept DEF PathInv, Takes
  <2> QED BY <1>0, <2>1, <2>2, <2>3, StepsKept DEF PathInv, LookingUp
<1>9. CASE LineFound
  <2>1. CASE EndLine(here.location) = Absent
    <3>1. phase' = "rejected" /\ UNCHANGED <<doc, steps>>
      BY <1>9, <2>1 DEF LineFound, Raise, Reject
    <3> QED BY <1>0, <3>1, StepsKept DEF PathInv, LookingUp
  <2>2. CASE EndLine(here.location) # Absent
    <3>1. AddStep(line) /\ GoOn /\ UNCHANGED <<doc, node>> /\ LookingUp
      BY <1>9, <2>2 DEF LineFound, readerVars, LookingUp
    <3> QED BY <1>0, <3>1, EdgeAdded
  <2> QED BY <2>1, <2>2
<1>10. CASE HandOver
  <2>1. /\ phase = "parsed" /\ phase' \in {"rejected", "accepted"}
        /\ UNCHANGED <<doc, steps, node>>
    BY <1>10 DEF HandOver, Reject, Stop, readerVars
  <2>2. Connected' /\ node' \in Reached'
    BY <1>0, <2>1, DocKept DEF PathInv, Connected, Place, LookingUp
  <2> QED BY <1>0, <2>1, <2>2, StepsKept DEF PathInv, LookingUp
<1>11. CASE UNCHANGED vars
  <2>1. UNCHANGED <<doc, steps, node, phase, origin, here>>
    BY <1>11 DEF vars, readerVars
  <2>2. Connected' = Connected /\ LookingUp' = LookingUp
    BY <2>1, DocKept DEF Connected, Place, LookingUp
  <2>3. (\E e \in Inner : /\ Takes(e, origin, here) /\ node = e.to
                          /\ here \in {e.attributes, NoAttributes})'
         = (\E e \in Inner : /\ Takes(e, origin, here) /\ node = e.to
                             /\ here \in {e.attributes, NoAttributes})
    BY <2>1, DocKept DEF Takes
  <2> QED BY <1>0, <2>1, <2>2, <2>3, DocKept, StepsKept DEF PathInv
<1> QED BY <1>1, <1>2, <1>3, <1>4, <1>5, <1>6, <1>7, <1>8, <1>9, <1>10, <1>11 DEF Next

-----------------------------------------------------------------------------
(* Where the walk has ended.                                               *)

\* Every edge of the path has been taken.
LEMMA NoneLeftOut ==
  ASSUME TypeOK, PathInv, doc.format = "graphml", phase \in {"parsed", "accepted"},
         NEW e \in OnPath
  PROVE  \E i \in DOMAIN steps : Takes(e, steps[i].origin, steps[i].attributes)
<1>1. doc \in Graph
  BY DocumentType DEF TypeOK
<1>2. /\ StepsTaken /\ Chained /\ Connected /\ Place = node
      /\ \A f \in doc.edges : f.from # node
  BY DEF PathInv, LookingUp, Place
<1>3. steps \in Seq(ReadStep) /\ Len(steps) \in Nat /\ DOMAIN steps = 1..Len(steps)
  BY DEF TypeOK
<1>4. steps = <<>> <=> Len(steps) = 0
  BY <1>3
<1> DEFINE passed == {n \in Nodes : n = node \/ \E i \in DOMAIN steps : n = steps[i].origin[1]}
<1>5. EntryNodes \subseteq passed
  <2>1. CASE steps = <<>>
    BY <1>1, <1>2, <2>1, EdgeType DEF Connected
  <2>2. CASE steps # <<>>
    <3>1. 1 \in DOMAIN steps
      BY <1>3, <1>4, <2>2
    <3> QED BY <1>1, <1>2, <2>2, <3>1, EdgeType DEF Connected
  <2> QED BY <2>1, <2>2
<1>6. ASSUME NEW f \in Inner, NEW i \in DOMAIN steps, f.from = steps[i].origin[1]
      PROVE  Takes(f, steps[i].origin, steps[i].attributes)
  <2>1. PICK g \in Inner : Takes(g, steps[i].origin, steps[i].attributes)
    BY <1>2, <1>6 DEF StepsTaken
  <2>2. g.from = f.from
    BY <1>6, <2>1 DEF Takes
  <2>3. f \in InnerFrom(g.from)
    BY <1>6, <2>2 DEF InnerFrom
  <2>4. f = g
    BY <2>1, <2>3 DEF Takes
  <2> QED BY <2>1, <2>4
<1>7. ASSUME NEW f \in Inner, f.from \in passed
      PROVE  f.to \in passed
  <2>1. f \in doc.edges /\ f.to \in Nodes
    BY <1>1, <1>7, EdgeType
  <2>2. PICK i \in DOMAIN steps : f.from = steps[i].origin[1]
    BY <1>2, <1>7, <2>1
  <2>3. steps[i].origin[2] = f.to
    BY <1>6, <1>7, <2>2 DEF Takes
  <2>4. CASE i = Len(steps)
    <3>1. f.to = node
      BY <1>2, <1>3, <1>4, <2>2, <2>3, <2>4 DEF Connected
    <3> QED BY <2>1, <3>1
  <2>5. CASE i # Len(steps)
    <3>1. i + 1 \in 2..Len(steps) /\ (i + 1) - 1 = i /\ i + 1 \in DOMAIN steps
      BY <1>3, <2>2, <2>5
    <3>2. steps[i + 1].origin[1] = f.to
      BY <1>2, <2>3, <3>1 DEF Chained
    <3> QED BY <2>1, <3>1, <3>2
  <2> QED BY <2>4, <2>5
<1>8. Reached \subseteq passed
  <2>1. Closed(passed) /\ passed \in SUBSET Nodes
    BY <1>5, <1>7 DEF Closed
  <2> HIDE DEF passed
  <2> QED BY <1>1, <2>1, ReachedLeast
<1>9. e \in Inner /\ e \in doc.edges /\ e.from \in passed
  BY <1>1, <1>8, EdgeType DEF OnPath
<1>10. PICK i \in DOMAIN steps : e.from = steps[i].origin[1]
  BY <1>2, <1>9
<1> QED BY <1>6, <1>9, <1>10

\* And none twice: the walk would have gone round for ever.
LEMMA NoneTwice ==
  ASSUME TypeOK, PathInv, doc.format = "graphml", phase \in {"parsed", "accepted"},
         NEW i \in DOMAIN steps, NEW j \in DOMAIN steps, i < j
  PROVE  steps[i].origin # steps[j].origin
<1> SUFFICES ASSUME steps[i].origin = steps[j].origin PROVE FALSE
  OBVIOUS
<1>1. doc \in Graph
  BY DocumentType DEF TypeOK
<1>2. /\ StepsTaken /\ Chained /\ Repeats /\ Connected /\ Place = node
      /\ \A f \in doc.edges : f.from # node
  BY DEF PathInv, LookingUp, Place
<1>3. steps \in Seq(ReadStep) /\ Len(steps) \in Nat /\ DOMAIN steps = 1..Len(steps)
  BY DEF TypeOK
<1> DEFINE m == Len(steps) - (j - i)
<1>4. m \in 1..Len(steps) /\ m + 1 \in 2..Len(steps) /\ m + 1 \in DOMAIN steps
  BY <1>3
<1>5. steps[m].origin = steps[Len(steps)].origin
  <2>1. Len(steps) \in j..Len(steps)
    BY <1>3
  <2> QED BY <1>2, <2>1 DEF Repeats
<1>6. steps[Len(steps)].origin[2] = node
  <2>1. steps # <<>>
    BY <1>3
  <2> QED BY <1>2, <2>1 DEF Connected
<1>7. steps[m + 1].origin[1] = steps[m].origin[2]
  <2>1. (m + 1) - 1 = m
    BY <1>4
  <2> HIDE DEF m
  <2> QED BY <1>2, <1>4, <2>1 DEF Chained
<1>8. PICK f \in Inner : Takes(f, steps[m + 1].origin, steps[m + 1].attributes)
  BY <1>2, <1>4 DEF StepsTaken
<1>9. f.from = node
  BY <1>5, <1>6, <1>7, <1>8 DEF Takes
<1> QED BY <1>1, <1>2, <1>8, <1>9, EdgeType

LEMMA AsManySteps ==
  ASSUME TypeOK, PathInv, doc.format = "graphml", phase \in {"parsed", "accepted"}
  PROVE  Len(steps) = Cardinality(OnPath)
<1>1. Len(steps) \in Nat /\ DOMAIN steps = 1..Len(steps)
  BY DEF TypeOK
<1>2. StepsTaken
  BY DEF PathInv
<1> DEFINE taken == [i \in 1..Len(steps) |->
                       CHOOSE e \in Inner : Takes(e, steps[i].origin, steps[i].attributes)]
<1>3. ASSUME NEW i \in 1..Len(steps)
      PROVE  /\ taken[i] \in Inner
             /\ Takes(taken[i], steps[i].origin, steps[i].attributes)
  BY <1>1, <1>2 DEF StepsTaken
<1> HIDE DEF taken
<1>4. ASSUME NEW i \in 1..Len(steps) PROVE taken[i] \in OnPath
  BY <1>3 DEF OnPath, Takes
<1>5. taken \in [1..Len(steps) -> OnPath]
  BY <1>4 DEF taken
<1>6. ASSUME NEW i \in 1..Len(steps), NEW j \in 1..Len(steps), taken[i] = taken[j]
      PROVE  i = j
  <2>1. steps[i].origin = steps[j].origin
    BY <1>3, <1>6 DEF Takes
  <2>2. ~(i < j) /\ ~(j < i)
    BY <1>1, <2>1, NoneTwice
  <2> QED BY <1>1, <2>2
<1>7. ASSUME NEW e \in OnPath PROVE \E i \in 1..Len(steps) : taken[i] = e
  <2>1. PICK i \in DOMAIN steps : Takes(e, steps[i].origin, steps[i].attributes)
    BY <1>7, NoneLeftOut
  <2>2. taken[i].from = e.from /\ taken[i] \in Inner /\ InnerFrom(e.from) = {e}
    BY <1>1, <1>3, <2>1 DEF Takes
  <2>3. taken[i] = e
    BY <2>2 DEF InnerFrom
  <2> QED BY <1>1, <2>1, <2>3
<1>8. ExistsBijection(1..Len(steps), OnPath)
  <2>1. taken \in Injection(1..Len(steps), OnPath)
    BY <1>5, <1>6 DEF Injection, IsInjective
  <2>2. taken \in Surjection(1..Len(steps), OnPath)
    BY <1>5, <1>7 DEF Surjection
  <2> QED BY <2>1, <2>2 DEF ExistsBijection, Bijection
<1> QED BY <1>1, <1>8, FS_CountingElements

LEMMA PathFollowed == TypeOK /\ PathInv => FollowsThePath
<1> SUFFICES ASSUME TypeOK, PathInv, doc.format = "graphml", phase \in {"parsed", "accepted"}
             PROVE  /\ Len(steps) = Cardinality(OnPath)
                    /\ \A e \in OnPath : \E i \in DOMAIN steps :
                         /\ steps[i].origin = <<e.from, e.to>>
                         /\ Parallel \/ steps[i].attributes = e.attributes
                    /\ \A i \in 2..Len(steps) : steps[i].origin[1] = steps[i - 1].origin[2]
                    /\ \A e \in doc.edges : e.from # node
  BY DEF FollowsThePath
<1>1. \A e \in OnPath : \E i \in DOMAIN steps : Takes(e, steps[i].origin, steps[i].attributes)
  BY NoneLeftOut
<1>2. Chained /\ \A e \in doc.edges : e.from # node
  BY DEF PathInv
<1> QED BY <1>1, <1>2, AsManySteps DEF Takes, Chained

\* A GraphML witness that is accepted is one path: its steps are the edges of
\* the path, each once, one behind the other, up to a node where it ends.
THEOREM PathsFollowed == SafeSpec => []FollowsThePath
<1>1. IInv => TypeOK
  BY DEF IInv
<1> QED BY <1>1, InitEstablishes, NextPreserves, PathInit, PathPreserved, PathFollowed, PTL
        DEF SafeSpec

-----------------------------------------------------------------------------
(* Refusals.                                                               *)

\* A location that cannot be looked up is one of an edge on the path.
Located ==
    /\ LookingUp /\ ~Usable(here.location) =>
         doc.format = "graphml" /\ \E loc \in Locations : ~Usable(loc)
    /\ phase = "lines" => Truthy(EndOffset(here.location))

RefusedInv == Located /\ RefusedForAReason

LEMMA LocationsKept ==
  ASSUME doc' = doc
  PROVE  /\ Locations' = Locations
         /\ \A loc : Usable(loc)' <=> Usable(loc)
<1>1. Locations' = Locations
  BY DocKept DEF Locations, Follows, LocationOf, Truthy, Absent, NoLocation
<1>2. \A loc : Usable(loc)' <=> Usable(loc)
  BY DEF Usable, EndOffset, StartOffset, EndLine, OffsetOfLine
<1> QED BY <1>1, <1>2

\* A step whose verdict has its reason, or that gives none.
LEMMA ReasonKept ==
  ASSUME RefusedForAReason, UNCHANGED doc,
         \/ verdict' = verdict
         \/ verdict' \notin {"Has branching", "Incompatible witness"}
  PROVE  RefusedForAReason'
  BY LocationsKept, DocKept DEF RefusedForAReason

LEMMA LocatedKept ==
  ASSUME Located, UNCHANGED <<doc, here>>, LookingUp' => LookingUp,
         phase' = "lines" => Truthy(EndOffset(here.location))
  PROVE  Located'
<1>0. doc' = doc /\ here' = here
  OBVIOUS
<1>1. /\ Locations' = Locations
      /\ \A loc : Usable(loc)' <=> Usable(loc)
  BY <1>0, LocationsKept
<1>2. EndOffset(here.location)' = EndOffset(here.location)
  BY DEF EndOffset, EndLine, OffsetOfLine
<1> QED BY <1>0, <1>1, <1>2 DEF Located, Truthy

\* What the parser itself leaves out can be looked up, or is not.
LEMMA LineUsable ==
  ASSUME NEW s \in Nat \union {Absent}
  PROVE  Usable([NoLocation EXCEPT !.startline = s])
<1> DEFINE loc == [NoLocation EXCEPT !.startline = s]
<1>1. /\ loc.startline = s /\ loc.endline = Absent
      /\ loc.startoffset = Absent /\ loc.endoffset = Absent
  BY DEF NoLocation
<1> HIDE DEF loc
<1>2. ASSUME Truthy(s) PROVE Usable(loc)
  <2>1. s \in Nat
    BY <1>2 DEF Truthy
  <2>2. StartOffset(loc) = OffsetOfLine(s) /\ EndLine(loc) = s
    BY <1>1, <1>2 DEF StartOffset, EndLine, Truthy
  <2>3. OffsetOfLine(s) \in Nat
    BY <2>1, OffsetType
  <2>4. StartOffset(loc) # Absent /\ EndLine(loc) # Absent
    BY <2>1, <2>2, <2>3 DEF Absent
  <2> QED BY <2>4 DEF Usable
<1>3. ASSUME ~Truthy(s) PROVE Usable(loc)
  <2>1. EndOffset(loc) = Absent
    BY <1>1, <1>3 DEF EndOffset, EndLine, Truthy
  <2> QED BY <2>1 DEF Usable, Truthy
<1> QED BY <1>2, <1>3 DEF loc

LEMMA NoLocationUsable == Usable(NoAttributes.location)
<1>1. NoAttributes.location = [NoLocation EXCEPT !.startline = Absent]
  BY DEF NoAttributes, NoLocation
<1> QED BY <1>1, LineUsable

LEMMA RefusedInit == Init => RefusedInv
  BY DEF Init, RefusedInv, Located, LookingUp, RefusedForAReason

LEMMA RefusedPreserved == IInv /\ PathInv /\ RefusedInv /\ [Next]_vars => RefusedInv'
<1> SUFFICES ASSUME IInv, PathInv, RefusedInv, [Next]_vars PROVE RefusedInv'
  OBVIOUS
<1>0. TypeOK /\ Formats /\ doc' = doc /\ Located /\ RefusedForAReason
  BY NextKeepsDoc DEF IInv, RefusedInv
<1>1. CASE OpenGraph \/ PathEnds \/ OpenSequence \/ SkipWaypoint \/ NextSegment
           \/ SegmentsEnd \/ NoCoordinates
  <2>1. UNCHANGED <<doc, verdict, here>> /\ phase' \notin {"coords", "lines"}
    BY <1>1 DEF OpenGraph, PathEnds, OpenSequence, SkipWaypoint, NextSegment, SegmentsEnd,
                NoCoordinates, Stop, GoOn, readerVars
  <2> QED BY <1>0, <2>1, ReasonKept, LocatedKept DEF RefusedInv, LookingUp
<1>2. CASE RefuseGraph \/ RefuseSequence
  <2>1. /\ UNCHANGED <<doc, here>> /\ phase' = "rejected"
        /\ verdict' \notin {"Has branching", "Incompatible witness"}
    BY <1>2 DEF RefuseGraph, RefuseSequence, Reject, readerVars
  <2> QED BY <1>0, <2>1, ReasonKept, LocatedKept DEF RefusedInv, LookingUp
<1>3. CASE FollowEdge
  <2>1. PICK e \in Followed :
          /\ phase = "walk" /\ phase' = "coords" /\ UNCHANGED <<doc, verdict>>
          /\ here' = IF Parallel THEN NoAttributes ELSE e.attributes
    BY <1>3 DEF FollowEdge, Look
  <2>2. doc.format = "graphml" /\ e \in OnPath
    BY <1>0, <2>1 DEF PathInv, Formats, Followed, OutEdges, OnPath, Inner
  <2>3. here'.location \in Locations
    BY <2>1, <2>2 DEF Locations, NoAttributes
  <2>4. Locations' = Locations
    BY <1>0, LocationsKept
  <2>5. Usable(here.location)' <=> Usable(here'.location)
    BY DEF Usable, EndOffset, StartOffset, EndLine, OffsetOfLine
  <2>6. \A loc : Usable(loc)' <=> Usable(loc)
    BY DEF Usable, EndOffset, StartOffset, EndLine, OffsetOfLine
  <2>7. Located'
    BY <1>0, <2>1, <2>2, <2>3, <2>4, <2>5, <2>6 DEF Located
  <2> QED BY <1>0, <2>1, <2>7, ReasonKept DEF RefusedInv
<1>4. CASE FollowWaypoint
  <2>1. PICK s \in Nat \union {Absent} :
          here'.location = [NoLocation EXCEPT !.startline = s]
    <3>1. InSegment /\ phase = "segments" /\ cursor \in (Nat \ {0}) \X (Nat \ {0})
      BY <1>0, <1>4 DEF FollowWaypoint, TypeOK
    <3>2. doc \in Sequence
      BY <1>0, <3>1, DocumentType DEF TypeOK, Formats
    <3>3. cursor[1] \in DOMAIN doc.content
      BY <3>1, <3>2, ContentType DEF InSegment
    <3>4. doc.content[cursor[1]] \in Seq(Waypoint)
      BY <3>2, <3>3 DEF Sequence
    <3>5. cursor[2] \in DOMAIN doc.content[cursor[1]]
      BY <3>1, <3>2, <3>3, ContentType DEF InSegment
    <3>6. ThisWaypoint \in Waypoint
      BY <3>4, <3>5 DEF ThisWaypoint
    <3>7. ThisWaypoint.attributes.location.startline \in Nat \union {Absent}
      BY <3>6 DEF Waypoint, Attributes, Location
    <3>8. here'.location = [NoLocation EXCEPT !.startline =
                              IF Truthy(ThisWaypoint.attributes.location.startline)
                                THEN ThisWaypoint.attributes.location.startline ELSE Absent]
      BY <1>4 DEF FollowWaypoint, Look, LocationOf
    <3> QED BY <3>7, <3>8
  <2>2. phase' = "coords" /\ UNCHANGED <<doc, verdict>>
    BY <1>4 DEF FollowWaypoint, Look
  <2>3. Usable(here'.location)
    BY <2>1, LineUsable
  <2>4. Usable(here.location)' <=> Usable(here'.location)
    BY DEF Usable, EndOffset, StartOffset, EndLine, OffsetOfLine
  <2>5. Located'
    BY <2>2, <2>3, <2>4 DEF Located
  <2> QED BY <1>0, <2>2, <2>5, ReasonKept DEF RefusedInv
<1>5. CASE Branching
  <2>1. PICK e \in Followed, f \in Followed : e # f
    BY <1>5 DEF Branching
  <2>2. /\ verdict' = "Has branching" /\ phase' = "rejected" /\ phase = "walk"
        /\ UNCHANGED <<doc, here>>
    BY <1>5 DEF Branching, Reject, readerVars
  <2>3. node \in Reached
    BY <1>0, <2>2 DEF PathInv, Formats
  <2>4. e \in OnPath /\ f \in OnPath /\ e.from = f.from
    BY <2>1, <2>3 DEF OnPath, Inner, Followed, OutEdges
  <2>5. RefusedForAReason'
    BY <2>1, <2>2, <2>4, DocKept DEF RefusedForAReason
  <2> QED BY <1>0, <2>2, <2>5, LocatedKept DEF RefusedInv, LookingUp
<1>6. CASE OnlySinks
  <2>1. /\ verdict' = "Incompatible witness" /\ phase' = "rejected" /\ phase = "walk"
        /\ UNCHANGED <<doc, here>> /\ OutEdges # {} /\ Followed = {}
    BY <1>6 DEF OnlySinks, Raise, Reject, readerVars
  <2>2. node \in Reached /\ doc.format = "graphml"
    BY <1>0, <2>1 DEF PathInv, Formats
  <2>3. InnerFrom(node) = {} /\ \E e \in doc.edges : e.from = node
    BY <2>1 DEF InnerFrom, Inner, Followed, OutEdges
  <2>4. \E n \in Reached : InnerFrom(n) = {} /\ \E e \in doc.edges : e.from = n
    BY <2>2, <2>3
  <2>5. (\E n \in Reached : InnerFrom(n) = {} /\ \E e \in doc.edges : e.from = n)'
    BY <2>1, <2>4, DocKept
  <2>6. RefusedForAReason'
    BY <2>1, <2>2, <2>5 DEF RefusedForAReason
  <2> QED BY <1>0, <2>1, <2>6, LocatedKept DEF RefusedInv, LookingUp
<1>7. ASSUME ~Usable(here.location), LookingUp, Raise
      PROVE  RefusedInv'
  <2>1. /\ verdict' = "Incompatible witness" /\ phase' = "rejected"
        /\ UNCHANGED <<doc, here>>
    BY <1>0, <1>7 DEF Raise, Reject, readerVars
  <2>2. doc.format = "graphml" /\ \E loc \in Locations : ~Usable(loc)
    BY <1>0, <1>7 DEF Located
  <2>3. Locations' = Locations
    BY <1>0, LocationsKept
  <2>4. \A loc : Usable(loc)' <=> Usable(loc)
    BY DEF Usable, EndOffset, StartOffset, EndLine, OffsetOfLine
  <2>5. RefusedForAReason'
    BY <1>0, <2>1, <2>2, <2>3, <2>4 DEF RefusedForAReason
  <2> QED BY <1>0, <2>1, <2>5, LocatedKept DEF RefusedInv, LookingUp
<1>8. CASE NowhereToStart
  BY <1>7, <1>8 DEF NowhereToStart, Usable, LookingUp
<1>9. CASE OpenProgram \/ ReadLine
  <2>1. /\ UNCHANGED <<doc, verdict, here>> /\ phase' = "lines" /\ LookingUp
        /\ Truthy(EndOffset(here.location))
    BY <1>0, <1>9 DEF OpenProgram, ReadLine, readerVars, LookingUp, Located
  <2> QED BY <1>0, <2>1, ReasonKept, LocatedKept DEF RefusedInv
<1>10. CASE LineFound
  <2>1. Truthy(EndOffset(here.location)) /\ LookingUp /\ phase = "lines"
    BY <1>0, <1>10 DEF LineFound, LookingUp, Located
  <2>2. CASE EndLine(here.location) = Absent
    BY <1>7, <1>10, <2>1, <2>2 DEF LineFound, Usable
  <2>3. CASE EndLine(here.location) # Absent
    <3>1. UNCHANGED <<doc, verdict, here>> /\ phase' \notin {"coords", "lines"}
      BY <1>10, <2>3 DEF LineFound, GoOn, readerVars
    <3> QED BY <1>0, <3>1, ReasonKept, LocatedKept DEF RefusedInv, LookingUp
  <2> QED BY <2>2, <2>3
<1>11. CASE HandOver
  <2>1. /\ UNCHANGED <<doc, here>> /\ phase' \in {"rejected", "accepted"}
        /\ verdict' = verdict \/ verdict' = "Empty witness"
    BY <1>11 DEF HandOver, Reject, Stop, readerVars
  <2> QED BY <1>0, <2>1, ReasonKept, LocatedKept DEF RefusedInv, LookingUp
<1>12. CASE UNCHANGED vars
  <2>1. UNCHANGED <<doc, verdict, here, phase>>
    BY <1>12 DEF vars, readerVars
  <2>2. LookingUp' = LookingUp /\ (phase = "lines" => Truthy(EndOffset(here.location)))
    BY <1>0, <2>1 DEF LookingUp, Located
  <2> QED BY <1>0, <2>1, <2>2, ReasonKept, LocatedKept DEF RefusedInv
<1> QED BY <1>1, <1>2, <1>3, <1>4, <1>5, <1>6, <1>8, <1>9, <1>10, <1>11, <1>12 DEF Next

\* A witness is refused as branching or as incompatible only for a node, or the
\* location of an edge, on the path that the walk takes.
THEOREM RefusalsHaveReasons == SafeSpec => []RefusedForAReason
<1>1. RefusedInv => RefusedForAReason
  BY DEF RefusedInv
<1> QED BY <1>1, InitEstablishes, NextPreserves, PathInit, PathPreserved,
           RefusedInit, RefusedPreserved, PTL
        DEF SafeSpec

=============================================================================
