---------------------------- MODULE WitnessParser ----------------------------
(***************************************************************************)
(* How src/witnessparser.py reads a witness: along the one path of a        *)
(* GraphML automaton, or through the segments of a YAML violation          *)
(* sequence.  Both make a sequence of steps, each with the line of the     *)
(* program it is about, which is looked up line by line in the source      *)
(* file.  What a step says besides is data here: what it is made from.     *)
(***************************************************************************)
EXTENDS Integers, Sequences, FiniteSets

CONSTANTS
    Documents,  \* the witnesses
    Nodes,      \* the nodes of the automata
    Values,     \* what a constraint can say
    NoValue,    \* an absent one
    Lines,      \* the number of lines of the program
    Ends,       \* Ends[i]: the offset at which line i of the program ends
    MaxSteps    \* bound on the steps read along a circular path

ASSUME LinesAssumption ==
    /\ Lines \in Nat
    /\ Ends \in [0..Lines -> Nat]
    /\ Ends[0] = 0
    /\ \A i, j \in 0..Lines : i < j => Ends[i] < Ends[j]

Absent == -1
Truthy(n) == n \notin {Absent, 0}

\* A location as the witness gives it; what is not given is absent.
Location == [startline : Nat \union {Absent}, endline : Nat \union {Absent},
             startoffset : Nat \union {Absent}, endoffset : Nat \union {Absent}]
NoLocation == [startline |-> Absent, endline |-> Absent,
               startoffset |-> Absent, endoffset |-> Absent]

\* What a step is made from: where it stands in the witness (an edge, or a
\* waypoint's segment and place), its location, thread and constraint.
Attributes == [location : Location, thread : Int, value : Values \union {NoValue}]
NoAttributes == [location |-> NoLocation, thread |-> Absent, value |-> NoValue]

Edge == [from : Nodes, to : Nodes, key : Nat, attributes : Attributes]
\* entry and sinks are the nodes that have the attribute, whatever its value.
Graph == [format : {"graphml"}, type : {"violation_witness", "correctness_witness"},
          edges : SUBSET Edge, entry : SUBSET Nodes, sinks : SUBSET Nodes]

Waypoint == [follow : BOOLEAN, type : STRING, format : STRING, attributes : Attributes]
\* entries are the types of the list's entries, content is what the first
\* violation sequence has; a document that is no list has isList = FALSE.
Sequence == [format : {"yaml"}, isList : BOOLEAN, entries : Seq(STRING),
             content : Seq(Seq(Waypoint))]

ASSUME DocumentsAssumption == Documents \subseteq Graph \union Sequence
ASSUME NodesAssumption == Nodes # {}

VARIABLES
    doc,      \* the witness
    phase,    \* what the parser is doing
    verdict,  \* that of a KnownErrorVerdict
    node,     \* the node the path has got to
    cursor,   \* the segment and the waypoint that come next
    origin,   \* where the step being made stands in the witness
    here,     \* its attributes
    pos,      \* f.tell() of get_line_of_offset
    line,     \* the lines it has read
    steps     \* the steps made

vars == <<doc, phase, verdict, node, cursor, origin, here, pos, line, steps>>

readerVars == <<node, cursor, origin, here>>

Stop(how) == phase' = how /\ UNCHANGED <<verdict, readerVars, pos, line, steps>>
Reject(why) ==
    /\ phase' = "rejected"
    /\ verdict' = why
    /\ UNCHANGED <<readerVars, pos, line, steps>>
\* An IndexError or a TypeError; the verdict is main.py's.
Raise == Reject("Incompatible witness")

-----------------------------------------------------------------------------
(* get_coords.                                                             *)

OffsetOfLine(n) ==
    Ends[CASE n < 1 -> 0 [] n >= 1 /\ n - 1 > Lines -> Lines [] OTHER -> n - 1]

EndLine(loc) ==
    IF ~Truthy(loc.endline) /\ Truthy(loc.startline) THEN loc.startline ELSE loc.endline
StartOffset(loc) ==
    IF ~Truthy(loc.startoffset) /\ Truthy(loc.startline)
      THEN OffsetOfLine(loc.startline) ELSE loc.startoffset
EndOffset(loc) ==
    IF ~Truthy(loc.endoffset) /\ Truthy(EndLine(loc))
      THEN OffsetOfLine(EndLine(loc) + 1) ELSE loc.endoffset

\* The step goes to the end of the list, with 0 for coordinates that are None.
AddStep(n) ==
    steps' = Append(steps, [origin |-> origin, line |-> n, attributes |-> here])

GoOn == phase' = IF doc.format = "graphml" THEN "walk" ELSE "segments"

NoCoordinates ==
    /\ phase = "coords"
    /\ ~Truthy(EndOffset(here.location))
    /\ AddStep(0)
    /\ GoOn
    /\ UNCHANGED <<doc, verdict, readerVars, pos, line>>

\* f.seek(int(None)).
NowhereToStart ==
    /\ phase = "coords"
    /\ Truthy(EndOffset(here.location)) /\ StartOffset(here.location) = Absent
    /\ Raise
    /\ UNCHANGED doc

OpenProgram ==
    /\ phase = "coords"
    /\ Truthy(EndOffset(here.location)) /\ StartOffset(here.location) # Absent
    /\ phase' = "lines"
    /\ pos' = 0
    /\ line' = 0
    /\ UNCHANGED <<doc, verdict, readerVars, steps>>

\* Mutant: the line is the one that ends at the offset.
MoreLinesBefore(offset) == pos < offset

\* f.tell() <= offset
MoreLines(offset) == pos <= offset

\* One round of the loop.  At the end of the file the loop goes on, and only
\* the count of the lines changes, up to the bound Lines + 1 here.
ReadLine ==
    /\ phase = "lines"
    /\ MoreLines(StartOffset(here.location))
    /\ pos' = IF line < Lines THEN Ends[line + 1] ELSE pos
    /\ line' = IF line <= Lines THEN line + 1 ELSE line
    /\ UNCHANGED <<doc, phase, verdict, readerVars, steps>>

\* int(endline) is the last thing that can fail.
LineFound ==
    /\ phase = "lines"
    /\ ~MoreLines(StartOffset(here.location))
    /\ IF EndLine(here.location) = Absent
         THEN Raise
         ELSE AddStep(line) /\ GoOn /\ UNCHANGED <<verdict, readerVars, pos, line>>
    /\ UNCHANGED doc

\* Look up the location of a step that has been found in the witness.
Look(where, attributes) ==
    /\ phase' = "coords"
    /\ origin' = where
    /\ here' = attributes
    /\ UNCHANGED <<doc, verdict, pos, line, steps>>

-----------------------------------------------------------------------------
(* parse_graphml_witness.                                                  *)

EntryNodes ==
    IF doc.entry # {} THEN doc.entry
    ELSE {n \in Nodes : /\ \A e \in doc.edges : e.to # n
                        /\ \E e \in doc.edges : e.from = n}

OpenGraph ==
    /\ phase = "open" /\ doc.format = "graphml"
    /\ doc.type = "violation_witness"
    /\ \E n \in EntryNodes : EntryNodes = {n} /\ node' = n
    /\ phase' = "walk"
    /\ UNCHANGED <<doc, verdict, cursor, origin, here, pos, line, steps>>

RefuseGraph ==
    /\ phase = "open" /\ doc.format = "graphml"
    /\ \/ doc.type # "violation_witness" /\ Reject("Correctness witness")
       \/ /\ doc.type = "violation_witness"
          /\ EntryNodes = {} /\ Reject("No entry node")
       \/ /\ doc.type = "violation_witness"
          /\ \E m, n \in EntryNodes : m # n
          /\ Reject("Multiple entry nodes")
    /\ UNCHANGED doc

OutEdges == {e \in doc.edges : e.from = node}

\* Mutant: an edge to a sink is as good as any.
FollowedToSinks == OutEdges

Followed == {e \in OutEdges : e.to \notin doc.sinks}

\* networkx makes a multigraph of a graph with parallel edges; the data of its
\* edges are those of each key, so that none of the attributes is found.
Parallel == \E e, f \in doc.edges : e # f /\ e.from = f.from /\ e.to = f.to

FollowEdge ==
    /\ phase = "walk"
    /\ Len(steps) < MaxSteps
    /\ \E e \in Followed :
         /\ Followed = {e}
         /\ Look(<<e.from, e.to>>, IF Parallel THEN NoAttributes ELSE e.attributes)
         /\ node' = e.to
    /\ UNCHANGED cursor

\* Mutant: the first of several edges will do.
BranchingMissed ==
    /\ phase = "walk"
    /\ \E e, f \in Followed : e # f
    /\ Stop("parsed")
    /\ UNCHANGED doc

Branching ==
    /\ phase = "walk"
    /\ \E e, f \in Followed : e # f
    /\ Reject("Has branching")
    /\ UNCHANGED doc

\* list(out_edges)[0], when there are edges but only to sinks.
OnlySinks ==
    /\ phase = "walk"
    /\ OutEdges # {} /\ Followed = {}
    /\ Raise
    /\ UNCHANGED doc

PathEnds ==
    /\ phase = "walk"
    /\ OutEdges = {}
    /\ Stop("parsed")
    /\ UNCHANGED doc

-----------------------------------------------------------------------------
(* parse_yaml_witness.                                                     *)

\* The entry that decides: the first of either type.
Decides(i) ==
    /\ doc.entries[i] \in {"violation_sequence", "invariant_set"}
    /\ \A j \in 1..(i - 1) : doc.entries[j] \notin {"violation_sequence", "invariant_set"}

OpenSequence ==
    /\ phase = "open" /\ doc.format = "yaml" /\ doc.isList
    /\ \E i \in DOMAIN doc.entries : Decides(i) /\ doc.entries[i] = "violation_sequence"
    /\ phase' = "segments"
    /\ cursor' = <<1, 1>>
    /\ UNCHANGED <<doc, verdict, node, origin, here, pos, line, steps>>

RefuseSequence ==
    /\ phase = "open" /\ doc.format = "yaml"
    /\ \/ ~doc.isList /\ Reject("Malformed witness")
       \/ /\ doc.isList
          /\ \E i \in DOMAIN doc.entries : Decides(i) /\ doc.entries[i] = "invariant_set"
          /\ Reject("Correctness witness")
       \/ /\ doc.isList
          /\ \A i \in DOMAIN doc.entries : ~Decides(i)
          /\ Reject("No violation sequence")
    /\ UNCHANGED doc

InSegment == cursor[1] <= Len(doc.content) /\ cursor[2] <= Len(doc.content[cursor[1]])
ThisWaypoint == doc.content[cursor[1]][cursor[2]]

\* Mutant: the next waypoint of a segment is the one behind the next.
NextWaypointSkipping == cursor' = <<cursor[1], cursor[2] + 2>>

NextWaypoint == cursor' = <<cursor[1], cursor[2] + 1>>

\* 'avoid' waypoints are skipped.
SkipWaypoint ==
    /\ phase = "segments"
    /\ InSegment /\ ~ThisWaypoint.follow
    /\ NextWaypoint
    /\ UNCHANGED <<doc, phase, verdict, node, origin, here, pos, line, steps>>

\* _extract_constraint, for the types of waypoints it is called for.
Constraint(w) ==
    IF /\ w.type \in {"assumption", "function_return", "branching"}
       /\ w.format \in {"", "c_expression", "ext_c_expression"}
      THEN w.attributes.value ELSE NoValue

\* A waypoint has no other coordinates than its line.
LocationOf(w) ==
    LET said == w.attributes.location.startline
    IN  [NoLocation EXCEPT !.startline = IF Truthy(said) THEN said ELSE Absent]

\* No thread is main.
FollowWaypoint ==
    /\ phase = "segments"
    /\ InSegment /\ ThisWaypoint.follow
    /\ LET said == ThisWaypoint.attributes
       IN  Look(cursor,
             [location |-> LocationOf(ThisWaypoint),
              thread |-> IF said.thread = Absent THEN 0 ELSE said.thread,
              value |-> Constraint(ThisWaypoint)])
    /\ NextWaypoint
    /\ UNCHANGED node

\* Mutant: the waypoints of the next segment are counted from 0.
NextSegmentAtZero ==
    /\ phase = "segments"
    /\ cursor[1] <= Len(doc.content) /\ ~InSegment
    /\ cursor' = <<cursor[1] + 1, 0>>
    /\ UNCHANGED <<doc, phase, verdict, node, origin, here, pos, line, steps>>

NextSegment ==
    /\ phase = "segments"
    /\ cursor[1] <= Len(doc.content) /\ ~InSegment
    /\ cursor' = <<cursor[1] + 1, 1>>
    /\ UNCHANGED <<doc, phase, verdict, node, origin, here, pos, line, steps>>

SegmentsEnd ==
    /\ phase = "segments"
    /\ cursor[1] > Len(doc.content)
    /\ Stop("parsed")
    /\ UNCHANGED doc

-----------------------------------------------------------------------------

\* apply_witness refuses a witness without steps.
HandOver ==
    /\ phase = "parsed"
    /\ IF steps = <<>> THEN Reject("Empty witness") ELSE Stop("accepted")
    /\ UNCHANGED doc

Init ==
    /\ doc \in Documents
    /\ phase = "open"
    /\ verdict = ""
    /\ node = CHOOSE n \in Nodes : TRUE
    /\ cursor = <<1, 1>>
    /\ origin = <<>>
    /\ here = NoAttributes
    /\ pos = 0
    /\ line = 0
    /\ steps = <<>>

Next ==
    \/ OpenGraph \/ RefuseGraph \/ FollowEdge \/ Branching \/ OnlySinks \/ PathEnds
    \/ OpenSequence \/ RefuseSequence
    \/ SkipWaypoint \/ FollowWaypoint \/ NextSegment \/ SegmentsEnd
    \/ NoCoordinates \/ NowhereToStart \/ OpenProgram \/ ReadLine \/ LineFound
    \/ HandOver

SafeSpec == Init /\ [][Next]_vars

\* The parser runs until it is done.
Spec == SafeSpec /\ WF_vars(Next)

-----------------------------------------------------------------------------
(* The witness, read off at once.                                          *)

\* The nodes the entry node is connected to without passing a sink, and the
\* edges between them.
Inner == {e \in doc.edges : e.to \notin doc.sinks}
Closed(set) == EntryNodes \subseteq set /\ \A e \in Inner : e.from \in set => e.to \in set
Reached == {n \in Nodes : \A set \in SUBSET Nodes : Closed(set) => n \in set}
InnerFrom(n) == {e \in Inner : e.from = n}
OnPath == {e \in Inner : e.from \in Reached}

\* A path that goes on from every one of its nodes is a circle.
Endless == \A n \in Reached : \E e \in Inner : InnerFrom(n) = {e}

Follows ==
    UNION {{<<i, j>> : j \in {k \in DOMAIN doc.content[i] : doc.content[i][k].follow}} :
             i \in DOMAIN doc.content}

\* The locations on the way: not those of edges off the path, or of waypoints to
\* avoid.
Locations ==
    IF doc.format = "graphml"
      THEN {IF Parallel THEN NoLocation ELSE e.attributes.location : e \in OnPath}
      ELSE {LocationOf(doc.content[w[1]][w[2]]) : w \in Follows}
InProgram(loc) == StartOffset(loc) < Ends[Lines]

\* What is needed to look up a location is there.
Usable(loc) ==
    Truthy(EndOffset(loc)) => StartOffset(loc) # Absent /\ EndLine(loc) # Absent

-----------------------------------------------------------------------------
(* Properties.                                                             *)

\* An edge, a waypoint, or nothing yet.
Origins == {<<>>} \union (Nodes \X Nodes) \union ((Nat \ {0}) \X (Nat \ {0}))
ReadStep == [origin : Origins, line : 0..Lines, attributes : Attributes]

Verdicts == {"", "Correctness witness", "No entry node", "Multiple entry nodes",
             "Has branching", "Malformed witness", "No violation sequence",
             "Empty witness", "Incompatible witness"}

TypeOK ==
    /\ doc \in Documents
    /\ phase \in {"open", "walk", "segments", "coords", "lines", "parsed",
                  "accepted", "rejected"}
    /\ verdict \in Verdicts
    /\ node \in Nodes
    /\ cursor \in (Nat \ {0}) \X (Nat \ {0})
    /\ origin \in Origins
    /\ here \in Attributes
    /\ pos \in Nat
    /\ line \in 0..(Lines + 1)
    /\ steps \in Seq(ReadStep)

\* A GraphML witness that is accepted is one path, and the steps are its edges,
\* all of them and one behind the other, with what the edges say.  (The walk
\* and its checks; witnessparser.py:20-21: "the single non-branching path from
\* the entry node is read off edge by edge".  Parallel edges: see the README.)
FollowsThePath ==
    doc.format = "graphml" /\ phase \in {"parsed", "accepted"} =>
        /\ Len(steps) = Cardinality(OnPath)
        /\ \A e \in OnPath : \E i \in DOMAIN steps :
             /\ steps[i].origin = <<e.from, e.to>>
             /\ Parallel \/ steps[i].attributes = e.attributes
        /\ \A i \in 2..Len(steps) : steps[i].origin[1] = steps[i - 1].origin[2]
        /\ \A e \in doc.edges : e.from # node

\* The steps of a YAML witness are its follow waypoints, all of them and in
\* the order of the segments.  (The two nested loops.)
FollowsTheSegments ==
    doc.format = "yaml" /\ phase \in {"parsed", "accepted"} =>
        /\ {steps[i].origin : i \in DOMAIN steps} = Follows
        /\ \A i, j \in DOMAIN steps : i < j =>
             LET first == steps[i].origin  second == steps[j].origin
             IN  \/ first[1] < second[1]
                 \/ first[1] = second[1] /\ first[2] < second[2]

\* A witness is refused only for what the walk comes across: a node that
\* branches, one that leads to sinks only, or an edge with an incomplete
\* location.  What lies off the path excuses nothing, and no waypoint is refused
\* for its location.  (The checks of the walk, and int(None) in get_coords.)
RefusedForAReason ==
    /\ verdict = "Has branching" =>
         \E e, f \in OnPath : e # f /\ e.from = f.from
    /\ verdict = "Incompatible witness" =>
         \/ doc.format = "graphml" /\ \E n \in Reached :
               InnerFrom(n) = {} /\ \E e \in doc.edges : e.from = n
         \/ doc.format = "graphml" /\ \E loc \in Locations : ~Usable(loc)

\* The line of a step is the one its location names, or that its offset is in.
\* (From the line to the offset and back, by counting: get_offset_of_line and
\* get_line_of_offset.)
LineRight ==
    \A i \in DOMAIN steps :
        LET loc == steps[i].attributes.location
        IN  steps[i].line # 0 =>
              /\ Ends[steps[i].line - 1] <= StartOffset(loc)
              /\ StartOffset(loc) < Ends[steps[i].line]
              /\ ~Truthy(loc.startoffset) /\ Truthy(loc.startline) =>
                   steps[i].line = loc.startline

\* The parser comes to an end, unless the path is a circle or one of the
\* locations on it leads out of the program; those of other edges, and of
\* waypoints to avoid, are never looked up.
Finishes ==
    (doc.format = "graphml" => ~Endless) /\ (\A loc \in Locations : InProgram(loc))
      => <>(phase \in {"accepted", "rejected"})

\* So does every look at the program, wherever the witness points to.
\* (witnessparser.py:33-35: the coordinates are None "when the witness gives no
\* usable location".)
LookupEnds == phase = "coords" ~> phase \notin {"coords", "lines"}

=============================================================================
