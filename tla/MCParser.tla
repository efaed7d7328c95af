------------------------------ MODULE MCParser ------------------------------
(***************************************************************************)
(* Witnesses for WitnessParser: every automaton of three nodes, edges with *)
(* every kind of location, and sequences of segments.                      *)
(***************************************************************************)
EXTENDS WitnessParser

CONSTANTS p, q, r, v

MCNodes == {p, q, r}
MCValues == {v}
\* Three lines of the lengths 2, 1 and 3.
LineEnds == [i \in 0..3 |-> CASE i = 0 -> 0 [] i = 1 -> 2 [] i = 2 -> 3 [] i = 3 -> 6]

OnLine(n) == [NoLocation EXCEPT !.startline = n]
At(location, thread) == [location |-> location, thread |-> thread, value |-> NoValue]

\* Lines tell apart where edges lead to.
LineOf(n) == CASE n = p -> 1 [] n = q -> 2 [] n = r -> 3
EdgeTo(m, n, key) == [from |-> m, to |-> n, key |-> key, attributes |-> At(OnLine(LineOf(n)), key)]

GraphOf(edges, entry, sinks) ==
    [format |-> "graphml", type |-> "violation_witness", edges |-> edges,
     entry |-> entry, sinks |-> sinks]

\* Every graph of three nodes, with the marks that matter.
Graphs == {GraphOf({EdgeTo(pair[1], pair[2], 0) : pair \in pairs}, entry, sinks) :
             pairs \in SUBSET (MCNodes \X MCNodes), entry \in {{}, {p}, {p, q}},
             sinks \in {{}, {r}, {q, r}}}
SpecialGraphs ==
    {GraphOf({EdgeTo(p, q, 0), EdgeTo(p, q, 1)}, {p}, {}),
     GraphOf({EdgeTo(p, q, 0), EdgeTo(p, r, 0), EdgeTo(p, r, 1)}, {p}, {r}),
     [GraphOf({EdgeTo(p, q, 0)}, {p}, {}) EXCEPT !.type = "correctness_witness"]}

\* An edge off the path, which cannot be looked up or leads out of the program.
Strays ==
    {GraphOf({EdgeTo(p, q, 0), [EdgeTo(m, r, 0) EXCEPT !.attributes = At(stray, 0)]},
             {p}, sinks) :
       m \in {q, r}, sinks \in {{}, {r}},
       stray \in {[NoLocation EXCEPT !.endoffset = 4], OnLine(4)}}
StraysOff == {g \in Strays : r \in g.sinks \/ \A e \in g.edges : e.from # q}

\* One edge, with every combination of lines and offsets there may be.
MCLocations ==
    [startline : {Absent, 1, 3}, endline : {Absent, 0, 2, 3},
     startoffset : {Absent, 0, 1, 2, 5}, endoffset : {Absent, 0, 4}]
Places == {GraphOf({[EdgeTo(p, q, 0) EXCEPT !.attributes = At(loc, 0)]}, {p}, {}) :
             loc \in MCLocations}

Waypoints ==
    {[follow |-> TRUE, type |-> "target", format |-> "", attributes |-> At(OnLine(3), 1)],
     [follow |-> FALSE, type |-> "target", format |-> "", attributes |-> At(OnLine(2), 1)],
     [follow |-> TRUE, type |-> "assumption", format |-> "acsl",
      attributes |-> [At(OnLine(0), Absent) EXCEPT !.value = v]]}
SequenceOf(isList, entries, content) ==
    [format |-> "yaml", isList |-> isList, entries |-> entries, content |-> content]

Segments == UNION {[1..n -> Waypoints] : n \in 0..2}
Sequences ==
    {SequenceOf(TRUE, <<"violation_sequence">>, content) :
       content \in UNION {[1..n -> Segments] : n \in 0..2}}
    \union
    {SequenceOf(FALSE, <<>>, <<>>), SequenceOf(TRUE, <<"other">>, <<>>),
     SequenceOf(TRUE, <<"invariant_set", "violation_sequence">>, <<>>),
     SequenceOf(TRUE, <<"other", "violation_sequence", "invariant_set">>, <<>>)}

\* A waypoint to avoid, on a line behind the last one.
Avoided == SequenceOf(TRUE, <<"violation_sequence">>,
             <<<<[follow |-> FALSE, type |-> "target", format |-> "",
                  attributes |-> At(OnLine(4), 1)]>>>>)

Witnesses == Graphs \union SpecialGraphs \union Places \union StraysOff
               \union Sequences \union {Avoided}

\* TLC evaluates these once, as it does not what it puts for a constant.
MCDocuments == Witnesses
MCEnds == LineEnds

\* A waypoint on a line behind the last one.
PastTheEnd == {SequenceOf(TRUE, <<"violation_sequence">>,
                 <<<<[follow |-> TRUE, type |-> "target", format |-> "",
                      attributes |-> At(OnLine(4), 0)]>>>>)}

=============================================================================
