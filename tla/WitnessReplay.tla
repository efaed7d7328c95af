---------------------------- MODULE WitnessReplay ----------------------------
(***************************************************************************)
(* A validation run from the witness to the exit code: the program is      *)
(* instrumented (WitnessAst), compiled and executed (Replay).  The scripts *)
(* are the cases, pairs of a program and a witness, and Code is given the  *)
(* value ReplayCode.                                                       *)
(***************************************************************************)
EXTENDS Replay, WitnessAst

-----------------------------------------------------------------------------
(* What a witness says, read off its steps alone.                          *)

\* The thread of step i: the one stated last.
LastStated(steps, stated) == IF stated = {} THEN 0 ELSE steps[Max(stated)].thread
ThreadOf(steps, i) == LastStated(steps, {j \in 1..i : steps[j].thread # Unstated})

\* The steps at which another thread goes on.
ThreadChanges(steps) ==
    {i \in 2..Len(steps) : steps[i].line # 0 /\ ThreadOf(steps, i) # ThreadOf(steps, i - 1)}

\* Those of them that end a segment: not the two accesses of a race.
SegmentEnds(witness, changes) ==
    {i \in changes : ~(witness.dataRace /\ witness.steps[i].type = "target")}

\* Step i, as the event that says it has happened; a block begins with its
\* first statement.
StartLine(statement, line) ==
    IF statement.kind = "block" THEN statement.items[1].line ELSE line
Occurrence(ast, steps, i) ==
    <<"stmt", ThreadOf(steps, i),
      StartLine(FindFirstStatement(ast, steps[i].line), steps[i].line)>>

CreatingLeaves(ast) == {leaf \in ToSet(AllLeaves(ast)) : leaf.form = "create"}

\* The line a thread is created at, 0 for main.
FirstLine(lines) == IF lines = {} THEN 0 ELSE Min(lines)
CreatedAt(creating, t) ==
    FirstLine({leaf.line : leaf \in {l \in creating : t \in l.instr.children}})

\* The steps that see a thread created.
Creations(creating, steps) ==
    {i \in DOMAIN steps : steps[i].type = "function_enter" /\
                          \E leaf \in creating : leaf.line = steps[i].line}

\* The thread that goes on behind the creation of several is the one created
\* last: before its turn it exists, and so do the others.
LastCreatedFirst(steps, created, ends) ==
    LET \* The first end of a segment behind a creation.
        Opens(i) == \E c \in created : c < i /\ \A j \in ends : j < i => j < c
    IN  \A i \in ends : Opens(i) => ThreadOf(steps, i) = Cardinality({c \in created : c < i})

\* The witness sees every thread created that a statement creates, and one
\* statement creates one thread in a segment.
CreatedApart(steps, creating, created, ends) ==
    \A leaf \in creating :
      LET AtLeaf(c) == c \in created /\ steps[c].line = leaf.line
      IN  /\ Cardinality({c \in created : AtLeaf(c)}) = Cardinality(leaf.instr.children)
          /\ \A c, d \in created :
               AtLeaf(c) /\ AtLeaf(d) /\ c < d => \E i \in ends : i \in c..d

\* The steps at which another thread goes on, by the thread and its segment.
AtChanges(steps, changes, ends) ==
    {<<ThreadOf(steps, i), Cardinality({j \in ends : j < i})>> : i \in changes}

\* What becomes of a program, and what is in its witness.  Each thread has a
\* start routine.
CaseRecord(ast, instrumented, routine, witness, creating, created, changes, ends) ==
    [code |-> Tabulated([t \in Threads |-> CompileFunction(instrumented.ast, routine[t])]),
     accepted |-> ~instrumented.failed,
     createdAt |-> Tabulated([t \in Threads |-> CreatedAt(creating, t)]),
     lines |-> Tabulated([i \in DOMAIN witness.steps |-> witness.steps[i].line]),
     happened |-> Tabulated([i \in DOMAIN witness.steps |-> Occurrence(ast, witness.steps, i)]),
     points |-> changes,
     creations |-> created,
     targets |-> {i \in DOMAIN witness.steps :
                    witness.dataRace /\ witness.steps[i].type = "target"},
     inTime |-> /\ CreatedApart(witness.steps, creating, created, ends)
                /\ LastCreatedFirst(witness.steps, created, ends),
     atChanges |-> AtChanges(witness.steps, changes, ends)]

CaseOf(ast, routine, witness) ==
    CaseRecord(ast, ApplyWitness(ast, witness), routine, witness, CreatingLeaves(ast),
               Creations(CreatingLeaves(ast), witness.steps), ThreadChanges(witness.steps),
               SegmentEnds(witness, ThreadChanges(witness.steps)))

ReplayCode == Tabulated([s \in Scripts |-> Cases[s].code])

=============================================================================
