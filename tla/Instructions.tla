---------------------------- MODULE Instructions ----------------------------
(***************************************************************************)
(* The instructions of an instrumented program: the calls that             *)
(* src/witness2ast.py inserts and src/svcomp.c defines, and the statements *)
(* of the program under test they are inserted between.                    *)
(***************************************************************************)
EXTENDS Integers, Sequences

CONSTANTS
    Threads,  \* the operating system threads the process can have
    Slots,    \* the segments of the witness the programs have calls for
    Vars,     \* the variables the programs' conditions are about
    NoVar     \* the variable of an instruction that has none

ASSUME SlotsAssumption == Slots \subseteq Nat /\ 0 \in Slots
ASSUME VarsAssumption == NoVar \notin Vars

Ops == {"final", "yield", "release", "assume", "pin", "stmt", "branch",
        "create", "join", "error"}

\* A logical id and the segment in which it is handed out, by a thread
\* whose own id is tid: one link of the ?: chain at a pthread_create.  Of a pin,
\* the links behind its first: id is the value then.
Alternative == [slot : Slots, tid : Int, id : Int]

\* slot and tid are the two arguments of the c2tt call; var and val are the
\* variable and the value a statement, pin or condition is about; children are
\* the threads a pthread_create may start, or a pthread_join waits for;
\* yes and no are where a branch goes on.
Instruction ==
    [op : Ops, slot : Slots, tid : Int, line : Nat, var : Vars \union {NoVar},
     val : Int, alts : Seq(Alternative), children : SUBSET Threads,
     yes : Nat, no : Nat]

LOCAL Blank(op) ==
    [op |-> op, slot |-> 0, tid |-> 0, line |-> 0, var |-> NoVar, val |-> 0,
     alts |-> <<>>, children |-> {}, yes |-> 0, no |-> 0]

Final(slot) == [Blank("final") EXCEPT !.slot = slot]
Yield(slot, tid) == [Blank("yield") EXCEPT !.slot = slot, !.tid = tid]
Release(slot, tid) == [Blank("release") EXCEPT !.slot = slot, !.tid = tid]
Assume(slot, tid, var, val) ==
    [Blank("assume") EXCEPT !.slot = slot, !.tid = tid, !.var = var, !.val = val]
Pinned(line, slot, tid, var, val) ==
    [Blank("pin") EXCEPT !.line = line, !.slot = slot, !.tid = tid,
                         !.var = var, !.val = val]
Plain(line) == [Blank("stmt") EXCEPT !.line = line]
Assign(line, var, val) ==
    [Blank("stmt") EXCEPT !.line = line, !.var = var, !.val = val]
BranchOn(line, var, val, yes, no) ==
    [Blank("branch") EXCEPT !.line = line, !.var = var, !.val = val,
                            !.yes = yes, !.no = no]
Choice(line, yes, no) == BranchOn(line, NoVar, 0, yes, no)
Jump(to) == Choice(0, to, to)
CreateOneOf(line, children, alts) ==
    [Blank("create") EXCEPT !.line = line, !.children = children, !.alts = alts]
JoinWith(line, children) == [Blank("join") EXCEPT !.line = line, !.children = children]
ErrorAt(line) == [Blank("error") EXCEPT !.line = line]

=============================================================================
