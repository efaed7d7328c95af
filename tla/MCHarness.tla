------------------------------ MODULE MCHarness ------------------------------
(***************************************************************************)
(* Small programs for ConcurrentHarness: main (m) and up to two threads    *)
(* (a, b) that take turns, written by hand the way witness2ast.py          *)
(* instruments such programs.                                              *)
(***************************************************************************)
EXTENDS ConcurrentHarness

CONSTANTS m, a, b, none, x, y, novar

MCThreads == {m, a, b}
MCSlots == 0..4
MCVars == {x, y}

\* Threads that are not named run nothing.
Only(main, first, second) ==
    [t \in Threads |-> CASE t = m -> main [] t = a -> first [] t = b -> second]

NewThread(line, child, slot, id) ==
    CreateOneOf(line, {child}, <<[slot |-> slot, tid |-> 0, id |-> id]>>)

\* One segment: the statement at the line, in the given slot.
Segment(slot, tid, line) == <<Yield(slot, tid), Plain(line), Release(slot, tid)>>

\* Main creates a thread in the slot; number 1 is for slot 0, 2 for slot 1.
NumberedIn(slot) ==
    <<Yield(slot, 0),
      CreateOneOf(1, {a, b}, <<[slot |-> 0, tid |-> 0, id |-> 1],
                               [slot |-> 1, tid |-> 0, id |-> 2]>>),
      Release(slot, 0)>>

MCCode ==
  [ \* main and one thread take turns twice; the last turn ends in the error.
    handoff |-> Only(
        <<Final(4), NewThread(1, a, 0, 1)>> \o Segment(1, 0, 2)
          \o Segment(3, 0, 3) \o <<JoinWith(9, {a}), ErrorAt(10)>>,
        Segment(0, 1, 11) \o Segment(2, 1, 12), <<>>),
    \* Two threads and main wait at the same time, for different segments.
    crowd |-> Only(
        <<Final(3), NewThread(1, a, 0, 1), NewThread(2, b, 0, 2)>>
          \o Segment(2, 0, 3) \o <<JoinWith(9, {a, b}), ErrorAt(10)>>,
        Segment(1, 1, 11), Segment(0, 2, 21)),
    \* The released statement is in a loop that goes round once more: its
    \* second release comes late, or early enough to compete with main's.
    again |-> Only(
        <<Final(2), NewThread(1, a, 0, 1)>> \o Segment(1, 0, 2)
          \o <<JoinWith(9, {a})>>,
        Segment(0, 1, 11) \o Segment(0, 1, 11), <<>>),
    \* A thread that the witness does not number runs the same routine.
    stranger |-> Only(
        <<Final(2), NewThread(1, a, 0, 1), CreateOneOf(1, {b}, <<>>)>>
          \o Segment(1, 0, 2) \o <<ErrorAt(10)>>,
        Segment(0, 1, 11), Segment(0, 1, 11)),
    \* One routine for two threads, numbered by the same chain of alternatives
    \* in two segments; the first of them takes the turn of number 1.
    spawner |-> Only(
        <<Final(3)>> \o NumberedIn(0) \o NumberedIn(1)
          \o <<JoinWith(9, {a, b}), ErrorAt(10)>>,
        Segment(2, 1, 11), Segment(2, 1, 11)),
    \* Inputs, an assumption and a condition; the releases without yields of
    \* the mode that leaves the schedule free.
    inputs |-> Only(
        <<Final(2), NewThread(1, a, 0, 1), Pinned(2, 1, 0, x, 1),
          Assume(1, 0, x, 1), BranchOn(3, x, 1, 6, 7), Release(1, 0),
          Choice(4, 8, 9), Assume(2, 0, y, 1), ErrorAt(10)>>,
        <<Plain(11), Release(0, 1), Assign(12, y, 1)>>, <<>>) ]

MCScripts == DOMAIN MCCode

=============================================================================
