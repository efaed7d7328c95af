----------------------------- MODULE SegmentGate -----------------------------
(***************************************************************************)
(* What the schedule calls of src/svcomp.c promise to an instrumented      *)
(* program: one counter of passed segments, at which a thread waits for    *)
(* the segment it is due in.  __concurrentwit2test_yield(k, _) lets a       *)
(* thread through only once the counter has reached k, and lets it through *)
(* eventually; __concurrentwit2test_release(k, _) moves the counter to      *)
(* k + 1 and never moves it back.  There is no mutex, no condition         *)
(* variable and no logical thread id here: ConcurrentHarness has those,    *)
(* and implements this module.                                             *)
(***************************************************************************)
EXTENDS Integers

CONSTANTS
    Threads,  \* the threads of the instrumented program
    Slots,    \* the numbers of the segments, natural numbers
    Free      \* what "waiting" holds for a thread outside of a yield: no slot

VARIABLES
    segment,  \* the number of segments passed so far
    waiting,  \* waiting[t]: the segment t has asked for and not got yet
    halted    \* the process has exited, and its threads with it

gateVars == <<segment, waiting, halted>>

GateTypeOK ==
    /\ segment \in Nat
    /\ waiting \in [Threads -> Slots \union {Free}]
    /\ halted \in BOOLEAN

Init ==
    /\ segment = 0
    /\ waiting = [t \in Threads |-> Free]
    /\ halted = FALSE

\* Thread t asks to be let through to segment k.
Arrive(t, k) ==
    /\ ~halted
    /\ waiting[t] = Free
    /\ waiting' = [waiting EXCEPT ![t] = k]
    /\ UNCHANGED <<segment, halted>>

\* Thread t goes on, its segment being due.
Pass(t) ==
    /\ ~halted
    /\ waiting[t] # Free
    /\ segment >= waiting[t]
    /\ waiting' = [waiting EXCEPT ![t] = Free]
    /\ UNCHANGED <<segment, halted>>

\* Segment k is over: a counter that is past k already stays where it is.
Advance(k) ==
    /\ ~halted
    /\ segment <= k
    /\ segment' = k + 1
    /\ UNCHANGED <<waiting, halted>>

\* The process exits, whoever is waiting.
Halt ==
    /\ ~halted
    /\ halted' = TRUE
    /\ UNCHANGED <<segment, waiting>>

Next ==
    \/ \E t \in Threads : Pass(t) \/ \E k \in Slots : Arrive(t, k)
    \/ \E k \in Slots : Advance(k)
    \/ Halt

\* A thread whose segment is due is let through: no wakeup is lost.
Fairness == \A t \in Threads : WF_gateVars(Pass(t))

SafeSpec == Init /\ [][Next]_gateVars
Spec == SafeSpec /\ Fairness

=============================================================================
