-------------------------- MODULE ConcurrentHarness --------------------------
(***************************************************************************)
(* The run time of an instrumented program (src/svcomp.c): the segment      *)
(* counter, the mutex and the condition variable behind yield and release, *)
(* the guards that consult the counter without the mutex, the thread       *)
(* proxy that gives a spawned thread its logical id, reach_error() and the *)
(* ways the process ends.  The granularity is that of the C code: one step *)
(* per mutex operation, condition variable operation and access of the     *)
(* atomic counter.  A statement of the program under test is one step.     *)
(*                                                                         *)
(* The program itself is data.  script names one of the instrumented       *)
(* programs Code, fixed in the initial state, so one run of TLC checks a   *)
(* family of programs.  A thread is the sequence of its instructions.      *)
(***************************************************************************)
EXTENDS Instructions

CONSTANTS
    Main,      \* the thread that runs main()
    NoThread,  \* the owner of the mutex when it is free
    Scripts,   \* names of programs
    Code       \* Code[s][t]: what thread t of program s runs

ASSUME ThreadsAssumption == Main \in Threads /\ NoThread \notin Threads
ASSUME CodeAssumption == Code \in [Scripts -> [Threads -> Seq(Instruction)]]

VARIABLES
    script,     \* the program that runs
    pc,         \* where a thread is: in its program or in a call of the harness
    ip,         \* the instruction of its program it is at
    ltid,       \* c2tt_logical_tid, thread-local
    cursor,     \* the link of the ?: chain a pthread_create has got to
    counter,    \* c2tt_global_counter
    once,       \* c2tt_once: "fresh", "running" or "ready"
    owner,      \* the thread that holds c2tt_mtx
    finalSlot,  \* c2tt_expected_final_slot
    mem,        \* the variables of the program
    reported,   \* "Reached error!" is on stdout
    exitCode,   \* -1 while the process runs
    events      \* history: statements executed, guards that matched or not,
                \* ids handed out

threadVars == <<pc, ip, ltid, cursor>>
syncVars == <<counter, once, owner>>
outputVars == <<reported, exitCode>>
vars == <<script, threadVars, syncVars, finalSlot, mem, outputVars, events>>

Running == -1
Unnumbered == -1

-----------------------------------------------------------------------------
(* The program counter of a thread.                                        *)

\* Inside of yield or release, the mutex held.
Critical == {"check", "bcast", "test", "wait", "store", "signal", "unlock"}

\* Inside of yield or release.
InCall == Critical \union {"once", "init", "lock", "asleep", "wake"}

Labels == InCall \union
    {"unborn", "proxy", "run", "judgeMatches", "judgeHolds",
     "report", "exit74", "done"}

Here(t) == Code[script][t][ip[t]]

\* Thread t is about to run an instruction of the given kind.
At(t, op) ==
    /\ exitCode = Running
    /\ pc[t] = "run"
    /\ ip[t] \in DOMAIN Code[script][t]
    /\ Here(t).op = op

In(t, label) == exitCode = Running /\ pc[t] = label

Goto(t, label) == pc' = [pc EXCEPT ![t] = label]

\* Thread t goes on with the instruction at i.
ResumeAt(t, i) == Goto(t, "run") /\ ip' = [ip EXCEPT ![t] = i]
Resume(t) == ResumeAt(t, ip[t] + 1)

\* The statement t is at has been executed; a jump has no line.
Executed(t) ==
    IF Here(t).line = 0 THEN {} ELSE {<<"stmt", ltid[t], Here(t).line>>}

-----------------------------------------------------------------------------
(* yield and release.                                                      *)

\* Both return at once on a thread other than the one they are meant for.
EnterCall(t) ==
    /\ At(t, "yield") \/ At(t, "release")
    /\ IF ltid[t] # Here(t).tid
         THEN Resume(t)
         ELSE Goto(t, "once") /\ UNCHANGED ip
    /\ UNCHANGED <<script, ltid, cursor, syncVars, finalSlot, mem, outputVars,
                   events>>

\* Mutant: a second thread does not wait for the first.
CallOnceHasty(t) ==
    /\ In(t, "once")
    /\ Goto(t, IF once = "fresh" THEN "init" ELSE "lock")
    /\ once' = IF once = "fresh" THEN "running" ELSE once
    /\ UNCHANGED <<script, ip, ltid, cursor, counter, owner, finalSlot, mem,
                   outputVars, events>>

\* call_once: the first thread runs c2tt_initialize(), any other blocks in
\* the call until that is done.
CallOnce(t) ==
    /\ In(t, "once")
    /\ once # "running"
    /\ Goto(t, IF once = "fresh" THEN "init" ELSE "lock")
    /\ once' = IF once = "fresh" THEN "running" ELSE once
    /\ UNCHANGED <<script, ip, ltid, cursor, counter, owner, finalSlot, mem,
                   outputVars, events>>

\* mtx_init, cnd_init.
Initialize(t) ==
    /\ In(t, "init")
    /\ Goto(t, "lock")
    /\ once' = "ready"
    /\ UNCHANGED <<script, ip, ltid, cursor, counter, owner, finalSlot, mem,
                   outputVars, events>>

Lock(t) ==
    /\ In(t, "lock")
    /\ owner = NoThread
    /\ owner' = t
    /\ Goto(t, "check")
    /\ UNCHANGED <<script, ip, ltid, cursor, counter, once, finalSlot, mem,
                   outputVars, events>>

\* Mutant: the segment before is enough.
YieldGoesOnEarly(t) == counter >= Here(t).slot - 1

\* yield's early return: the segment is due already.
YieldGoesOn(t) == counter >= Here(t).slot

\* Mutants: no early return, and one that is taken in the segment itself.
ReleaseIsNeverLate(t) == FALSE
ReleaseIsLateAtOnce(t) == counter >= Here(t).slot

\* release's early return: the counter is past the segment already.
ReleaseIsLate(t) == counter > Here(t).slot

Check(t) ==
    /\ In(t, "check")
    /\ Goto(t, IF Here(t).op = "yield"
                  THEN IF YieldGoesOn(t) THEN "unlock" ELSE "bcast"
                  ELSE IF ReleaseIsLate(t) THEN "unlock" ELSE "store")
    /\ UNCHANGED <<script, ip, ltid, cursor, syncVars, finalSlot, mem,
                   outputVars, events>>

\* cnd_broadcast: every thread asleep has to get the mutex back now.
Wake(t, label) ==
    pc' = [u \in Threads |-> CASE u = t -> label
                               [] u # t /\ pc[u] = "asleep" -> "wake"
                               [] OTHER -> pc[u]]

\* yield's broadcast before it waits, which tells nobody anything new.
Announce(t) ==
    /\ In(t, "bcast")
    /\ Wake(t, "test")
    /\ UNCHANGED <<script, ip, ltid, cursor, syncVars, finalSlot, mem,
                   outputVars, events>>

\* Mutant: yield waits for the segment behind its own.
TestTooFar(t) ==
    /\ In(t, "test")
    /\ Goto(t, IF counter <= Here(t).slot THEN "wait" ELSE "unlock")
    /\ UNCHANGED <<script, ip, ltid, cursor, syncVars, finalSlot, mem,
                   outputVars, events>>

\* The condition of yield's while loop, evaluated with the mutex held.
Test(t) ==
    /\ In(t, "test")
    /\ Goto(t, IF counter < Here(t).slot THEN "wait" ELSE "unlock")
    /\ UNCHANGED <<script, ip, ltid, cursor, syncVars, finalSlot, mem,
                   outputVars, events>>

\* cnd_wait gives up the mutex and sleeps in one step ...
Wait(t) ==
    /\ In(t, "wait")
    /\ owner' = NoThread
    /\ Goto(t, "asleep")
    /\ UNCHANGED <<script, ip, ltid, cursor, counter, once, finalSlot, mem,
                   outputVars, events>>

\* ... may wake up though nobody has signalled ...
SpuriousWakeup(t) ==
    /\ In(t, "asleep")
    /\ Goto(t, "wake")
    /\ UNCHANGED <<script, ip, ltid, cursor, syncVars, finalSlot, mem,
                   outputVars, events>>

\* Mutant: an if in the place of the while.
ReacquireOnce(t) ==
    /\ In(t, "wake")
    /\ owner = NoThread
    /\ owner' = t
    /\ Goto(t, "unlock")
    /\ UNCHANGED <<script, ip, ltid, cursor, counter, once, finalSlot, mem,
                   outputVars, events>>

\* ... and returns with the mutex held, to evaluate the condition again.
Reacquire(t) ==
    /\ In(t, "wake")
    /\ owner = NoThread
    /\ owner' = t
    /\ Goto(t, "test")
    /\ UNCHANGED <<script, ip, ltid, cursor, counter, once, finalSlot, mem,
                   outputVars, events>>

\* Mutant: release stores the segment before its own.
StoreBack(t) ==
    /\ In(t, "store")
    /\ counter' = Here(t).slot - 1
    /\ Goto(t, "signal")
    /\ UNCHANGED <<script, ip, ltid, cursor, once, owner, finalSlot, mem,
                   outputVars, events>>

\* release passes the segment on ...
Store(t) ==
    /\ In(t, "store")
    /\ counter' = Here(t).slot + 1
    /\ Goto(t, "signal")
    /\ UNCHANGED <<script, ip, ltid, cursor, once, owner, finalSlot, mem,
                   outputVars, events>>

\* Mutant: no broadcast behind the store.
SignalNobody(t) ==
    /\ In(t, "signal")
    /\ Goto(t, "unlock")
    /\ UNCHANGED <<script, ip, ltid, cursor, syncVars, finalSlot, mem,
                   outputVars, events>>

\* ... and only then wakes the threads that wait for one.
Signal(t) ==
    /\ In(t, "signal")
    /\ Wake(t, "unlock")
    /\ UNCHANGED <<script, ip, ltid, cursor, syncVars, finalSlot, mem,
                   outputVars, events>>

Unlock(t) ==
    /\ In(t, "unlock")
    /\ owner' = NoThread
    /\ Resume(t)
    /\ UNCHANGED <<script, ltid, cursor, counter, once, finalSlot, mem,
                   outputVars, events>>

-----------------------------------------------------------------------------
(* The guards, which load the counter without taking the mutex.            *)

ShouldUseAssumed(t, slot, tid) == counter = slot /\ ltid[t] = tid

Matches(t) == ShouldUseAssumed(t, Here(t).slot, Here(t).tid)
Holds(t) == mem[Here(t).var] = Here(t).val

\* The links of a pin behind its first one, for this thread and in this segment.
DueLinks(t) ==
    {c \in DOMAIN Here(t).alts : ShouldUseAssumed(t, Here(t).alts[c].slot, Here(t).alts[c].tid)}

MeantFor(t) ==
    ltid[t] \in {Here(t).tid} \union {Here(t).alts[c].tid : c \in DOMAIN Here(t).alts}

\* The guard of t's instruction was, or was not, in its segment.  A thread
\* that the guard is not meant for leaves no trace.
Consulted(t) ==
    IF MeantFor(t)
      THEN {<<IF Matches(t) \/ DueLinks(t) # {} THEN "match" ELSE "miss", ltid[t], Here(t).slot>>}
      ELSE {}

\* assume(matches, holds) is a call, so C evaluates its two arguments in
\* either order, with steps of other threads in between.  Once one of them
\* has let the thread off, the other has no effect.
AssumeFirstArgument(t) ==
    /\ At(t, "assume")
    /\ \/ /\ IF Matches(t) THEN Goto(t, "judgeHolds") /\ UNCHANGED ip
                           ELSE Resume(t)
          /\ events' = events \union Consulted(t)
       \/ /\ IF Holds(t) THEN Resume(t)
                         ELSE Goto(t, "judgeMatches") /\ UNCHANGED ip
          /\ events' = events \union (IF Holds(t) THEN Consulted(t) ELSE {})
    /\ UNCHANGED <<script, ltid, cursor, syncVars, finalSlot, mem, outputVars>>

SecondObjects(t) == IF pc[t] = "judgeMatches" THEN Matches(t) ELSE ~Holds(t)

\* The execution is not the one the witness describes: exit(0).
AssumeSecondArgument(t) ==
    /\ In(t, "judgeMatches") \/ In(t, "judgeHolds")
    /\ IF SecondObjects(t)
         THEN exitCode' = 0 /\ UNCHANGED <<pc, ip>>
         ELSE Resume(t) /\ UNCHANGED exitCode
    /\ events' = events \union
         (IF pc[t] = "judgeMatches" THEN Consulted(t) ELSE {})
    /\ UNCHANGED <<script, ltid, cursor, syncVars, finalSlot, mem, reported>>

\* x = should_use_assumed(slot, tid) ? val : .. : __VERIFIER_nondet_int(), where
\* the stub the program is linked with returns 0.  The loads of a chain are one
\* step: neither its slots nor the counter go down, so what several loads find
\* is so at a moment among them.  (Of links for one segment the first stands for
\* all.)
Pin(t) ==
    /\ At(t, "pin")
    /\ \/ /\ Matches(t)
          /\ mem' = [mem EXCEPT ![Here(t).var] = Here(t).val]
       \/ /\ ~Matches(t)
          /\ \E c \in DueLinks(t) :
               /\ \A d \in DueLinks(t) : c <= d
               /\ mem' = [mem EXCEPT ![Here(t).var] = Here(t).alts[c].id]
       \/ /\ ~Matches(t) /\ DueLinks(t) = {}
          /\ mem' = [mem EXCEPT ![Here(t).var] = 0]
    /\ Resume(t)
    /\ events' = events \union Consulted(t) \union Executed(t)
    /\ UNCHANGED <<script, ltid, cursor, syncVars, finalSlot, outputVars>>

-----------------------------------------------------------------------------
(* The rest of an instrumented program.                                    *)

\* __c2tt_set_expected_final_slot, the first statement of __c2tt_main.
SetFinalSlot(t) ==
    /\ At(t, "final")
    /\ finalSlot' = Here(t).slot
    /\ Resume(t)
    /\ UNCHANGED <<script, ltid, cursor, syncVars, mem, outputVars, events>>

\* A statement of the program, which may assign a variable.
Statement(t) ==
    /\ At(t, "stmt")
    /\ mem' = IF Here(t).var = NoVar
                THEN mem ELSE [mem EXCEPT ![Here(t).var] = Here(t).val]
    /\ Resume(t)
    /\ events' = events \union Executed(t)
    /\ UNCHANGED <<script, ltid, cursor, syncVars, finalSlot, outputVars>>

\* A condition about a variable, or about what the model leaves out.
Branch(t) ==
    /\ At(t, "branch")
    /\ \/ (Here(t).var \in Vars => Holds(t)) /\ ResumeAt(t, Here(t).yes)
       \/ (Here(t).var \in Vars => ~Holds(t)) /\ ResumeAt(t, Here(t).no)
    /\ events' = events \union Executed(t)
    /\ UNCHANGED <<script, ltid, cursor, syncVars, finalSlot, mem, outputVars>>

\* The link of the chain t has got to is for this thread, in this segment.
CreatesNumbered(t) ==
    LET alt == Here(t).alts[cursor[t]]
    IN  ShouldUseAssumed(t, alt.slot, alt.tid)

\* pthread_create(.., __c2tt_thread_proxy, __c2tt_make_thread_arg(f, arg, id))
\* evaluates the chain of alternatives for id one load at a time.
TryAlternative(t) ==
    /\ At(t, "create")
    /\ cursor[t] <= Len(Here(t).alts)
    /\ ~CreatesNumbered(t)
    /\ cursor' = [cursor EXCEPT ![t] = @ + 1]
    /\ UNCHANGED <<script, pc, ip, ltid, syncVars, finalSlot, mem, outputVars,
                   events>>

NewId(t) ==
    IF cursor[t] <= Len(Here(t).alts)
      THEN Here(t).alts[cursor[t]].id ELSE Unnumbered

\* The id that t hands out, and the segment in which it does.
Numbered(t) ==
    IF NewId(t) = Unnumbered THEN {} ELSE {<<"create", NewId(t), counter>>}

\* The first alternative whose turn it is, and -1 when it is nobody's.
Create(t) ==
    /\ At(t, "create")
    /\ cursor[t] <= Len(Here(t).alts) => CreatesNumbered(t)
    /\ \E child \in Here(t).children :
         /\ pc[child] = "unborn"
         /\ pc' = [pc EXCEPT ![child] = "proxy"]
         /\ ltid' = [ltid EXCEPT ![child] = NewId(t)]
    /\ ip' = [ip EXCEPT ![t] = @ + 1]
    /\ cursor' = [cursor EXCEPT ![t] = 1]
    /\ events' = events \union Executed(t) \union Numbered(t)
    /\ UNCHANGED <<script, syncVars, finalSlot, mem, outputVars>>

\* The new thread takes its logical id from the argument block, which only
\* it reads (ltid holds it from Create on), and enters its start routine.
ThreadProxy(t) ==
    /\ In(t, "proxy")
    /\ Goto(t, "run")
    /\ UNCHANGED <<script, ip, ltid, cursor, syncVars, finalSlot, mem,
                   outputVars, events>>

Join(t) ==
    /\ At(t, "join")
    /\ \A child \in Here(t).children : pc[child] = "done"
    /\ Resume(t)
    /\ events' = events \union Executed(t)
    /\ UNCHANGED <<script, ltid, cursor, syncVars, finalSlot, mem, outputVars>>

\* Mutant: every error counts.
ReachAnyError(t) ==
    /\ At(t, "error")
    /\ Goto(t, "report")
    /\ events' = events \union Executed(t)
    /\ UNCHANGED <<script, ip, ltid, cursor, syncVars, finalSlot, mem, outputVars>>

\* reach_error() returns when the segments have not all been passed.
ReachError(t) ==
    /\ At(t, "error")
    /\ IF finalSlot >= 0 /\ counter # finalSlot
         THEN Resume(t)
         ELSE Goto(t, "report") /\ UNCHANGED ip
    /\ events' = events \union Executed(t)
    /\ UNCHANGED <<script, ltid, cursor, syncVars, finalSlot, mem, outputVars>>

\* What is printed is seen even if another thread exits first: exit flushes.
Report(t) ==
    /\ In(t, "report")
    /\ reported' = TRUE
    /\ Goto(t, "exit74")
    /\ UNCHANGED <<script, ip, ltid, cursor, syncVars, finalSlot, mem, exitCode,
                   events>>

ExitWithError(t) ==
    /\ In(t, "exit74")
    /\ exitCode' = 74
    /\ UNCHANGED <<script, threadVars, syncVars, finalSlot, mem, reported, events>>

\* The start routine, or __c2tt_main before main's pthread_exit, returns.
Finish(t) ==
    /\ In(t, "run")
    /\ ip[t] \notin DOMAIN Code[script][t]
    /\ Goto(t, "done")
    /\ UNCHANGED <<script, ip, ltid, cursor, syncVars, finalSlot, mem,
                   outputVars, events>>

\* main has called pthread_exit, so the last thread to end ends the process.
ProcessEnds ==
    /\ exitCode = Running
    /\ \A t \in Threads : pc[t] \in {"unborn", "done"}
    /\ exitCode' = 0
    /\ UNCHANGED <<script, threadVars, syncVars, finalSlot, mem, reported, events>>

-----------------------------------------------------------------------------

Init ==
    /\ script \in Scripts
    /\ pc = [t \in Threads |-> IF t = Main THEN "run" ELSE "unborn"]
    /\ ip = [t \in Threads |-> 1]
    /\ ltid = [t \in Threads |-> IF t = Main THEN 0 ELSE Unnumbered]
    /\ cursor = [t \in Threads |-> 1]
    /\ counter = 0
    /\ once = "fresh"
    /\ owner = NoThread
    /\ finalSlot = -1
    /\ mem = [v \in Vars |-> 0]
    /\ reported = FALSE
    /\ exitCode = Running
    /\ events = {}

\* A step of thread t that its code takes when it is scheduled.
Step(t) ==
    \/ EnterCall(t) \/ CallOnce(t) \/ Initialize(t) \/ Lock(t)
    \/ Check(t) \/ Announce(t) \/ Test(t) \/ Wait(t) \/ Reacquire(t)
    \/ Store(t) \/ Signal(t) \/ Unlock(t)
    \/ AssumeFirstArgument(t) \/ AssumeSecondArgument(t) \/ Pin(t)
    \/ SetFinalSlot(t) \/ Statement(t) \/ Branch(t)
    \/ TryAlternative(t) \/ Create(t) \/ ThreadProxy(t) \/ Join(t)
    \/ ReachError(t) \/ Report(t) \/ ExitWithError(t) \/ Finish(t)

\* The process has exited: the one way this system may stop.
Exited == exitCode # Running /\ UNCHANGED vars

Next ==
    \/ \E t \in Threads : Step(t) \/ SpuriousWakeup(t)
    \/ ProcessEnds
    \/ Exited

\* The scheduler runs every thread that can run, and a thread that asks for
\* the mutex again and again gets it.  Nothing makes a spurious wakeup happen.
Fairness ==
    /\ WF_vars(ProcessEnds)
    /\ \A t \in Threads : WF_vars(Step(t)) /\ SF_vars(Lock(t) \/ Reacquire(t))

SafeSpec == Init /\ [][Next]_vars
Spec == SafeSpec /\ Fairness

\* The one way to the instructions behind d, up to e, is over instruction d: no
\* branch leads there from elsewhere.
OnlyWay(s, t, d, e) ==
    \A n \in DOMAIN Code[s][t] \ (d..e) : Code[s][t][n].op = "branch" =>
        Code[s][t][n].yes \notin (d + 1)..e /\ Code[s][t][n].no \notin (d + 1)..e

\* Thread t gets to instruction i only over instruction d.
LeadsTo(s, t, d, i) == d < i /\ \E e \in i..Len(Code[s][t]) : OnlyWay(s, t, d, e)

IsYield(s, t, d, slot, tid) ==
    Code[s][t][d].op = "yield" /\ Code[s][t][d].slot = slot /\ Code[s][t][d].tid = tid

\* Instruction i of thread t comes behind a yield for the slot and the thread.
BehindYield(s, t, i, slot, tid) ==
    \E d \in DOMAIN Code[s][t] : LeadsTo(s, t, d, i) /\ IsYield(s, t, d, slot, tid)

\* Every release comes behind its yield, be it in a branch or in a loop: what
\* insert_schedule_point in witness2ast.py makes of the schedule points of a
\* program, its blocking yields included.
Disciplined(s) ==
    \A t \in Threads : \A i \in DOMAIN Code[s][t] :
        Code[s][t][i].op = "release" =>
          BehindYield(s, t, i, Code[s][t][i].slot, Code[s][t][i].tid)

-----------------------------------------------------------------------------
(* Properties.                                                             *)

\* What happened, on or to which logical thread, at which line or in which slot.
Event == {"stmt", "match", "miss", "create"} \X Int \X Nat

TypeOK ==
    /\ script \in Scripts
    /\ pc \in [Threads -> Labels]
    /\ ip \in [Threads -> Nat]
    /\ ltid \in [Threads -> Int]
    /\ cursor \in [Threads -> Nat \ {0}]
    /\ counter \in Nat
    /\ once \in {"fresh", "running", "ready"}
    /\ owner \in Threads \union {NoThread}
    /\ finalSlot \in Int
    /\ mem \in [Vars -> Int]
    /\ reported \in BOOLEAN
    /\ exitCode \in {Running, 0, 74}
    /\ events \subseteq Event

\* A thread is left asleep in cnd_wait with its segment due only while the
\* thread that made it due is still on its way to the broadcast.  (The wait
\* loop of yield, and release's store and broadcast under one mutex.)
NoLostWakeup ==
    \A t \in Threads : pc[t] = "asleep" /\ counter >= Here(t).slot =>
        \E u \in Threads : pc[u] = "signal"

\* However it was woken, a thread leaves yield only in or after the segment
\* it waited for.  (The early return and the while loop of yield.)
YieldReturnsDue ==
    \A t \in Threads : pc[t] = "unlock" /\ Here(t).op = "yield" =>
        counter >= Here(t).slot

\* No step moves the segment counter back, not even a release that was
\* checked before another thread's: a thread let through stays let through.
CounterMonotone == [][counter' >= counter]_vars

\* A program whose releases all stand behind their yields passes on one
\* segment at a time: no thread is let through to a segment whose
\* predecessor has not been released.
NoSegmentSkipped ==
    [][Disciplined(script) => counter' \in {counter, counter + 1}]_vars

\* Behind the calls is the gate that SegmentGate specifies: a thread arrives
\* when it enters yield and passes when it gives the mutex up for good.
Waiting ==
    [t \in Threads |->
       IF pc[t] \in InCall /\ Here(t).op = "yield" THEN Here(t).slot ELSE -1]

Gate == INSTANCE SegmentGate
          WITH Free <- -1, segment <- counter, waiting <- Waiting,
               halted <- exitCode # Running

ImplementsGateSafely == Gate!SafeSpec
ImplementsGate == Gate!Spec

\* A program that the schedule does not contradict runs to its end.
Terminates == <>(exitCode # Running)

\* An initialised mutex is the only one that is ever locked, and it is
\* initialised once.  (call_once at the head of both calls.)
OneInitialization ==
    /\ \A t \in Threads : pc[t] \in InCall \ {"once", "init"} => once = "ready"
    /\ \A t, u \in Threads : pc[t] = "init" /\ pc[u] = "init" => t = u

=============================================================================
