---------------------------- MODULE HappensBefore ----------------------------
(***************************************************************************)
(* The execution of a program that is instrumented for the witness of a    *)
(* data race, as ThreadSanitizer sees it (the program is compiled with     *)
(* -fsanitize=thread): what happens before what, by the synchronisation    *)
(* that the program and the harness do.  A thread knows what happens       *)
(* before its next step, and leaves that behind for the next one to come.  *)
(***************************************************************************)
EXTENDS Replay

VARIABLES
    knows,  \* the events that happen before the next step of a thread
    left,   \* what a thread learns from the mutex, the counter and call_once
    before  \* pairs of events: the first happens before the second

hbVars == <<knows, left, before>>

LoadsCounter(t) ==
    \/ pc[t] \in {"check", "test", "judgeMatches"}
    \/ pc[t] = "run" /\ ip[t] \in DOMAIN Code[script][t]
         /\ Here(t).op \in {"assume", "pin", "create", "error"}

Joined(t) ==
    IF pc[t] = "run" /\ ip[t] \in DOMAIN Code[script][t] /\ Here(t).op = "join"
      THEN Here(t).children ELSE {}

\* What thread t learns from the others in this step.
Learned(t) ==
    (IF owner # t /\ owner' = t THEN left.mutex ELSE {})
      \cup (IF LoadsCounter(t) THEN left.counter ELSE {})
      \cup (IF pc[t] = "once" /\ once = "ready" THEN left.once ELSE {})
      \cup UNION {knows[child] : child \in Joined(t)}

\* Kept of the executions that have racing accesses: nothing is said of others.
News == IF ThisCase.targets = {} THEN {} ELSE events' \ events
Known(t) == knows[t] \cup Learned(t)

\* A created thread knows what its creator does.
Learn(t) ==
    knows' = [u \in Threads |->
                IF u = t \/ (pc[u] = "unborn" /\ pc'[u] # "unborn")
                  THEN Known(t) \cup News ELSE knows[u]]

Leave(t) ==
    left' = [mutex   |-> IF owner = t /\ owner' # t THEN knows'[t] ELSE left.mutex,
             counter |-> IF pc[t] = "store" THEN knows'[t] ELSE left.counter,
             once    |-> IF pc[t] = "init" THEN knows'[t] ELSE left.once]

Order(t) == before' = before \cup Known(t) \X News

HBInit ==
    /\ Init
    /\ knows = [t \in Threads |-> {}]
    /\ left = [mutex |-> {}, counter |-> {}, once |-> {}]
    /\ before = {}

HBNext ==
    \/ \E t \in Threads : Step(t) /\ Learn(t) /\ Leave(t) /\ Order(t)
    \/ /\ (\E t \in Threads : SpuriousWakeup(t)) \/ ProcessEnds \/ Exited
       /\ UNCHANGED hbVars

HBSafeSpec == HBInit /\ [][HBNext]_<<vars, hbVars>>
HBSpec == HBSafeSpec /\ Fairness

\* The racing accesses stand behind the schedule: each turn is closed, and an
\* access comes behind the yield of a later one, or behind the statement of the
\* turn on its own thread.
RacesInTurn(s) ==
    /\ Disciplined(s)
    /\ \A p \in Cases[s].points \ Cases[s].targets :
         /\ ThreadAt(s, p) >= 0 /\ Closed(s, p)
         /\ \A j \in Cases[s].targets : \A t \in Threads : \A i \in DOMAIN Code[s][t] :
              Code[s][t][i].line = LineAt(s, j) =>
                \/ \E slot \in Slots :
                     TurnOf(s, p) < slot /\ BehindYield(s, t, i, slot, ThreadAt(s, j))
                \/ ThreadAt(s, p) = ThreadAt(s, j) /\ BehindLine(s, t, i, LineAt(s, p))

\* From instruction i on, nothing that thread t knows gets to another thread, or
\* to instructions before.
SilentFrom(s, t, i) ==
    \A n \in DOMAIN Code[s][t] : n >= i =>
      /\ Code[s][t][n].op \notin {"yield", "release", "create"}
      /\ Code[s][t][n].op = "branch" =>
           Code[s][t][n].yes \notin 1..(i - 1) /\ Code[s][t][n].no \notin 1..(i - 1)

Accesses(s, t) ==
    {i \in DOMAIN Code[s][t] : \E p \in Cases[s].targets : Code[s][t][i].line = LineAt(s, p)}
Joins(s, t) == {i \in DOMAIN Code[s][t] : Code[s][t][i].op = "join"}

\* Two threads access, each with nothing behind that synchronises it, and one
\* that may be joined for it has its own access behind it.
RacesApart(s) ==
    /\ \A p, q \in Cases[s].targets : ThreadAt(s, p) = ThreadAt(s, q) => p = q
    /\ \A t \in Threads :
         /\ \A i \in Accesses(s, t) : SilentFrom(s, t, i)
         /\ \A i \in Joins(s, t) :
              \/ \A child \in Code[s][t][i].children :
                   Accesses(s, child) = {} /\ Joins(s, child) = {}
              \/ SilentFrom(s, t, i) /\ \A n \in Accesses(s, t) : n < i

-----------------------------------------------------------------------------
(* Properties.                                                             *)

HappensBefore(i, j) == <<ThisCase.happened[i], ThisCase.happened[j]>> \in before

\* Neither of the racing accesses happens before the other.
NothingOrdersRace == \A i, j \in ThisCase.targets : ~HappensBefore(i, j)

\* In every execution both racing accesses come, and nothing orders them, so
\* that the sanitizer reports the race, when the threads are created in time
\* for their turns.  (README.md:19: the racing pair is
\* "deliberately *not* synchronized by the instrumentation", which "would
\* establish a happens-before edge and hide the very race"; example/README.md:17:
\* the expected verdict is ALWAYS.)
RaceShown ==
    ThisCase.inTime => <>(NothingOrdersRace /\ \A i \in ThisCase.targets : Happened(i))

\* The race is one at the end of the schedule: whatever the witness orders before
\* it happens before both accesses, for the sanitizer as well.  ("The accesses
\* only wait for the preceding segments.")
RaceBehindSchedule ==
    \A i \in ThisCase.points \ ThisCase.targets, j \in ThisCase.targets :
        Happened(j) => HappensBefore(i, j)

=============================================================================
