------------------------------- MODULE Replay -------------------------------
(***************************************************************************)
(* The execution of an instrumented program (ConcurrentHarness) against    *)
(* what its witness says: a script is a case, the program with what the    *)
(* witness makes of it.  WitnessReplay has the cases the tool produces.    *)
(***************************************************************************)
EXTENDS ConcurrentHarness, FiniteSets

CONSTANT Cases  \* what CaseOf makes of a program and a witness, for every script

ASSUME CasesAssumption ==
    /\ Cases \in [Scripts -> [code : [Threads -> Seq(Instruction)],
                              accepted : BOOLEAN, createdAt : [Threads -> Nat],
                              lines : Seq(Nat), happened : Seq({"stmt"} \X Int \X Nat),
                              points : SUBSET Nat, creations : SUBSET Nat,
                              targets : SUBSET Nat, inTime : BOOLEAN,
                              atChanges : SUBSET (Int \X Nat)]]
    /\ \A s \in Scripts : Cases[s].points \cup Cases[s].targets \subseteq
                            DOMAIN Cases[s].happened

ThisCase == Cases[script]
Happened(i) == ThisCase.happened[i] \in events

\* What main.py makes of the execution when it has ended.
Driver == INSTANCE Validation WITH
            Runs <- 1, mode <- "normal", property <- "reach", phase <- "execute", run <- 0,
            codes <- <<>>, verdicts <- <<>>, status <- 1, outcomes <- <<>>
Counted == Driver!ReachedError([code |-> exitCode, printed |-> reported, report |-> FALSE])

-----------------------------------------------------------------------------
(* Where the calls of an instrumented program stand, for the points of its *)
(* witness at which another thread goes on.                                *)

ThreadAt(s, p) == Cases[s].happened[p][2]
LineAt(s, p) == Cases[s].happened[p][3]

\* The segment that begins at p: one for each point before it, but for the
\* accesses of a race.
TurnOf(s, p) == Cardinality({q \in Cases[s].points \ Cases[s].targets : q < p})

\* What leaves a trace when it is executed.
Traced == {"pin", "stmt", "branch", "create", "join", "error"}

BehindLine(s, t, i, line) ==
    \E d \in DOMAIN Code[s][t] : LeadsTo(s, t, d, i) /\
       Code[s][t][d].op \in Traced /\ Code[s][t][d].line = line

\* The statement of p comes behind the yield of its turn.
Opened(s, p) ==
    \A t \in Threads : \A i \in DOMAIN Code[s][t] : Code[s][t][i].line = LineAt(s, p) =>
        BehindYield(s, t, i, TurnOf(s, p), ThreadAt(s, p))

\* The turn of p ends behind its statement.  (insert_schedule_point puts the
\* release there unless the statement is a block, has a call or returns.)
Closed(s, p) ==
    /\ LineAt(s, p) # 0
    /\ \A t \in Threads : \A i \in DOMAIN Code[s][t] :
         Code[s][t][i].op = "release" /\ Code[s][t][i].slot = TurnOf(s, p) =>
           Code[s][t][i].tid = ThreadAt(s, p) /\ BehindLine(s, t, i, LineAt(s, p))

\* Every turn is opened, and closed if another one follows.
TakesTurns(s) ==
    /\ Disciplined(s)
    /\ \A p \in Cases[s].points :
         /\ Opened(s, p)
         /\ (\E q \in Cases[s].points : p < q) => Closed(s, p) /\ p \notin Cases[s].targets

\* An error counts behind every turn of the witness: main begins by setting
\* the final slot, which is past all of the turns before the target.
CountsTurns(s) ==
    /\ Disciplined(s)
    /\ Code[s][Main] # <<>> /\ Code[s][Main][1].op = "final"
    /\ \A t \in Threads : \A i \in DOMAIN Code[s][t] : Code[s][t][i].op = "final" =>
         Code[s][t][i].slot = Code[s][Main][1].slot
    /\ \A p \in Cases[s].points : p < Len(Cases[s].happened) =>
         Closed(s, p) /\ TurnOf(s, p) < Code[s][Main][1].slot

\* No loop leads thread t back over instruction i.
NoWayBack(s, t, i) ==
    \A n \in DOMAIN Code[s][t] : n > i /\ Code[s][t][n].op = "branch" =>
        Code[s][t][n].yes > i /\ Code[s][t][n].no > i

\* A call that may hand out a number.
HandsOut(s, t, i, id) ==
    /\ Code[s][t][i].op = "create"
    /\ \E c \in DOMAIN Code[s][t][i].alts : Code[s][t][i].alts[c].id = id

\* A number, counted from 1, is handed out in one segment, by one logical thread
\* and at calls that create the same threads, those of one statement.  (CreateStep.)
NumbersApart(s) ==
    \A t \in Threads : \A i \in DOMAIN Code[s][t] : \A c \in DOMAIN Code[s][t][i].alts :
      Code[s][t][i].op = "create" =>
        LET link == Code[s][t][i].alts[c]
        IN  /\ link.id > 0
            /\ \A u \in Threads : \A j \in DOMAIN Code[s][u] :
                 \A d \in DOMAIN Code[s][u][j].alts :
                   LET other == Code[s][u][j].alts[d]
                   IN  Code[s][u][j].op = "create" /\ other.id = link.id =>
                         /\ other.slot = link.slot
                         /\ Code[s][u][j].children = Code[s][t][i].children

\* And a thread comes by each of these calls once, on one logical thread.  (A
\* loop may lead it there again while its segment lasts.)
NumbersOnce(s) ==
    \A t \in Threads : \A i \in DOMAIN Code[s][t] : \A c \in DOMAIN Code[s][t][i].alts :
      Code[s][t][i].op = "create" =>
        LET link == Code[s][t][i].alts[c]
        IN  /\ link.id > 0 /\ link.tid >= 0 /\ NoWayBack(s, t, i)
            /\ \A u \in Threads : \A j \in DOMAIN Code[s][u] :
                 \A d \in DOMAIN Code[s][u][j].alts :
                   LET other == Code[s][u][j].alts[d]
                   IN  Code[s][u][j].op = "create" /\ other.id = link.id =>
                         other.tid = link.tid /\ (u = t => j = i)

IsRelease(s, t, d, slot, tid) ==
    Code[s][t][d].op = "release" /\ Code[s][t][d].slot = slot /\ Code[s][t][d].tid = tid

\* When thread tid gets to instruction i of t, the segment has begun.
BeginsBefore(s, t, i, slot, tid) ==
    \/ slot = 0
    \/ BehindYield(s, t, i, slot, tid)
    \/ \E d \in DOMAIN Code[s][t] :
         LeadsTo(s, t, d, i) /\ IsRelease(s, t, d, slot - 1, tid)

\* A number that is handed out by t alone, at instruction i or further on.
NumberedFrom(s, t, i, id) ==
    /\ id > 0
    /\ \A u \in Threads : \A j \in DOMAIN Code[s][u] : HandsOut(s, u, j, id) => u = t /\ j >= i

\* The segment cannot end before t, as thread tid, has come by instruction i:
\* what ends it is t itself, further on, or a thread that is still to be created.
EndsBehind(s, t, i, slot, tid) ==
    \A u \in Threads : \A r \in DOMAIN Code[s][u] :
      Code[s][u][r].op = "release" /\ Code[s][u][r].slot = slot =>
        \/ /\ Code[s][u][r].tid = tid
           /\ u = t => i < r /\ NoWayBack(s, t, i)
        \/ NumberedFrom(s, t, i, Code[s][u][r].tid)

InTurn(s, t, i, slot, tid) ==
    tid >= 0 /\ BeginsBefore(s, t, i, slot, tid) /\ EndsBehind(s, t, i, slot, tid)

\* The guards stand in their segments, the way they do behind the last turn of
\* a witness.  (Of a guard before it the turn of another thread gets ahead:
\* witness2ast.py:1014 has no schedule point for it.)
GuardsInTurn(s) ==
    /\ Disciplined(s)
    /\ \A t \in Threads : \A g \in DOMAIN Code[s][t] :
         Code[s][t][g].op \in {"assume", "pin"} =>
           Code[s][t][g].alts = <<>> /\ InTurn(s, t, g, Code[s][t][g].slot, Code[s][t][g].tid)

\* Every call that creates t numbers it, with a chain of the one link.
NumberedBy(s, t, Ids) ==
    \A u \in Threads : \A i \in DOMAIN Code[s][u] :
      Code[s][u][i].op = "create" /\ t \in Code[s][u][i].children =>
        Len(Code[s][u][i].alts) = 1 /\ Code[s][u][i].alts[1].id \in Ids

\* The number that t has whenever it runs.
KnownAs(s, t, id) == IF t = Main THEN id = 0 ELSE NumberedBy(s, t, {id})

\* The steps of the witness that may be the creation of t, and the numbers a
\* thread has by them: the k-th creation is that of thread k.
CreationsOf(s, t) ==
    {i \in Cases[s].creations : Cases[s].lines[i] = Cases[s].createdAt[t]}
CreationNumbers(s, t) ==
    {Cardinality({j \in Cases[s].creations : j <= i}) : i \in CreationsOf(s, t)}

\* The calls that number threads stand in their segments, on the thread they
\* are meant for, and give the threads the numbers of their creations.
CreatesInTurn(s) ==
    /\ Disciplined(s)
    /\ \A t \in Threads : \A i \in DOMAIN Code[s][t] :
         Code[s][t][i].op = "create" /\ Code[s][t][i].alts # <<>> =>
           /\ Len(Code[s][t][i].alts) = 1
           /\ KnownAs(s, t, Code[s][t][i].alts[1].tid)
           /\ InTurn(s, t, i, Code[s][t][i].alts[1].slot, Code[s][t][i].alts[1].tid)
    /\ \A t \in Threads : CreationsOf(s, t) # {} =>
         t # Main /\ NumberedBy(s, t, CreationNumbers(s, t))

-----------------------------------------------------------------------------
(* Properties.                                                             *)

\* The schedule points are passed in the order of the witness: what stands at
\* one has been executed before what stands at a later one, on any thread.  (Two
\* accesses of a race may come in either order.)
ReplayOrder ==
    \A i \in ThisCase.points \ ThisCase.targets, j \in ThisCase.points :
        i < j /\ Happened(j) => Happened(i)

\* An error is reported at the end of the schedule: all that the witness orders
\* before its target has happened, whichever thread reports.  (reach_error's
\* comparison with the final slot; witness2ast.py:908-911: "only count as
\* confirming the witness once every one of its segments has actually been
\* passed".)  And then the execution counts, even if a guard of another thread
\* ends it with exit code 0 first.  (main.py:176-181 looks for the words too.)
ReportAfterReplay ==
    /\ reported => \A i \in ThisCase.points : i < Len(ThisCase.happened) => Happened(i)
    /\ exitCode # Running => (Counted <=> reported)

\* Whatever the scheduler does, the execution confirms the witness.  (The aim
\* of all of the instrumentation; example/README.md:7-10: the witness pins the
\* order, "which the instrumentation enforces; the expected verdict is ALWAYS".)
Confirmed == <>(exitCode = 74)

\* It does so whenever the threads are created in time for their turns, if the
\* witness is not of a race, which an exit code does not confirm.
ConfirmedInTime == ThisCase.inTime /\ ThisCase.targets = {} => Confirmed

SameNumber(t, u) ==
    /\ pc[t] # "unborn" /\ pc[u] # "unborn"
    /\ ltid[t] = ltid[u] /\ ltid[t] # Unnumbered

DistinctIds == \A t, u \in Threads : SameNumber(t, u) => t = u

\* t and u are threads that one statement creates and numbers with id.
CreatedTogether(t, u, id) ==
    \E v \in Threads : \E i \in DOMAIN Code[script][v] :
        HandsOut(script, v, i, id) /\ {t, u} \subseteq Code[script][v][i].children

\* No two threads run as the same thread of the witness, unless a pthread_create
\* that numbers threads is come by more than once.  Then they may, but only threads
\* of that one statement, numbered in one and the same segment: a loop that goes
\* on creating while its segment lasts numbers all of them alike, and a round in
\* another segment numbers none of them so.  (The ternary of
\* witness2ast.py:459-496 tells rounds apart by their segments alone; its comment
\* at :460-464 has "only one of them being the one" of the witness.)
UniqueLogicalIds ==
    /\ \/ DistinctIds
       \/ /\ ~NumbersOnce(script)
          /\ \A t, u \in Threads : SameNumber(t, u) => t = u \/ CreatedTogether(t, u, ltid[t])
    /\ \A e, f \in events :
         e[1] = "create" /\ f[1] = "create" /\ e[2] = f[2] => e[3] = f[3]

\* A thread the witness sees created runs under the number it has there.
\* (witness2ast.py:961: "The k-th function_enter at a pthread_create call gets
\* logical thread k.")
NumberedByCreation ==
    \A t \in Threads : pc[t] # "unborn" /\ CreationsOf(script, t) # {} =>
        ltid[t] \in CreationNumbers(script, t)

\* That is so whenever the thread created last goes first: no other can move
\* the counter past the segment of a pthread_create that is still to come.
NumberedInTime == ThisCase.inTime => NumberedByCreation

\* What the witness says of an input or a condition is applied when its thread gets
\* there, except at a step at which another thread goes on: there the guard is in
\* front of the yield, and the release may be in front of the input, so that one
\* is early and the other late.  (README.md:9: the instrumentation "steers the
\* schedule (and fixes nondeterministic values)"; witness2ast.py:1014 inserts the
\* schedule point behind the assumption, and :805 its release before a call.)
NothingMissed ==
    \A e \in events : e[1] = "miss" => <<e[2], e[3]>> \in ThisCase.atChanges

=============================================================================
