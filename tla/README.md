# A verification development of ConcurrentWitness2Test

ConcurrentWitness2Test takes a C program and a violation witness, compiles the
witness into the program and executes the result. This directory models that in
TLA+: how a witness is read, how it is turned into instrumentation, what the
generator makes of the lines, what an instrumented program does at run time, what
a sanitizer sees of it, and how executions are turned into a verdict. It also
models the two programs around the tool: the web playground and the release
action. TLC checks the models on small instances; TLAPS proves the main
invariants of the run time, the replay of a schedule, the view of the sanitizer,
the parser, the generator of lines, the driver, the playground and the release for
every instance.

Paths and line numbers below are those of the repository (`src/`).

## The system

| component | state | operations | what makes it correct |
|---|---|---|---|
| test harness, `svcomp.c` | `c2tt_global_counter`, `c2tt_mtx`, `c2tt_cv`, `c2tt_once`, `c2tt_expected_final_slot`, a thread-local logical id | `yield`, `release`, `assume`, `should_use_assumed`, the thread proxy, `reach_error`, `main` | no wakeup is lost, a thread passes only in its segment, the counter never goes back, the mutex is initialised before use, an error counts only at the end of the schedule, the process ends |
| instrumentation, `witness2ast.py` | the syntax tree, the slot, the current thread, the next logical id | `apply_witness` and one operation per kind of step: thread creation, input, assumption, branching, function return, schedule point | the instrumented program does what the witness says, in its order, on its threads |
| driver, `main.py` | the counts of outcomes, the mode | parse, apply, compile, up to 100 executions, verdict | the verdict says what the executions showed; the mode stops the loop when it is decided; a program that gets as far as the compiler gets a verdict |
| parser, `witnessparser.py` | offsets of the program's lines | GraphML path, YAML segments, coordinates | one order of steps, on existing lines |
| tweaks and hacks, `tweaks.py`, `hacks.py` | the tree, the text, the generator's belief of its line | remove `reach_error`, `inline`, repeated structs, attributes; line directives | the compiler sees every statement at its own line; a definition of a struct that is repeated by an object of it is removed |
| web playground, `www-demo/` | two editors, a timer, fetches under way, a worker with pending requests, two buttons | load examples, change the property, edit, lint, instrument, compile and run | the editors end up with one program; the linter shows what is there; a button is enabled when its action is possible, and again after it |
| release action, `.github/actions/zenodo-release/` | depositions at Zenodo, the draft a run holds | clean up, new version, metadata, files, upload, publish | readers see only whole versions, one per run; success means published; a failed run does not block a later one |
| stub headers, scripts, examples | none | | |

How they interact: the driver calls the parser and the instrumentation once, in
one thread. The instrumented program is a process of its own; its threads share
the counter, the mutex and the condition variable of the harness, and read the
counter without the mutex in guards. The driver sees only the exit code, stdout
and stderr, or a timeout. The playground runs the same Python code in a web
worker and talks to it in messages; the page itself is one event loop whose
fetches end in any order. A run of the release action makes one request after
the other and leaves a deposition behind, which the next run finds.

What is hard here: the interleaving of the program's threads inside of and
between the harness calls; guards that are two loads without a lock; the order
in which calls are inserted around one statement by several steps of a witness;
slots that are handed out at instrumentation time and compared at run time;
a race that the instrumentation must not hide by its own synchronisation;
outcomes that are timeouts; directives that are counted as lines of the program;
loads, edits and answers that cross; a request that fails before or after its
effect. `PROJECT.json` lists these hazards at their lines.

## Modules

| module | models | lines of the code |
|---|---|---|
| `SegmentGate` | what the harness promises: a counter of segments that threads wait at | the contract of `yield` and `release` |
| `Instructions` | the instructions of an instrumented program | the calls `witness2ast.py` makes |
| `ConcurrentHarness` | the run time, with `Gate == INSTANCE SegmentGate` | `svcomp.c` |
| `ConcurrentHarnessProofs` | theorems about it | |
| `MCHarness` | six small programs, written by hand | |
| `WitnessAst` | the finders and `apply_witness`; the compiler | `witness2ast.py` |
| `Replay` | the execution of an instrumented program against what its witness says, with the driver's judgement (`Driver == INSTANCE Validation`); where the calls of the program stand | `svcomp.c`, `main.py:176-181`; `witness2ast.py`, what it makes |
| `ReplayProofs` | theorems about it | |
| `WitnessReplay` | `WitnessAst` and `Replay` composed (and, in `MCReplay`, `HappensBefore`) | `main.py:74-149` |
| `MCReplay` | programs and witnesses, those of data races among them | `example/`, and others |
| `MCPlacement` | `MCHarness`, and the hypotheses of the theorems about `Replay` and `HappensBefore`, evaluated for the programs of `MCReplay` | |
| `HappensBefore` | `Replay`, and what happens before what in its executions | `svcomp.c`, as ThreadSanitizer sees it |
| `HappensBeforeProofs` | theorems about it | |
| `WitnessParser` | the parser | `witnessparser.py:105-308` |
| `WitnessParserProofs` | theorems about it: types, lines, segments; the path and the refusals | |
| `MCParser` | automata, locations and sequences of segments | |
| `LineDirectives` | the changes of the tree and the generator | `tweaks.py`, `www-demo/py/cwt/instrument.py` |
| `LineDirectivesProofs` | theorems about it | |
| `MCLines` | layouts of functions, declarations of structs; the hypothesis of a theorem, evaluated for them | |
| `Validation`, `ValidationProofs` | the driver, and theorems about it | `main.py:57-240` |
| `ReleaseHistory` | what the release promises its readers | the contract of the action |
| `ZenodoRelease` | the runs of the action, with `History == INSTANCE ReleaseHistory` | `zenodo_release.py` |
| `MCRelease`, `ZenodoReleaseProofs` | an instance; theorems | |
| `Playground` | the page: editors, event loop, worker | `app.js`, `pyodide-worker.js`, `shim.py` |
| `MCPlayground`, `PlaygroundProofs` | an instance; theorems | |

### ConcurrentHarness

One action per mutex operation, condition variable operation and access of the
atomic counter. `pc[t]` is where a thread is: `run` in its program; `once`,
`init`, `lock`, `check`, `bcast`, `test`, `wait`, `asleep`, `wake`, `store`,
`signal`, `unlock` inside of `yield` or `release`; `judgeMatches` and
`judgeHolds` between the two loads of a guard. The program is data: `Code[s][t]`
is the sequence of instructions of thread `t` of program `s`, and the initial
state chooses `s`, so one run covers a family of programs.

- C does not order the arguments of `__concurrentwit2test_assume`, so either is
  loaded first (`AssumeFirstArgument`), and other threads may run in between.
- The chain of `?:` that computes a new thread's id is one load per link
  (`TryAlternative`).
- `exit` ends the process with the code of the first thread that gets there;
  `reported` is kept apart, as `main.py` also looks for the words on stdout.
- A nondet stub returns 0, a statement of the program is one step, and memory
  is sequentially consistent: the counter is a C11 atomic, and the programs of
  the runs only touch their variables in segments, or race for them in the
  order the model makes explicit.
- `events` is a history variable: which line was executed by which logical
  thread, which guards met their segment (`match`) or not (`miss`), and which id
  was handed out in which segment (`create`).
- A pinned input may have a chain of values, for several segments (`DueLinks`,
  `MeantFor`): `apply_function_return` finds the call that is left behind the first
  value and pins that too.

### WitnessAst

A tree has functions, blocks, loops, conditions and leaves. The names, types and
expressions of C are left out; a leaf has the *form* by which the finders
tell statements apart (plain, call, nondet, return, ...) and the instruction it is
when it runs. The finders take "the first statement at or after the line", as the
code does. `VisitForNondet` keeps a peculiarity of `find_nondet_assignment_on_line`:
the search goes on behind a nested match, so a statement that the block lists
later overwrites it. A nondet function whose type is not known is not pinned
(`typed`). The variable of a condition stands for its expression; a constraint is an
equality, another expression, one that cannot be parsed, a direction, the label
of a `switch`, or `default`, of which nothing is made. The cases of a switch are
statements of its body: a schedule point at a statement inside of a case goes to
the next case label, or behind the switch. With `INPUT_ONLY`, a step with nothing to
insert leaves the program as it is, and does not ask for a statement.
`apply_witness` is a fold over the steps, with one operator per kind of step.

Intermediate results are parameters of operators rather than `LET` definitions, and
the cases of `MCReplay` are written in short (`Tree`): TLC's coverage goes into
every definition at each of its uses, and `Code` is used in every action.

### Replay

A script is a case: a program with what its witness makes of it (`Cases`). Its
properties say what the execution owes the witness. The module knows nothing of
syntax trees, so that it can be proved about; `WitnessReplay` gives `Cases` the
value that `apply_witness` computes. What the proofs need of that value is stated
as conditions on where the calls stand in the compiled program:

- `OnlyWay` (in `ConcurrentHarness`): an instruction is reached only through the
  one in front of it, and not by a jump. From it come `LeadsTo` and `BehindYield`:
  whoever gets to instruction `i` has come by instruction `d`, or by the yield of
  a slot. `Disciplined` asks that every release stands so behind its yield.
- `TakesTurns`: the statement of each turn is behind the yield of its slot, and
  the release of the slot behind the statement (`Opened`, `Closed`).
- `CountsTurns`: turns are closed, and main begins with the final slot, which is
  past all of them.
- `NumbersApart`: a number is handed out in one segment, at calls that create the
  same threads, those of one statement.
- `NumbersOnce`: beyond that, a thread comes by each of these calls once, and on
  one logical thread; no loop leads back to it.
- `GuardsInTurn`, `CreatesInTurn`: the guards and the calls to `pthread_create`
  stand in their segments: what begins the segment is in front of
  them, and what ends it is a release further on in the same thread, or of a thread
  that is not created before. (Of a guard, this is about an input with one value.)

Some properties are about the witnesses whose threads are created in time
(`inTime`): the thread created last goes first, the witness sees every thread
created that a statement creates, and one statement creates one thread in a segment.

### HappensBefore

Every step of the execution also says what its thread learns from others: from
the mutex (left by the thread that unlocked it), the counter (left by the one
that stored it; it is a sequentially consistent atomic), `call_once`, the
creation of a thread and `pthread_join`. `before` holds the pairs of events
ordered by that: two accesses are a race for ThreadSanitizer when neither pair is
in it. Only executions with racing accesses are followed in this way. A witness of
a data race has the two accesses as its last steps
(`targets`); `apply_witness` gives them a yield and no release
(`witness2ast.py:1014-1019`). `RacesInTurn` and `RacesApart` say where the accesses
stand: behind the yields of later slots than the turns', and with nothing further
on in their threads that lets anybody else know of them.

### WitnessParser

`phase` is where the parser is: `open`, at a node of the automaton (`walk`),
between waypoints (`segments`), at a step's location (`coords`), in the loop of
`get_line_of_offset` (`lines`), or done. `FollowEdge` and `FollowWaypoint` find a
step, `NoCoordinates` or `LineFound` append it. `Reject` is a `KnownErrorVerdict`,
`Raise` an exception that `main.py` turns into "Incompatible witness".

- A location is four numbers that may be absent, and `Truthy` is Python's: an
  offset or a line 0 counts as absent where the code writes `not x`.
- The program is its `Ends`, the offsets at which its lines end.
- `entry` and `sinks` are the nodes that *have* the attribute: the code asks for
  its presence, so a node marked `false` counts as marked.
- networkx turns a graph with two parallel edges anywhere into a multigraph, in
  which `get_edge_data` returns one record per key, so that no attribute is
  found on any edge (`Parallel`).
- `Reached`, `OnPath` and `Endless` read the automaton by reachability instead of
  walking it; the properties compare the two.

`ApplyWitness` in `WitnessAst` takes steps of the same kind (`Unstated` is an
absent thread, line 0 stands for coordinates that are `None`).

### LineDirectives

A program is a sequence of declarations and functions, whose statements have a
file and a line, or none if they were inserted. One action per function of
`tweaks.py` changes the tree, in the order in which `translate_to_c` calls them.
Then the generator walks the tree, and its calls are a `stack`: a frame has the
node, the next part of it to generate (`Parts`) and the text of the parts before.
`BeginStmt` and `EndStmt` are the two halves of `_generate_stmt`, around
pycparser's own generation of the statement; `visit_FileAST` treats declarations
in the same way. `BeginFuncDef` and `EndFuncDef` are `visit_FuncDef`, `EndFileAST`
the end of `visit_FileAST`. `WriteLayout` is pycparser writing a line of its own: a
brace, an `else`, the blank line behind a function.

The generator's *belief* is the line it takes the next line of text for
(`_line_file`, `_next_line`). As in the code the text of a statement comes first,
with what that does to the belief, and is then compared (`NeedsDirective`,
`Prefixed`, `BeliefBehind`); `Advance` counts all lines of the text, the directives
in it included. `Seen` reads the text as a compiler does: a line's number follows
from the last directive before it. How a simple statement is laid out is its
number of lines. What pycparser's `CGenerator` writes is external.

### Validation

One action per phase. The bare `except` catches what `sys.exit` raises, so a
failing compilation goes through it. The result of an execution is its exit
code, what it printed, a sanitizer's report, or a timeout. `Parse` and `Apply` may
take for ever, as the parser does on some witnesses: what must happen begins with
the test compilation. `VerdictFits` and `StopsWhenDecided` are about the executions
that end; what the repository says of the others is `StrictAlways`, which does not
hold (run `timeouts`).

### ZenodoRelease

One action per request. A request is answered; or it fails without effect; or its
effect happens and the answer is lost, which the client cannot tell from a
failure (`Failing`). Drafts are looked up by `conceptrecid:` with the id of the
previous *record* (`zenodo_release.py:49`, `:181`). What the service lists for that is
not in the code: `listed` says it, for a whole history of runs, and is either the
drafts of the record or none. Deleting a draft or a file is only warned of when it fails,
every other failure ends the run (`Abort`). `Cancel` cuts a run off between two
requests, `Rerun` starts the next one, which finds what was left behind. The
service is external: a new version begins as a copy of a published one and is
refused while there is a draft. `Visible` maps a deposition to what
`ReleaseHistory` says of it.

### Playground

What the page awaits (a fetch, a bundle, a run of the compiled program) is a task,
and tasks are continued in any order; requests to the worker are answered in
order. An editor's content is what it is about: `c` a program, and what was woven
into it; `yaml` a program, a property and the number of edits. `crossed` counts
the actions of the user that began while another was under way, since the last
load: `EditorsAgree` promises something when it is 0 and nothing is under way
(`Quiet`). A fetch may fail (`LoadFails`), a request to the worker may be
answered with an error, or never (`returns`): the parser may not come back, and then
the worker is blocked for good (`Stuck`). A request carries the texts that the page
sends: for the linter, the witness and the program.

## Runs

| run | expects | what it shows | size |
|---|---|---|---|
| `harness` | pass | `TypeOK`, `NoLostWakeup`, `YieldReturnsDue`, `OneInitialization`, `CounterMonotone`, `NoSegmentSkipped`, `ImplementsGate`, `Terminates` for programs that hand over, wait three at a time, release late, run one routine on two threads, number threads by a chain of alternatives, use guards without yields; before it, the hypotheses of the theorems for the 48 programs of `replay` (`MCPlacement`) | 3 threads, up to 4 segments; 3988 states |
| `replay` | pass | the 30 interleavings of 2 + 2 + 1 statements as witnesses, and inputs, conditions, loops, blocks, branches, a switch, function returns, an input read twice, repeated creation in several segments and in one, an input at a thread change, an exit that overtakes a report: `ReplayOrder`, `ReportAfterReplay`, `NumberedInTime`, `UniqueLogicalIds`, `NothingMissed`, `ConfirmedInTime`. And data races of two threads and of a thread with main, behind turns of the racing threads, of another and of main: `RaceShown`, `RaceBehindSchedule` | 3 threads, up to 6 segments, 48 cases; 90716 states |
| `parser` | pass | `TypeOK`, `FollowsThePath`, `FollowsTheSegments`, `RefusedForAReason`, `LineRight`, `Finishes` | all 512 automata of 3 nodes with 9 choices of marks, 180 kinds of locations, 183 sequences, a program of 3 lines; 27674 states |
| `lines` | pass | `FlatLinesSurvive`, `ConditionsSurvive`, `RepeatsRemoved` | functions of up to 3 flat or 2 nested statements in all layouts, 6 kinds of declarations in front, 3 objects of structs with and without a declarator, before it the hypothesis of `ConditionsDoSurvive` for all of them; 293429 states |
| `validation` | pass | `TypeOK`, `VerdictFits`, `StopsWhenDecided`, `Concludes` | 4 executions; 3336 states |
| `release` | pass | `TypeOK`, `SuccessIsPublished`, `OldFilesOnlyWarned`, `ImplementsHistory`, `ReleasedInTheEnd` | 3 runs, 2 failures, 5 depositions, 2 files, drafts listed or not; 110398 states |
| `playground` | pass | `TypeOK`, `LintFollows`, `OneInstrumentation`, `EditorsAgree`, `CompiledForUnreach`, `InstrumentationEnds` | one program of each kind, 2 properties, 3 actions of the user, a worker that may be stuck; 807129 states |
| `guard_race`, `revisit`, `line_too_far`, `line_drift`, `timeouts` | violation | the findings below | |

The bounds. Three threads are enough for two to wait while a third releases, for
a broadcast to wake a thread it is not meant for and for a late release to race
with another; the code treats threads alike except for the comparison of logical
ids. Witnesses of up to five turns contain every pattern of two consecutive
hand-overs, and the theorems below do not depend on the bound. Three nodes allow
for a branch, a dead end and a circle behind an edge of the path, which is what
the walk tells apart at one node. `MaxSteps` cuts off a circular walk, and the
count of lines stops one behind the last line; neither is reached by a walk or a
search that ends. The loop of the driver is the same for 4 executions as for 100,
and its theorems hold for any number. The generator keeps nothing of a statement
but its belief, so two statements show what one does to the next, and a third
what that does to the one after. Two failing requests in three runs are a failure
that leaves something behind and one while it is cleaned up. Three actions of the
user are two that cross and one that makes up for them; the theorems about
the page do not depend on the bound.

`CHECK_DEADLOCK FALSE` is set where the system does end or come to rest: the
driver, the parser, the generator, the release and the page. The harness has an
action for the process that has exited, and a deadlock of the threads would be
reported (the run `revisit` shows one as a violated `Confirmed`: spurious wakeups
keep it from being a deadlock in TLC's sense).

Fairness. Weak fairness of `Step(t)`: the operating system runs a thread that
can run. Strong fairness of `Lock \/ Reacquire`: a thread that asks for the
mutex again and again gets it, which the threads library promises no more than
informally but every execution within a timeout relies on. Spurious wakeups have
no fairness. The driver has weak fairness from the test compilation on: an execution
ends, if only by its timeout, but nothing keeps the parser in time. The parser has
weak fairness of its next-state relation: its loops go on. The release has weak
fairness of `Request`, as a request is answered or fails, and of `Rerun`:
somebody repeats a failed release, and there are more runs than failures
(`ReleasedInTheEnd` says so in its premise). The page has weak fairness of
`Loop`: fetches end, if only in an error, and requests that the worker returns from
are answered; one that it does not return from (`Stuck`) is the only thing that
keeps the button of `InstrumentationEnds` disabled. Nothing is assumed of the user, nor
of the runtime getting ready.

## What is proved

`ConcurrentHarnessProofs`, for every set of threads, programs, slots and
variables (the assumptions are those named in `Instructions` and
`ConcurrentHarness`: slots are natural numbers, programs are sequences of
instructions):

- `TypeCorrect`, `TypesHold`: `TypeOK`, strengthened by `CallOK`, which says that
  a thread inside of a call is at a yield or release instruction of its own id.
  Without it `Here(t)` in the other invariants would not be defined.
- `InitializedOnce`, `WakeupsNotLost`, `YieldsReturnDue`: from `MutexOK`
  (the owner is exactly the thread in the critical section), which is why a
  thread cannot go to sleep between another's store and broadcast.
- `CounterNeverMovesBack`: a release at its store has checked the counter under
  the mutex it still holds.
- `ImplementsGateTheorem`: every step is a step of `SegmentGate` or a stutter,
  with `waiting` read off `pc` and the instruction.
- `SegmentsNotSkipped`: in a program whose releases stand behind yields, the
  counter moves by one. The inductive invariant follows a thread between a yield
  and its release.

`ReplayProofs`, for every set of threads, programs, slots and witnesses. Each
theorem is about the programs whose calls stand where `Replay` says, and none is
about how the scheduler runs them. The argument in each case is about how a thread
can have got where it is:

- `BehindInvariant` (`BehindOK`): a thread that is behind the only way to an
  instruction has passed what stands there, so the counter has reached the slot
  of every yield it is behind.
- `TurnsInOrder`: what a turn orders has happened when its segment is over
  (`ClosedOK`), and nothing behind its yield happens before the counter is there
  (`OpenedOK`). Both rest on the segments not being skipped.
- `ReportsComeLast`: the final slot is set before any other thread exists
  (`Starting`, `FinalOK`), and a thread on its way to the report has compared the
  counter with it (`ReportOK`), whichever thread and whoever ends the process.
- `IdsUnique`: `UniqueLogicalIds`, from `NumbersApart` alone. Whoever bears a number
  was given it by a call that creates it (`ApartOK`), and all the calls of one number
  create the same threads and are for the same segment, which the counter has in no
  two rounds. Only a `pthread_create` that is come by again while its segment lasts
  numbers two threads alike, as the property says; with `NumbersOnce` there is none,
  as a number in use has been handed out by a call its thread has come by for good
  (`IdsOK`).
- `GuardsNotMissed`: each segment before the current one has been ended by a
  thread which stays behind that release (`EndedOK`). If a guard found its
  segment over, the thread that ended it would be itself, further on, or one that
  is not yet created; `IdsUnique` says it is no third one. The guards load the
  counter without the mutex, so nothing else protects them.
- `NumbersInTime`: by the same argument a `pthread_create` finds its segment
  current, so no thread of the witness runs without its number (`NumbersOK`).

`HappensBeforeProofs`, under the same kind of hypotheses:

- `RacesComeLast`: the counter carries what the releases of all the segments before
  have left (`TellsOK`); a yield that goes on has read it.
- `RaceStaysVisible`, the safety half of `RaceShown`: an access is known to nobody
  but its own thread, which has nothing more to tell, or to threads that joined it
  and have no access to come (`KeptApart`). The instrumentation cannot hide the
  race by its own synchronisation.

The hypotheses are met: TLC evaluates them for every program of `replay` as
`apply_witness` instruments it (the assumptions of `MCPlacement`). `NumbersApart` holds
of all the 48. The others hold but for these, which are only model-checked: at a
block, and at a GraphML input, the turn ends in front of the statement, so
`CountsTurns` does not hold; the guard of that input is not in its segment, and an
input that is read twice has a chain of values, so `GuardsInTurn` does not; and the
`spawner` and the `looped` program come by one `pthread_create` several times, which
`NumbersOnce` does not allow. `CreatesInTurn` is asked only of the witnesses whose
threads are created in time, as in `NumberedInTime` itself. They are evaluated in a
module apart so that a fault in the instrumentation shows in `replay` as what it does to
an execution, rather than as an assumption that fails before.

`WitnessParserProofs`, for every set of witnesses and every program:
`ParserTypes`, and `LinesAreRight`, from the invariant of the loop that counts
lines (`Reading`): the position is the end of the line read last, and the line
before ended at or before the offset that is looked for. Going from a line to its
offset and back returns the line because the ends of lines increase
(`OffsetInLine`). `SegmentsFollowed`: the steps made are the waypoints to follow
that are before the cursor (`SegmentsInv`), in the order of their places.

The same module, for every automaton: `PathsFollowed` and
`RefusalsHaveReasons`. The walk never leaves what is reachable, which is the least
set that is closed under its edges, and every step it makes is the only edge that
goes on from its node (`StepsTaken`, `Chained`). When it ends, the nodes it has
come by are closed, so no edge of the path is left out; and no edge was taken
twice, since a walk that comes back to an edge repeats itself (`Repeats`) and so
has an edge behind its last step. Hence the steps and the edges of the path are
in bijection. A refusal has its reason in what the walk or the segments lead to: an
edge of the path, or a waypoint to follow, whose location cannot be looked up (what
the parser itself makes up is either complete or absent, `Located`); bad locations
elsewhere in the document do not count.

`LineDirectivesProofs`, for every program: `TypesAreRight`, whose invariant says
that the calls are nested like the nodes are (`Linked`, `Inside`);
`RepeatsAreRemoved`: behind the change, an object whose type is written out in its
own declaration without a declarator around it does not repeat a definition;
`FlatLinesDoSurvive`, because in a function without nested
statements the generator knows how far the text has got: either it believes
nothing, or the line it believes in is the line the compiler would give the next
one (`FlatInv`). `ConditionsDoSurvive` is about nested statements, behind which
that belief is wrong. A condition's directive is decided when all inside of it has
been generated, and then the generator has got further than the first line of the
condition (`Ahead`, `Done` in `CondInv`), so its belief cannot happen to be that
line and the directive is written. And while nothing of the program has been
written of a function's body it believes nothing (`Bare`), so the first statement
gets a directive as well. The theorem has one hypothesis, `InOrder`: no nested
statement is on an earlier line than the statement around it, and a condition or
loop has something of the program in it. It is needed: with nothing but inserted
statements inside, the belief left by the statement before is moved on by their
lines, and may then be the condition's line though the text is not there. TLC
evaluates it for every program of `lines` (`WrittenInOrder`). Code produced by
macros, or continued from another file in the middle of a statement, need not
meet it.

`ValidationProofs`, for every number of executions: `ValidationTypes`,
`VerdictsFit`, `LoopStops`. The invariant adds that the counts agree with the
outcomes (`Counted`), that a summary is the last thing printed (`SummaryIsLast`)
and that a loop which goes on has met nothing that decides it (`Undecided`). Executions
that time out have no say in these, as in the code.

`ZenodoReleaseProofs`, for any number of runs, failures, depositions and files:
`ReleaseTypes`, `ReleaseImplementsHistory`, `SuccessesPublished`,
`OldFilesWarned`. The invariant is `ReleaseInv`: only this run has set its number
on a deposition and no public one has it yet (`OfThisRun`), and what is held is a
draft that has as much of the version as its phase says (`Made`). Without the
first part a second publication by one run would be a step of no history.

`PlaygroundProofs`, for any programs, examples and actions: `PlaygroundTypes`,
`CompilesForUnreach`, `InstrumentsOneAtATime` (a request to instrument, a bundle
under way and an enabled button exclude one another, `InstrumentInv`) and
`LintsWhatIsThere` (while the timer is off, the last question to the linter is
about what the editor holds, or what it shows is, `AskedLast`; and the page has
nothing to lint before it has editors, `NothingYet`). `EditorsStayTogether`: a load
that nothing has crossed is the only thing under way (`LoadsOK`), so when nothing
was crossed the editors agree but for what that one thing is about to put right
(`AgreedOK`): the witness it has still to make for the program, or the property
whose text has still to come.

Only model-checked:

- what needs fairness: the liveness part of `ImplementsGate`, `Terminates`,
  `ConfirmedInTime`, `RaceShown` (but for `RaceStaysVisible`), `Finishes`,
  `Concludes`, `ReleasedInTheEnd`, `InstrumentationEnds`;
- that the programs `apply_witness` makes are placed as the theorems ask
  (`MCPlacement`): it is a recursion over syntax trees, and what a recursion
  computes for every tree needs an induction that the provers cannot instantiate.

## Findings

- `guard_race`: the guard of an assumption is in front of the yield of its step,
  and its two loads are not atomic, so an execution of the repository's own
  example `concurrent-unreach` can exit with 0. The smoke test expects `ALWAYS`.
- `revisit`: two schedule points of one thread at one statement wait for each other.
- `line_too_far`: a witness with a line the program does not have hangs the tool
  before any execution.
- `line_drift`: behind a statement with another one in it, the generator has
  counted that one's directive as a line of the program, and a statement is seen
  a line further down than it is (`tweaks.py:73`).
- `timeouts`: an execution that times out counts neither for the verdict nor for the
  mode (`main.py:215`): the strict mode goes on behind it (`README.md:54`), and `ALWAYS` is
  printed although not every execution reached the violation (`README.md:58`).

Seen while modelling and not run.

The instrumentation:

- A `pthread_create` numbers its thread only while the counter is at its slot,
  but nothing keeps a thread created earlier from moving it on: then the new
  thread gets -1 (`witness2ast.py:974`; `:961` says that the k-th
  `function_enter` gets thread k). `NumberedInTime` and `ConfirmedInTime` are
  about the other witnesses.
- Two `function_enter` in one segment at one looped `pthread_create` give both
  threads both ids to take: they get one id (the case `looped` of `replay`;
  `UniqueLogicalIds` says when).
- A pinned input at a change of the thread, as GraphML witnesses have them, is
  released before it is read (`witness2ast.py:805`), so the value is never used (the
  case `graphml`; `NothingMissed` leaves out the guards at a change of the thread).
- A schedule point inside of a case of a switch lands at the next label or behind the
  switch; in front of a label, nothing gets to the yield.
- A `function_enter` of a function that is not `pthread_create` uses up a number.
- Only steps at which the thread changes are ordered, though `README.md:14`
  speaks of the segment order.
- With `INPUT_ONLY` a release stores its slot whatever has been passed before, so
  an error may count early.

The parser and the driver:

- Parallel edges of a GraphML witness, which are common at a sink, make the tool
  ignore everything the witness says, silently (`FollowsThePath` without
  `Parallel \/` fails).
- A circular path is walked for ever; an edge with offsets and no lines is refused
  as incompatible.
- A test that does not compile gets the verdict "Unknown error" as well.

The text:

- A function whose closing brace shares the line of its last statement moves what
  follows it by a line, until a directive comes.
- `struct S {...} x, *p;` and `x, a[3];` keep two definitions, as only plain
  declarators are looked at (`tweaks.py:154`).
- `extern struct S x;` in front of `struct S {...} y;` loses the definition.
- `hacks.py` blanks the code between two comments of a line (the expression for
  comments is greedy), takes `//` inside of a comment for one, and blanks the
  line breaks between a keyword and its parenthesis, which moves all later lines,
  though `hacks.py:21-23` says that they stay.

The release:

- The concurrency group `deploy-${{ github.head_ref }}` has an empty reference for
  pushes, so any push cancels a release under way.
- When the answer to publish is lost, the run fails although the version is out,
  and a rerun publishes a second one.
- A file that could not be deleted is published again with the new version.
- No request has a timeout.
- The drafts are looked up by the id of the previous record where the query asks for
  that of the concept (`zenodo_release.py:49`, `:181`). If it lists nothing, a draft left
  behind stays, and every later run is refused its new version: `ReleasedInTheEnd`
  is about the other case, or about histories without a draft left behind.

The playground:

- `noOverflow` is not declared where the bundle is made (`app.js:865`), so there
  never is one (`BundleFails`).
- Changing the property during a run enables *Compile & Run* again.
- The answer of an instrumentation overwrites edits and loads that came in
  between (`app.js:870`); loads that overlap mix the editors (`:987`); the first
  skeleton lands over an example that was picked early (`:362`); the text of a
  property can land on the witness of a later load. `EditorsAgree` is about what
  one later load, which nothing crosses, makes of that.
- A witness the parser does not come back from blocks the worker for good.

## Limits of the models

- Expressions, types and declarations of C, and `_ensure_argc_argv`.
- `release` stands in front of a statement that contains a call, so `ReplayOrder`
  is about statements without one; the comment at `witness2ast.py:762-767` gives
  the reason.
- `HappensBefore` has the synchronisation that the program and the harness do;
  a sanitizer may in addition miss a race that is too far back in its history.
- The detection of a witness's format, and the property read off its specification.
- `perform_hacks` and the temporary files.

## Not modelled

- `hacks.py`: regular expressions over the text of the program. What they do is
  what the expressions say, character by character; a model would be the program.
- The playground's layout, lists, themes, highlighting, zip file and WASI run time:
  presentation, and a library whose run is one step here.
- The stub headers, examples and scripts, which have no behaviour of their own;
  examples are cases of `MCReplay`.

## Plan

1. The loop of the driver composed with executions of different programs, with
   their timeouts.
2. Detection of the format and of the property, and what each property switches on
   in the generated command (`main.py:107-147`).
3. `GuardsNotMissed` and `NumbersInTime` for a call that numbers several threads in
   different segments, as the `spawner` has it, and for inputs with several values;
   `IdsUnique` covers the former already.
