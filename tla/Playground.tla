----------------------------- MODULE Playground -----------------------------
(***************************************************************************)
(* The web playground: one event loop with two editors (app.js) and a      *)
(* worker that lints and instruments what they hold (pyodide-worker.js,    *)
(* shim.py).  Whatever the event loop awaits is a task here, and tasks are *)
(* continued in any order; requests to the worker are answered in order.   *)
(***************************************************************************)
EXTENDS Naturals, Sequences

CONSTANTS
    Programs, NoProgram,
    Default,     \* the program that is there before one is picked
    Examples,    \* bundled programs, with a witness
    Benchmarks,  \* programs of sv-benchmarks, without one
    SvExamples,  \* programs of sv-witnesses, with one
    Specs, Unreach, Own,
    SpecOf,      \* the property of a bundled example
    MaxActions   \* a bound for what the user does

ASSUME PlaygroundAssumption ==
    /\ Default \in Programs /\ NoProgram \notin Programs
    /\ Examples \cup Benchmarks \cup SvExamples \subseteq Programs
    /\ Unreach \in Specs /\ Own \notin Specs
    /\ SpecOf \in [Examples -> Specs]
    /\ MaxActions \in Nat

VARIABLES
    editors,     \* "none", "created", or "ready" when the first skeleton is in
    c,           \* what the C editor holds: a program, and what the witness woven
                 \* into it is about, if there is one
    filename,    \* the name over the C editor
    yaml,        \* what the witness editor holds
    select,      \* the property that is selected
    tasks,       \* what the event loop awaits, but for the worker
    worker,      \* "loading", "ready" or "failed"
    requests,    \* to the worker, not yet answered
    timer,       \* the debounce timer of the linter is running
    shown,       \* the witness that the result of the linter is about
    instrumentEnabled, compileEnabled,  \* the buttons
    actions,     \* how often the user has done something
    crossed      \* the last action while something was under way

user == <<actions, crossed>>
queues == <<worker, requests>>
texts == <<c, filename, yaml, timer>>
vars == <<editors, texts, select, tasks, queues, shown,
          instrumentEnabled, compileEnabled, user>>

Program(p) == [program |-> p, woven |-> NoProgram]
Witness(p, spec) == [program |-> p, spec |-> spec, edits |-> 0]
Empty == Witness(NoProgram, Own)

Loads == {"example", "benchmark", "svexample"}
Task(kind, id, p, spec, quietly) ==
    [kind |-> kind, id |-> id, program |-> p, spec |-> spec, quietly |-> quietly]
LintRequest ==
    [cmd |-> "lint", mode |-> "inplace", c |-> c, yaml |-> yaml, returns |-> TRUE]
\* An instrumentation parses the witness in the worker, with a parser that does
\* not return for every witness: see WitnessParser.
InstrumentRequest(mode, returns) ==
    [cmd |-> "instrument", mode |-> mode, c |-> c, yaml |-> yaml, returns |-> returns]

CTexts == [program : Programs \cup {NoProgram}, woven : Programs \cup {NoProgram}]
Witnesses == [program : Programs \cup {NoProgram}, spec : Specs \cup {Own}, edits : Nat]
Messages == [cmd : {"lint", "instrument"}, mode : {"inplace", "download"},
             c : CTexts, yaml : Witnesses, returns : BOOLEAN]
Tasks == [kind : Loads \cup {"first", "skeleton", "spec", "bundle", "compile"}, id : Nat,
          program : Programs, spec : Specs, quietly : BOOLEAN]

SwitchesOK ==
    timer \in BOOLEAN /\ instrumentEnabled \in BOOLEAN /\ compileEnabled \in BOOLEAN

TypeOK ==
    /\ editors \in {"none", "created", "ready"}
    /\ c \in CTexts /\ yaml \in Witnesses /\ shown \in Witnesses
    /\ filename \in Programs \cup {NoProgram}
    /\ select \in Specs
    /\ tasks \in SUBSET Tasks
    /\ \A t \in tasks : t.kind = "example" => t.program \in Examples
    /\ worker \in {"loading", "ready", "failed"}
    /\ requests \in Seq(Messages)
    /\ actions \in 0..MaxActions /\ crossed \in 0..MaxActions
    /\ SwitchesOK

\* Something is under way that an editor waits for.
Instrumenting ==
    \/ \E i \in DOMAIN requests : requests[i].cmd = "instrument"
    \/ \E t \in tasks : t.kind = "bundle"
\* The worker is at a request that it does not return from, and there is no timeout.
Stuck == requests # <<>> /\ ~Head(requests).returns
Quiet == editors = "ready" /\ ~Instrumenting /\ \A t \in tasks : t.kind = "compile"

\* The user does something: it may cross what is under way.
Acts(crossing) ==
    /\ actions < MaxActions /\ actions' = actions + 1
    /\ crossed' = IF crossing /\ ~Quiet THEN actions + 1 ELSE crossed

Await(task) == tasks' = tasks \cup {task}
Finished(task) == tasks' = tasks \ {task}

\* A change of the witness, whoever makes it, starts the timer of the linter.
SetYaml(witness) == yaml' = witness /\ timer' = TRUE

CompileAllowed(spec) == editors = "ready" /\ spec = Unreach

-----------------------------------------------------------------------------
(* Loading programs and witnesses.                                         *)

CreateEditors ==
    /\ editors = "none" /\ editors' = "created"
    /\ c' = Program(Default) /\ filename' = Default
    /\ Await(Task("first", 0, Default, select, FALSE))
    /\ UNCHANGED <<yaml, timer, select, queues, shown, instrumentEnabled, compileEnabled, user>>

\* The witness that is there before one is picked.
FirstSkeleton(t) ==
    /\ t.kind = "first"
    /\ SetYaml(Witness(t.program, t.spec))
    /\ editors' = "ready"
    /\ instrumentEnabled' = (worker = "ready")
    /\ compileEnabled' = (select = Unreach)
    /\ Finished(t)
    /\ UNCHANGED <<c, filename, select, queues, shown, user>>

Pick(kind, p) ==
    /\ kind = "example" => editors # "none"
    /\ Acts(TRUE)
    /\ Await(Task(kind, actions + 1, p, select, Quiet))
    /\ UNCHANGED <<editors, texts, select, queues, shown, instrumentEnabled, compileEnabled>>

\* A load that nothing has crossed makes up for earlier crossings.
Loaded(t) ==
    /\ crossed' = IF t.quietly /\ crossed < t.id THEN 0 ELSE crossed
    /\ UNCHANGED actions

SetProgram(p) == c' = Program(p) /\ filename' = p

\* Mutant: the change of the property is not told to its listener.
ExampleArrivesSilently(t) ==
    /\ t.kind = "example"
    /\ SetProgram(t.program)
    /\ select' = SpecOf[t.program]
    /\ Finished(t)
    /\ SetYaml(Witness(t.program, SpecOf[t.program]))
    /\ Loaded(t)
    /\ UNCHANGED <<editors, queues, shown, instrumentEnabled, compileEnabled>>

\* Mutant: selects the example instead of its property.
ExampleArrivesByName(t) ==
    /\ t.kind = "example"
    /\ SetProgram(t.program)
    /\ select' = t.program
    /\ SetYaml(Witness(t.program, SpecOf[t.program]))
    /\ Finished(t) /\ Loaded(t)
    /\ UNCHANGED <<editors, queues, shown, instrumentEnabled, compileEnabled>>

ExampleArrives(t) ==
    /\ t.kind = "example"
    /\ SetProgram(t.program)
    /\ select' = SpecOf[t.program]
    /\ compileEnabled' = CompileAllowed(SpecOf[t.program])
    /\ tasks' = (tasks \ {t}) \cup {Task("spec", t.id, t.program, SpecOf[t.program], FALSE)}
    /\ SetYaml(Witness(t.program, SpecOf[t.program]))
    /\ Loaded(t)
    /\ UNCHANGED <<editors, queues, shown, instrumentEnabled>>

SvExampleArrives(t) ==
    /\ t.kind = "svexample" /\ editors # "none"
    /\ SetProgram(t.program)
    /\ SetYaml(Witness(t.program, Own))
    /\ Finished(t) /\ Loaded(t)
    /\ UNCHANGED <<editors, select, queues, shown, instrumentEnabled, compileEnabled>>

\* Mutant: the witness is made for the name that is shown before.
BenchmarkArrivesLate(t) ==
    /\ t.kind = "benchmark" /\ editors # "none"
    /\ SetProgram(t.program)
    /\ tasks' = (tasks \ {t}) \cup {Task("skeleton", t.id, filename, select, t.quietly)}
    /\ UNCHANGED <<editors, yaml, timer, select, queues, shown,
                   instrumentEnabled, compileEnabled, user>>

\* The program comes first, and its witness is made for it.
BenchmarkArrives(t) ==
    /\ t.kind = "benchmark" /\ editors # "none"
    /\ SetProgram(t.program)
    /\ tasks' = (tasks \ {t}) \cup {Task("skeleton", t.id, t.program, select, t.quietly)}
    /\ UNCHANGED <<editors, yaml, timer, select, queues, shown,
                   instrumentEnabled, compileEnabled, user>>

Skeleton(t) ==
    /\ t.kind = "skeleton"
    /\ SetYaml(Witness(t.program, t.spec))
    /\ Finished(t) /\ Loaded(t)
    /\ UNCHANGED <<editors, c, filename, select, queues, shown, instrumentEnabled, compileEnabled>>

\* A fetch fails, or there are no editors yet.
LoadFails(t) ==
    /\ t.kind \in Loads
    /\ Finished(t)
    /\ UNCHANGED <<editors, texts, select, queues, shown, instrumentEnabled, compileEnabled, user>>

\* Mutant: updates the other button as well.
ChangeSpecOfBoth(spec) ==
    /\ spec # select /\ select' = spec
    /\ Acts(TRUE)
    /\ compileEnabled' = CompileAllowed(spec)
    /\ instrumentEnabled' = (editors = "ready" /\ worker = "ready")
    /\ IF editors = "none" THEN UNCHANGED tasks
       ELSE Await(Task("spec", actions + 1, Default, spec, FALSE))
    /\ UNCHANGED <<editors, texts, queues, shown>>

ChangeSpec(spec) ==
    /\ spec # select /\ select' = spec
    /\ Acts(TRUE)
    /\ compileEnabled' = CompileAllowed(spec)
    /\ IF editors = "none" THEN UNCHANGED tasks
       ELSE Await(Task("spec", actions + 1, Default, spec, FALSE))
    /\ UNCHANGED <<editors, texts, queues, shown, instrumentEnabled>>

\* The text of the property is there, and put into the witness that is there.
SpecArrives(t) ==
    /\ t.kind = "spec"
    /\ IF yaml.program = NoProgram \/ yaml.spec = t.spec
       THEN UNCHANGED <<yaml, timer>>
       ELSE SetYaml([yaml EXCEPT !.spec = t.spec])
    /\ Finished(t)
    /\ UNCHANGED <<editors, c, filename, select, queues, shown,
                   instrumentEnabled, compileEnabled, user>>

EditYaml ==
    /\ editors # "none"
    /\ Acts(FALSE)
    /\ SetYaml([yaml EXCEPT !.edits = @ + 1])
    /\ UNCHANGED <<editors, c, filename, select, tasks, queues, shown,
                   instrumentEnabled, compileEnabled>>

-----------------------------------------------------------------------------
(* The worker.                                                             *)

Ask(message) == requests' = Append(requests, message)

RunLint ==
    IF editors = "none" THEN UNCHANGED requests ELSE Ask(LintRequest)

\* Mutant: no linting when the runtime is there.
WorkerReadySilently ==
    /\ worker = "loading" /\ worker' = "ready"
    /\ instrumentEnabled' = (editors = "ready")
    /\ UNCHANGED <<editors, texts, select, tasks, requests, shown, compileEnabled, user>>

WorkerReady ==
    /\ worker = "loading" /\ worker' = "ready"
    /\ instrumentEnabled' = (editors = "ready")
    /\ RunLint
    /\ UNCHANGED <<editors, texts, select, tasks, shown, compileEnabled, user>>

WorkerFails ==
    /\ worker = "loading" /\ worker' = "failed"
    /\ UNCHANGED <<editors, texts, select, tasks, requests, shown,
                   instrumentEnabled, compileEnabled, user>>

TimerFires ==
    /\ timer /\ timer' = FALSE
    /\ IF worker = "ready" THEN RunLint ELSE UNCHANGED requests
    /\ UNCHANGED <<editors, c, filename, yaml, select, tasks, worker, shown,
                   instrumentEnabled, compileEnabled, user>>

\* The worker works on the oldest request, and its answer is handled: the
\* answers come in the order of the requests, and there is one whatever the
\* Python code raises, if it returns.
ShowLint ==
    /\ requests # <<>> /\ Head(requests).cmd = "lint"
    /\ shown' = Head(requests).yaml
    /\ requests' = Tail(requests)
    /\ UNCHANGED <<editors, texts, select, tasks, worker,
                   instrumentEnabled, compileEnabled, user>>

Instrument(mode) ==
    /\ instrumentEnabled /\ instrumentEnabled' = FALSE
    /\ Acts(TRUE)
    /\ \E returns \in BOOLEAN : Ask(InstrumentRequest(mode, returns))
    /\ UNCHANGED <<editors, texts, select, tasks, worker, shown, compileEnabled>>

\* Mutant: the button is only enabled again behind a success.
InstrumentedOrNot ==
    /\ requests # <<>> /\ Head(requests).cmd = "instrument" /\ ~Stuck
    /\ requests' = Tail(requests)
    /\ \E ok \in BOOLEAN :
         /\ c' = IF ok THEN [Head(requests).c EXCEPT !.woven = Head(requests).yaml.program] ELSE c
         /\ instrumentEnabled' = ok
    /\ UNCHANGED <<editors, filename, yaml, timer, select, tasks, worker, shown, compileEnabled,
                   user>>

\* The answer replaces whatever the editor holds by now; a bundle waits for
\* svcomp.c; a failure is only logged.
Instrumented ==
    /\ requests # <<>> /\ Head(requests).cmd = "instrument" /\ ~Stuck
    /\ requests' = Tail(requests)
    /\ \/ /\ Head(requests).mode = "inplace"
          /\ c' = [Head(requests).c EXCEPT !.woven = Head(requests).yaml.program]
          /\ instrumentEnabled' = TRUE
          /\ UNCHANGED tasks
       \/ /\ Head(requests).mode = "download"
          /\ Await(Task("bundle", 0, Default, select, FALSE))
          /\ UNCHANGED <<c, instrumentEnabled>>
       \/ /\ instrumentEnabled' = TRUE
          /\ UNCHANGED <<c, tasks>>
    /\ UNCHANGED <<editors, filename, yaml, timer, select, worker, shown, compileEnabled, user>>

\* buildMakefile is called with a name that is not declared: there never is a
\* bundle.
BundleFails(t) ==
    /\ t.kind = "bundle"
    /\ instrumentEnabled' = TRUE
    /\ Finished(t)
    /\ UNCHANGED <<editors, texts, select, queues, shown, compileEnabled, user>>

Compile ==
    /\ compileEnabled /\ compileEnabled' = FALSE
    /\ Acts(FALSE)
    /\ Await(Task("compile", actions + 1, Default, select, FALSE))
    /\ UNCHANGED <<editors, texts, select, queues, shown, instrumentEnabled>>

Compiled(t) ==
    /\ t.kind = "compile"
    /\ compileEnabled' = CompileAllowed(select)
    /\ Finished(t)
    /\ UNCHANGED <<editors, texts, select, queues, shown, instrumentEnabled, user>>

-----------------------------------------------------------------------------

Init ==
    /\ editors = "none"
    /\ c = Program(NoProgram) /\ filename = NoProgram /\ yaml = Empty /\ shown = Empty
    /\ select = Unreach
    /\ tasks = {} /\ worker = "loading" /\ requests = <<>>
    /\ timer = FALSE /\ instrumentEnabled = FALSE /\ compileEnabled = FALSE
    /\ actions = 0 /\ crossed = 0

Continue(t) ==
    \/ FirstSkeleton(t) \/ ExampleArrives(t) \/ SvExampleArrives(t) \/ BenchmarkArrives(t)
    \/ Skeleton(t) \/ LoadFails(t) \/ SpecArrives(t) \/ BundleFails(t) \/ Compiled(t)

Loop ==
    \/ CreateEditors \/ TimerFires \/ ShowLint \/ Instrumented
    \/ \E t \in tasks : Continue(t)

User ==
    \/ \E p \in Examples : Pick("example", p)
    \/ \E p \in Benchmarks : Pick("benchmark", p)
    \/ \E p \in SvExamples : Pick("svexample", p)
    \/ \E spec \in Specs : ChangeSpec(spec)
    \/ EditYaml
    \/ \E mode \in {"inplace", "download"} : Instrument(mode)
    \/ Compile

Next == Loop \/ WorkerReady \/ WorkerFails \/ User

Spec == Init /\ [][Next]_vars

\* The event loop goes on while there is something to do, and fetches end, if only
\* in an error.  So do requests to the worker, unless it is Stuck: then no answer
\* is enabled, and fairness asks for none.
FairSpec == Spec /\ WF_vars(Loop)

-----------------------------------------------------------------------------
(* Properties.                                                             *)

Linting == \E i \in DOMAIN requests : requests[i].cmd = "lint"

\* When the linter is not at work, what it shows is about the witness that is in
\* the editor, in whatever order the runtime, the editors and the texts got
\* ready.  (Only a change starts the timer, and one that fires before the
\* runtime is there does nothing: app.js:658.)
LintFollows ==
    worker = "ready" /\ editors # "none" /\ ~timer /\ ~Linting => shown = yaml

\* There is one instrumentation at a time, and none while the button is enabled.
OneInstrumentation ==
    /\ instrumentEnabled => ~Instrumenting
    /\ \A i, j \in DOMAIN requests :
         requests[i].cmd = "instrument" /\ requests[j].cmd = "instrument" => i = j

\* If nothing was crossed since the last load, the two editors are about one
\* program, the one that is named, and one property.
EditorsAgree ==
    Quiet /\ crossed = 0 =>
      /\ c.program = filename /\ yaml.program = filename
      /\ c.woven \in {NoProgram, c.program}
      /\ yaml.spec \in {select, Own}

\* The C program is only compiled and run to confirm a call of reach_error:
\* every way to select another property disables the button.
CompiledForUnreach == compileEnabled => CompileAllowed(select)

\* Instrumentation ends with the button enabled again, whatever the answer, or it
\* never does: the worker is stuck in the parser, and nothing else that happens
\* on the page brings the button back.
InstrumentationEnds ==
    Instrumenting ~> (instrumentEnabled \/ [](Stuck /\ ~instrumentEnabled))

=============================================================================
