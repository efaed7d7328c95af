-------------------------- MODULE PlaygroundProofs --------------------------
(***************************************************************************)
(* Theorems about Playground, for every set of programs and properties and *)
(* however much the user does.                                             *)
(***************************************************************************)
EXTENDS Playground, TLAPS

-----------------------------------------------------------------------------
(* Types.                                                                  *)

LEMMA TaskTypes ==
    ASSUME NEW kind \in Loads \cup {"first", "skeleton", "spec", "bundle", "compile"},
           NEW id \in Nat, NEW p \in Programs, NEW spec \in Specs, NEW quietly \in BOOLEAN
    PROVE  Task(kind, id, p, spec, quietly) \in Tasks
  BY DEF Task, Tasks

LEMMA TextTypes ==
    /\ \A p \in Programs \cup {NoProgram} : Program(p) \in CTexts
    /\ \A p \in Programs \cup {NoProgram}, spec \in Specs \cup {Own} :
         Witness(p, spec) \in Witnesses
  BY DEF Program, Witness, CTexts, Witnesses

LEMMA TypeInit == Init => TypeOK
<1> SUFFICES ASSUME Init PROVE TypeOK
  OBVIOUS
<1>1. SwitchesOK
  BY DEF Init, SwitchesOK
<1>2. c \in CTexts /\ yaml \in Witnesses /\ shown \in Witnesses
  BY TextTypes DEF Init, Empty
<1> QED
  BY <1>1, <1>2, PlaygroundAssumption DEF Init, TypeOK

LEMMA RequestTypes ==
    ASSUME TypeOK
    PROVE  /\ LintRequest \in Messages
           /\ \A mode \in {"inplace", "download"}, returns \in BOOLEAN :
                InstrumentRequest(mode, returns) \in Messages
  BY TextTypes DEF TypeOK, LintRequest, InstrumentRequest, Messages

LEMMA ActsTypes ==
    ASSUME TypeOK, NEW crossing, Acts(crossing)
    PROVE  /\ actions' \in 0..MaxActions /\ crossed' \in 0..MaxActions
           /\ actions + 1 \in Nat
  BY PlaygroundAssumption DEF Acts, TypeOK

LEMMA SwitchTypes == TypeOK /\ [Next]_vars => SwitchesOK'
<1> SUFFICES ASSUME TypeOK, [Next]_vars PROVE SwitchesOK'
  OBVIOUS
<1> USE DEF SwitchesOK
<1>1. \A spec : CompileAllowed(spec) \in BOOLEAN
  BY DEF CompileAllowed
<1>2. CASE CreateEditors \/ TimerFires \/ ShowLint \/ Instrumented
  BY <1>2 DEF TypeOK, CreateEditors, TimerFires, ShowLint, Instrumented, texts
<1>3. ASSUME NEW t \in tasks, Continue(t) PROVE SwitchesOK'
  BY <1>1, <1>3 DEF TypeOK, Continue, FirstSkeleton, ExampleArrives, SvExampleArrives,
     BenchmarkArrives, Skeleton, LoadFails, SpecArrives, BundleFails, Compiled, SetYaml, texts
<1>4. CASE WorkerReady \/ WorkerFails
  BY <1>4 DEF TypeOK, WorkerReady, WorkerFails, texts
<1>5. CASE User
  BY <1>1, <1>5 DEF TypeOK, User, Pick, ChangeSpec, EditYaml, SetYaml, Instrument, Compile, texts
<1>6. CASE UNCHANGED vars
  BY <1>6 DEF TypeOK, vars, texts
<1> QED
  BY <1>2, <1>3, <1>4, <1>5, <1>6 DEF Next, Loop

LEMMA LoopTypes ==
    ASSUME TypeOK, CreateEditors \/ TimerFires \/ ShowLint \/ Instrumented, SwitchesOK'
    PROVE  TypeOK'
<1>1. CASE CreateEditors
  <2>1. /\ Task("first", 0, Default, select, FALSE) \in Tasks
        /\ Task("first", 0, Default, select, FALSE).kind # "example"
        /\ Program(Default) \in CTexts
    BY PlaygroundAssumption, TaskTypes, TextTypes DEF TypeOK, Task
  <2> QED
    BY <1>1, <2>1, PlaygroundAssumption DEF CreateEditors, TypeOK, queues, user, Await
<1>2. CASE TimerFires
  BY <1>2, RequestTypes DEF TimerFires, RunLint, Ask, TypeOK, user
<1>3. CASE ShowLint
  <2>1. Head(requests) \in Messages /\ Tail(requests) \in Seq(Messages)
    BY <1>3 DEF ShowLint, TypeOK
  <2>2. Head(requests).yaml \in Witnesses
    BY <2>1 DEF Messages
  <2> QED
    BY <1>3, <2>1, <2>2 DEF ShowLint, TypeOK, texts, user
<1>4. CASE Instrumented
  <2>1. Head(requests) \in Messages /\ Tail(requests) \in Seq(Messages)
    BY <1>4 DEF Instrumented, TypeOK
  <2>2. [Head(requests).c EXCEPT !.woven = Head(requests).yaml.program] \in CTexts
    BY <2>1 DEF Messages, CTexts, Witnesses
  <2>3. /\ Task("bundle", 0, Default, select, FALSE) \in Tasks
        /\ Task("bundle", 0, Default, select, FALSE).kind # "example"
    BY PlaygroundAssumption, TaskTypes DEF TypeOK, Task
  <2> QED
    BY <1>4, <2>1, <2>2, <2>3 DEF Instrumented, TypeOK, user, Await
<1> QED
  BY <1>1, <1>2, <1>3, <1>4

LEMMA TaskStepTypes ==
    ASSUME TypeOK, NEW t \in tasks, Continue(t), SwitchesOK'
    PROVE  TypeOK'
<1>1. /\ t \in Tasks /\ t.id \in Nat /\ t.program \in Programs /\ t.spec \in Specs
      /\ t.quietly \in BOOLEAN
  BY DEF TypeOK, Tasks
<1>2. CASE FirstSkeleton(t)
  BY <1>1, <1>2, TextTypes DEF FirstSkeleton, TypeOK, SetYaml, Finished, queues, user
<1>3. Loaded(t) => actions' \in 0..MaxActions /\ crossed' \in 0..MaxActions
  BY PlaygroundAssumption DEF Loaded, TypeOK
<1>4. CASE ExampleArrives(t)
  <2>1. SpecOf[t.program] \in Specs
    BY <1>4, PlaygroundAssumption DEF ExampleArrives, TypeOK
  <2>2. /\ Task("spec", t.id, t.program, SpecOf[t.program], FALSE) \in Tasks
        /\ Task("spec", t.id, t.program, SpecOf[t.program], FALSE).kind # "example"
    BY <1>1, <2>1, TaskTypes DEF Task
  <2> QED
    BY <1>1, <1>3, <1>4, <2>1, <2>2, TextTypes
    DEF ExampleArrives, TypeOK, SetProgram, SetYaml, queues
<1>5. CASE SvExampleArrives(t)
  BY <1>1, <1>3, <1>5, TextTypes
  DEF SvExampleArrives, TypeOK, SetProgram, SetYaml, Finished, queues
<1>6. CASE BenchmarkArrives(t)
  <2>1. /\ Task("skeleton", t.id, t.program, select, t.quietly) \in Tasks
        /\ Task("skeleton", t.id, t.program, select, t.quietly).kind # "example"
    BY <1>1, TaskTypes DEF Task, TypeOK
  <2> QED
    BY <1>1, <1>6, <2>1, TextTypes DEF BenchmarkArrives, TypeOK, SetProgram, queues, user
<1>7. CASE Skeleton(t)
  BY <1>1, <1>3, <1>7, TextTypes DEF Skeleton, TypeOK, SetYaml, Finished, queues
<1>8. CASE LoadFails(t)
  BY <1>8 DEF LoadFails, TypeOK, Finished, texts, queues, user
<1>9. CASE SpecArrives(t)
  <2>1. [yaml EXCEPT !.spec = t.spec] \in Witnesses
    BY <1>1 DEF TypeOK, Witnesses
  <2> QED
    BY <1>9, <2>1 DEF SpecArrives, TypeOK, SetYaml, Finished, queues, user
<1>10. CASE BundleFails(t)
  BY <1>10 DEF BundleFails, TypeOK, Finished, texts, queues, user
<1>11. CASE Compiled(t)
  BY <1>11 DEF Compiled, TypeOK, Finished, texts, queues, user
<1> QED
  BY <1>2, <1>4, <1>5, <1>6, <1>7, <1>8, <1>9, <1>10, <1>11 DEF Continue

LEMMA UserTypes ==
    ASSUME TypeOK, User, SwitchesOK'
    PROVE  TypeOK'
<1> USE PlaygroundAssumption
<1>1. /\ actions' \in 0..MaxActions /\ crossed' \in 0..MaxActions
      /\ actions + 1 \in Nat
  BY ActsTypes DEF User, Pick, ChangeSpec, EditYaml, Instrument, Compile
<1>2. ASSUME NEW kind \in Loads, NEW p \in Programs, Pick(kind, p),
             kind = "example" => p \in Examples
      PROVE  TypeOK'
  <2>1. Quiet \in BOOLEAN
    BY DEF Quiet
  <2>2. /\ Task(kind, actions + 1, p, select, Quiet) \in Tasks
        /\ Task(kind, actions + 1, p, select, Quiet).kind = kind
        /\ Task(kind, actions + 1, p, select, Quiet).program = p
    BY <1>1, <2>1, TaskTypes DEF Task, TypeOK
  <2> QED
    BY <1>1, <1>2, <2>2 DEF Pick, TypeOK, Await, texts, queues
<1>3. ASSUME NEW spec \in Specs, ChangeSpec(spec)
      PROVE  TypeOK'
  <2>1. /\ Task("spec", actions + 1, Default, spec, FALSE) \in Tasks
        /\ Task("spec", actions + 1, Default, spec, FALSE).kind # "example"
    BY <1>1, TaskTypes DEF Task
  <2> QED
    BY <1>1, <1>3, <2>1 DEF ChangeSpec, TypeOK, Await, texts, queues
<1>4. CASE EditYaml
  <2>1. [yaml EXCEPT !.edits = @ + 1] \in Witnesses
    BY DEF TypeOK, Witnesses
  <2> QED
    BY <1>1, <1>4, <2>1 DEF EditYaml, TypeOK, SetYaml, queues
<1>5. ASSUME NEW mode \in {"inplace", "download"}, Instrument(mode)
      PROVE  TypeOK'
  BY <1>1, <1>5, RequestTypes DEF Instrument, TypeOK, Ask, texts
<1>6. CASE Compile
  <2>1. /\ Task("compile", actions + 1, Default, select, FALSE) \in Tasks
        /\ Task("compile", actions + 1, Default, select, FALSE).kind # "example"
    BY <1>1, TaskTypes DEF Task, TypeOK
  <2> QED
    BY <1>1, <1>6, <2>1 DEF Compile, TypeOK, Await, texts, queues
<1> QED
  BY <1>2, <1>3, <1>4, <1>5, <1>6 DEF User, Loads

LEMMA TypeStep == TypeOK /\ [Next]_vars => TypeOK'
<1> SUFFICES ASSUME TypeOK, [Next]_vars PROVE TypeOK'
  OBVIOUS
<1>1. SwitchesOK'
  BY SwitchTypes
<1>2. CASE WorkerReady \/ WorkerFails
  BY <1>1, <1>2, RequestTypes DEF WorkerReady, WorkerFails, RunLint, Ask, TypeOK, texts, user
<1>3. CASE UNCHANGED vars
  BY <1>3 DEF vars, texts, queues, user, TypeOK, SwitchesOK
<1> QED
  BY <1>1, <1>2, <1>3, LoopTypes, TaskStepTypes, UserTypes DEF Next, Loop

\* TypeOK, for every set of programs: what a task is continued with is what it
\* was started with.
THEOREM PlaygroundTypes == Spec => []TypeOK
  BY TypeInit, TypeStep, PTL DEF Spec

-----------------------------------------------------------------------------
(* The buttons.                                                            *)

\* Whatever selects a property updates the button, and nothing enables it
\* otherwise.
THEOREM CompilesForUnreach == Spec => []CompiledForUnreach
<1> USE DEF CompiledForUnreach, CompileAllowed
<1>1. Init => CompiledForUnreach
  BY DEF Init
<1>2. CompiledForUnreach /\ [Next]_vars => CompiledForUnreach'
  <2> SUFFICES ASSUME CompiledForUnreach, [Next]_vars PROVE CompiledForUnreach'
    OBVIOUS
  <2>1. CASE CreateEditors \/ TimerFires \/ ShowLint \/ Instrumented
    BY <2>1 DEF CreateEditors, TimerFires, ShowLint, Instrumented
  <2>2. ASSUME NEW t \in tasks, Continue(t) PROVE CompiledForUnreach'
    <3>1. CASE FirstSkeleton(t)
      BY <3>1 DEF FirstSkeleton
    <3>2. CASE ExampleArrives(t)
      BY <3>2 DEF ExampleArrives
    <3>3. CASE Compiled(t)
      BY <3>3 DEF Compiled
    <3> QED
      BY <2>2, <3>1, <3>2, <3>3 DEF Continue, SvExampleArrives, BenchmarkArrives, Skeleton,
         LoadFails, SpecArrives, BundleFails
  <2>3. CASE WorkerReady \/ WorkerFails
    BY <2>3 DEF WorkerReady, WorkerFails
  <2>4. CASE User
    BY <2>4 DEF User, Pick, ChangeSpec, EditYaml, Instrument, Compile
  <2>5. CASE UNCHANGED vars
    BY <2>5 DEF vars
  <2> QED
    BY <2>1, <2>2, <2>3, <2>4, <2>5 DEF Next, Loop
<1> QED
  BY <1>1, <1>2, PTL DEF Spec

IsInstrument(i) == i \in DOMAIN requests /\ requests[i].cmd = "instrument"
Of(kind) == {t \in tasks : t.kind = kind}

\* An instrumentation is a request or a bundle, and the button is disabled for
\* it; before the first skeleton is in there is none.
InstrumentInv ==
    /\ \A i : IsInstrument(i) => \A j : IsInstrument(j) => i = j
    /\ \A t, u \in Of("bundle") : t = u
    /\ \A t, u \in Of("first") : t = u
    /\ \A i : IsInstrument(i) =>
         ~instrumentEnabled /\ Of("bundle") = {} /\ editors = "ready" /\ worker = "ready"
    /\ Of("bundle") # {} => ~instrumentEnabled /\ editors = "ready" /\ worker = "ready"
    /\ instrumentEnabled => editors = "ready" /\ worker = "ready"
    /\ Of("first") # {} => editors = "created"

LEMMA InstrumentInvInit == Init => InstrumentInv
  BY DEF Init, InstrumentInv, IsInstrument, Of

\* Requests other than instrumentations come and go.
LEMMA RequestsKept ==
    ASSUME TypeOK, InstrumentInv, UNCHANGED <<instrumentEnabled, editors, worker>>,
           UNCHANGED <<Of("bundle"), Of("first")>>,
           \/ UNCHANGED requests
           \/ requests' = Append(requests, LintRequest)
           \/ requests # <<>> /\ Head(requests).cmd = "lint" /\ requests' = Tail(requests)
    PROVE  InstrumentInv'
<1>1. CASE UNCHANGED requests
  BY <1>1 DEF InstrumentInv, IsInstrument
<1>2. CASE requests' = Append(requests, LintRequest)
  <2>1. LintRequest.cmd = "lint"
    BY DEF LintRequest
  <2>2. \A i : IsInstrument(i)' => IsInstrument(i)
    BY <1>2, <2>1 DEF IsInstrument, TypeOK
  <2> QED
    BY <2>2 DEF InstrumentInv
<1>3. CASE requests # <<>> /\ Head(requests).cmd = "lint" /\ requests' = Tail(requests)
  <2>1. \A i : IsInstrument(i)' => i \in Nat /\ IsInstrument(i + 1)
    BY <1>3 DEF IsInstrument, TypeOK
  <2> QED
    BY <2>1 DEF InstrumentInv
<1> QED
  BY <1>1, <1>2, <1>3

LEMMA InstrumentInvLoop ==
    ASSUME TypeOK, InstrumentInv, CreateEditors \/ TimerFires \/ ShowLint \/ Instrumented
    PROVE  InstrumentInv'
<1>1. CASE CreateEditors
  <2>1. Of("first") = {} /\ ~instrumentEnabled /\ Of("bundle") = {} /\ \A i : ~IsInstrument(i)
    BY <1>1 DEF CreateEditors, InstrumentInv
  <2>2. Of("first")' = {Task("first", 0, Default, select, FALSE)} /\ Of("bundle")' = {}
    BY <1>1, <2>1 DEF CreateEditors, Await, Of, Task
  <2>3. \A i : ~IsInstrument(i)'
    BY <1>1, <2>1 DEF CreateEditors, queues, IsInstrument
  <2>4. editors' = "created" /\ ~instrumentEnabled'
    BY <1>1, <2>1 DEF CreateEditors
  <2> QED
    BY <2>2, <2>3, <2>4 DEF InstrumentInv
<1>2. CASE TimerFires
  BY <1>2, RequestsKept DEF TimerFires, RunLint, Ask, Of
<1>3. CASE ShowLint
  BY <1>3, RequestsKept DEF ShowLint, Of
<1>4. CASE Instrumented
  <2>1. /\ IsInstrument(1) /\ Of("bundle") = {} /\ editors = "ready" /\ worker = "ready"
        /\ ~instrumentEnabled /\ Of("first") = {}
    BY <1>4 DEF Instrumented, InstrumentInv, IsInstrument, TypeOK
  <2>2. \A i : ~IsInstrument(i)'
    <3> SUFFICES ASSUME NEW i, IsInstrument(i)' PROVE FALSE
      OBVIOUS
    <3>1. i \in Nat \ {0} /\ IsInstrument(i + 1)
      BY <1>4 DEF Instrumented, IsInstrument, TypeOK
    <3> QED
      BY <2>1, <3>1 DEF InstrumentInv
  <2>3. UNCHANGED <<editors, worker>>
    BY <1>4 DEF Instrumented
  <2>4. CASE UNCHANGED tasks
    BY <2>1, <2>2, <2>3, <2>4 DEF InstrumentInv, Of
  <2>5. CASE Await(Task("bundle", 0, Default, select, FALSE)) /\ UNCHANGED instrumentEnabled
    <3>1. Of("first")' = {} /\ Of("bundle")' = {Task("bundle", 0, Default, select, FALSE)}
      BY <2>1, <2>5 DEF Await, Of, Task
    <3> QED
      BY <2>1, <2>2, <2>3, <2>5, <3>1 DEF InstrumentInv
  <2> QED
    BY <1>4, <2>4, <2>5 DEF Instrumented
<1> QED
  BY <1>1, <1>2, <1>3, <1>4

LEMMA InstrumentInvTask ==
    ASSUME TypeOK, InstrumentInv, NEW t \in tasks, Continue(t)
    PROVE  InstrumentInv'
<1>1. CASE FirstSkeleton(t)
  <2>1. /\ Of("bundle") = {} /\ ~instrumentEnabled /\ \A i : ~IsInstrument(i)
    BY <1>1 DEF FirstSkeleton, InstrumentInv, Of
  <2>2. Of("first")' = {} /\ Of("bundle")' = {}
    BY <1>1, <2>1 DEF FirstSkeleton, Finished, InstrumentInv, Of
  <2>3. \A i : ~IsInstrument(i)'
    BY <1>1, <2>1 DEF FirstSkeleton, queues, IsInstrument
  <2>4. editors' = "ready" /\ (instrumentEnabled' => worker' = "ready")
    BY <1>1 DEF FirstSkeleton, queues
  <2> QED
    BY <2>2, <2>3, <2>4 DEF InstrumentInv
<1>2. CASE BundleFails(t)
  <2>1. /\ t \in Of("bundle") /\ \A i : ~IsInstrument(i)
        /\ editors = "ready" /\ worker = "ready" /\ Of("first") = {}
    BY <1>2 DEF BundleFails, InstrumentInv, Of
  <2>2. Of("first")' = {} /\ Of("bundle")' = {}
    BY <1>2, <2>1 DEF BundleFails, Finished, InstrumentInv, Of
  <2>3. (\A i : ~IsInstrument(i)') /\ UNCHANGED <<editors, worker>>
    BY <1>2, <2>1 DEF BundleFails, queues, IsInstrument
  <2> QED
    BY <2>1, <2>2, <2>3 DEF InstrumentInv
<1>3. CASE ~FirstSkeleton(t) /\ ~BundleFails(t)
  <2>1. UNCHANGED <<Of("bundle"), Of("first")>>
    BY <1>3 DEF Continue, ExampleArrives, SvExampleArrives, BenchmarkArrives, Skeleton, LoadFails,
       SpecArrives, Compiled, Finished, Of, Task, Loads
  <2>2. UNCHANGED <<instrumentEnabled, editors, worker, requests>>
    BY <1>3 DEF Continue, ExampleArrives, SvExampleArrives, BenchmarkArrives, Skeleton, LoadFails,
       SpecArrives, Compiled, queues
  <2> QED
    BY <2>1, <2>2, RequestsKept
<1> QED
  BY <1>1, <1>2, <1>3

LEMMA InstrumentInvUser ==
    ASSUME TypeOK, InstrumentInv, User
    PROVE  InstrumentInv'
<1>1. ASSUME NEW mode \in {"inplace", "download"}, Instrument(mode) PROVE InstrumentInv'
  <2>1. /\ editors = "ready" /\ worker = "ready" /\ Of("bundle") = {} /\ Of("first") = {}
        /\ \A i : ~IsInstrument(i)
    BY <1>1 DEF Instrument, InstrumentInv
  <2>2. \A i : IsInstrument(i)' => i = Len(requests) + 1
    BY <1>1, <2>1 DEF Instrument, Ask, IsInstrument, TypeOK
  <2>3. ~instrumentEnabled' /\ UNCHANGED <<editors, worker, tasks>>
    BY <1>1 DEF Instrument
  <2> QED
    BY <2>1, <2>2, <2>3 DEF InstrumentInv, Of
<1>2. CASE EditYaml
  BY <1>2, RequestsKept DEF EditYaml, queues, Of
<1>3. ASSUME NEW kind \in Loads, NEW p, Pick(kind, p) PROVE InstrumentInv'
  <2>1. UNCHANGED <<Of("bundle"), Of("first")>>
    BY <1>3 DEF Pick, Await, Of, Task, Loads
  <2> QED
    BY <1>3, <2>1, RequestsKept DEF Pick, queues
<1>4. ASSUME NEW spec \in Specs, ChangeSpec(spec) PROVE InstrumentInv'
  <2>1. UNCHANGED <<Of("bundle"), Of("first")>>
    BY <1>4 DEF ChangeSpec, Await, Of, Task
  <2> QED
    BY <1>4, <2>1, RequestsKept DEF ChangeSpec, queues
<1>5. CASE Compile
  <2>1. UNCHANGED <<Of("bundle"), Of("first")>>
    BY <1>5 DEF Compile, Await, Of, Task
  <2> QED
    BY <1>5, <2>1, RequestsKept DEF Compile, queues
<1> QED
  BY <1>1, <1>2, <1>3, <1>4, <1>5 DEF User, Loads

LEMMA InstrumentInvStep == TypeOK /\ InstrumentInv /\ [Next]_vars => InstrumentInv'
<1> SUFFICES ASSUME TypeOK, InstrumentInv, [Next]_vars PROVE InstrumentInv'
  OBVIOUS
<1>1. CASE WorkerReady
  <2>1. ~instrumentEnabled /\ Of("bundle") = {} /\ \A i : ~IsInstrument(i)
    BY <1>1 DEF WorkerReady, InstrumentInv
  <2>2. LintRequest.cmd = "lint"
    BY DEF LintRequest
  <2>3. \A i : ~IsInstrument(i)'
    BY <1>1, <2>1, <2>2 DEF WorkerReady, RunLint, Ask, IsInstrument, TypeOK
  <2>4. /\ worker' = "ready" /\ UNCHANGED <<editors, tasks>>
        /\ instrumentEnabled' => editors = "ready"
    BY <1>1 DEF WorkerReady
  <2> QED
    BY <2>1, <2>3, <2>4 DEF InstrumentInv, Of
<1>2. CASE WorkerFails
  BY <1>2 DEF WorkerFails, InstrumentInv, IsInstrument, Of
<1>3. CASE UNCHANGED vars
  BY <1>3, RequestsKept DEF vars, queues, Of
<1> QED
  BY <1>1, <1>2, <1>3, InstrumentInvLoop, InstrumentInvTask, InstrumentInvUser DEF Next, Loop

\* One instrumentation at a time, however the runtime, the editors and the
\* answers come.
THEOREM InstrumentsOneAtATime == Spec => []OneInstrumentation
<1>1. InstrumentInv => OneInstrumentation
  BY DEF InstrumentInv, OneInstrumentation, Instrumenting, IsInstrument, Of
<1> QED
  BY <1>1, TypeInit, TypeStep, InstrumentInvInit, InstrumentInvStep, PTL DEF Spec

-----------------------------------------------------------------------------
(* The linter.                                                             *)

IsLint(i) == i \in DOMAIN requests /\ requests[i].cmd = "lint"

\* Without editors there is nothing to be linted, and nothing that a task could
\* put into one.
NothingYet ==
    editors = "none" =>
      /\ requests = <<>> /\ yaml = Empty /\ shown = Empty
      /\ \A t \in tasks : t.kind \notin {"first", "example", "skeleton", "spec"}

\* Unless the timer is going to ask again, the request that was made last is
\* about the witness that is there, and so is what is shown behind it.
AskedLast ==
    worker = "ready" /\ editors # "none" /\ ~timer =>
      \/ shown = yaml /\ \A i : ~IsLint(i)
      \/ \E i : /\ IsLint(i) /\ requests[i].yaml = yaml
                /\ \A j : IsLint(j) => j <= i

LintInv == NothingYet /\ AskedLast

LEMMA NothingYetStep == TypeOK /\ InstrumentInv /\ NothingYet /\ [Next]_vars => NothingYet'
<1> SUFFICES ASSUME TypeOK, InstrumentInv, NothingYet, [Next]_vars, editors' = "none"
             PROVE  NothingYet'
  BY DEF NothingYet
<1> USE DEF NothingYet
<1>1. ASSUME NEW t \in tasks, Continue(t) PROVE NothingYet'
  <2>a. editors = "none"
    BY <1>1 DEF Continue, FirstSkeleton, ExampleArrives, SvExampleArrives,
       BenchmarkArrives, Skeleton, LoadFails, SpecArrives, BundleFails, Compiled
  <2>b. t.kind \in Loads \cup {"first", "skeleton", "spec", "bundle", "compile"}
    BY DEF TypeOK, Tasks
  <2>1. t.kind \in (Loads \ {"example"}) \cup {"bundle", "compile"}
    BY <2>a, <2>b DEF Loads
  <2> QED
    BY <1>1, <2>a, <2>1 DEF Continue, FirstSkeleton, ExampleArrives, SvExampleArrives,
       BenchmarkArrives, Skeleton, LoadFails, SpecArrives, BundleFails, Compiled, Finished,
       texts, queues, Loads
<1>2. CASE CreateEditors \/ TimerFires \/ ShowLint \/ Instrumented
  BY <1>2 DEF CreateEditors, TimerFires, RunLint, ShowLint, Instrumented, Task
<1>3. CASE WorkerReady \/ WorkerFails
  BY <1>3 DEF WorkerReady, WorkerFails, RunLint, texts
<1>4. CASE User
  <2>1. editors = "none"
    BY <1>4 DEF User, Pick, ChangeSpec, EditYaml, Instrument, Compile
  <2>2. \A mode : ~Instrument(mode)
    BY <2>1 DEF Instrument, InstrumentInv
  <2>3. UNCHANGED <<requests, yaml, shown>>
    BY <1>4, <2>1, <2>2 DEF User, Pick, ChangeSpec, EditYaml, Compile, texts, queues
  <2>4. ASSUME NEW kind \in Loads, NEW p, Pick(kind, p) PROVE NothingYet'
    BY <2>1, <2>3, <2>4 DEF Pick, Await, Task, Loads
  <2>5. ASSUME NEW spec, ChangeSpec(spec) PROVE NothingYet'
    BY <2>1, <2>3, <2>5 DEF ChangeSpec
  <2>6. CASE EditYaml \/ Compile
    BY <2>1, <2>3, <2>6 DEF EditYaml, Compile, Await, Task
  <2> QED
    BY <1>4, <2>2, <2>4, <2>5, <2>6 DEF User, Loads
<1>5. CASE UNCHANGED vars
  BY <1>5 DEF vars, texts, queues
<1> QED
  BY <1>1, <1>2, <1>3, <1>4, <1>5 DEF Next, Loop

\* A new request for the linter is the last one.
LEMMA LintAsked ==
    ASSUME TypeOK, requests' = Append(requests, LintRequest), UNCHANGED yaml
    PROVE  AskedLast'
<1>1. LintRequest.cmd = "lint" /\ LintRequest.yaml = yaml
  BY DEF LintRequest
<1>2. PICK n : n = Len(requests) + 1
  OBVIOUS
<1>3. IsLint(n)' /\ requests'[n].yaml = yaml'
  BY <1>1, <1>2 DEF IsLint, TypeOK
<1>4. ASSUME NEW j, IsLint(j)' PROVE j <= n
  <2>1. DOMAIN requests' = 1..n
    BY <1>2 DEF TypeOK
  <2>2. j \in 1..n /\ n \in Nat
    BY <1>2, <1>4, <2>1 DEF IsLint, TypeOK
  <2> QED
    BY <2>2
<1> QED
  BY <1>3, <1>4 DEF AskedLast

\* Nor does any other request or answer change what was asked last.
LEMMA LintKept ==
    ASSUME TypeOK, AskedLast, UNCHANGED <<worker, yaml, timer, shown>>,
           editors' # "none" => editors # "none",
           \/ UNCHANGED requests
           \/ \E mode, returns : requests' = Append(requests, InstrumentRequest(mode, returns))
           \/ requests # <<>> /\ Head(requests).cmd = "instrument" /\ requests' = Tail(requests)
    PROVE  AskedLast'
<1>1. CASE UNCHANGED requests
  BY <1>1 DEF AskedLast, IsLint
<1>2. ASSUME NEW mode, NEW returns, requests' = Append(requests, InstrumentRequest(mode, returns))
      PROVE  AskedLast'
  <2>1. InstrumentRequest(mode, returns).cmd = "instrument"
    BY DEF InstrumentRequest
  <2>2. \A i : IsLint(i)' <=> IsLint(i)
    BY <1>2, <2>1 DEF IsLint, TypeOK
  <2>3. \A i : IsLint(i) => requests'[i] = requests[i]
    BY <1>2 DEF IsLint, TypeOK
  <2> QED
    BY <2>2, <2>3 DEF AskedLast
<1>3. CASE requests # <<>> /\ Head(requests).cmd = "instrument" /\ requests' = Tail(requests)
  <2>1. \A i : IsLint(i)' => i \in Nat /\ IsLint(i + 1)
    BY <1>3 DEF IsLint, TypeOK
  <2>2. \A i : IsLint(i) => i \in Nat /\ IsLint(i - 1)' /\ requests'[i - 1] = requests[i]
    BY <1>3 DEF IsLint, TypeOK
  <2> QED
    BY <2>1, <2>2 DEF AskedLast
<1> QED
  BY <1>1, <1>2, <1>3

\* The answer that is shown is about the witness that is there, or another one
\* is still to come.
LEMMA LintShown ==
    ASSUME TypeOK, AskedLast, ShowLint
    PROVE  AskedLast'
<1> SUFFICES ASSUME worker = "ready", editors # "none", ~timer
             PROVE  \/ shown' = yaml' /\ \A i : ~IsLint(i)'
                    \/ \E i : /\ IsLint(i)' /\ requests'[i].yaml = yaml'
                              /\ \A j : IsLint(j)' => j <= i
  BY DEF AskedLast, ShowLint, texts
<1>1. IsLint(1)
  BY DEF ShowLint, IsLint, TypeOK
<1>2. PICK i : /\ IsLint(i) /\ requests[i].yaml = yaml
               /\ \A j : IsLint(j) => j <= i
  BY <1>1 DEF AskedLast
<1>3. UNCHANGED yaml
  BY DEF ShowLint, texts
<1>4. \A j : IsLint(j)' => j \in Nat \ {0} /\ IsLint(j + 1)
  BY DEF ShowLint, IsLint, TypeOK
<1>5. CASE i = 1
  <2>1. \A j : ~IsLint(j)'
    BY <1>2, <1>4, <1>5
  <2>2. shown' = yaml
    BY <1>2, <1>5 DEF ShowLint, TypeOK
  <2> QED
    BY <1>3, <2>1, <2>2
<1>6. CASE i # 1
  <2>1. i \in Nat /\ IsLint(i - 1)' /\ requests'[i - 1].yaml = yaml
    BY <1>2, <1>6 DEF ShowLint, IsLint, TypeOK
  <2> QED
    BY <1>2, <1>3, <1>4, <2>1
<1> QED
  BY <1>5, <1>6

LEMMA AskedLastStep == TypeOK /\ LintInv /\ [Next]_vars => AskedLast'
<1> SUFFICES ASSUME TypeOK, LintInv, [Next]_vars PROVE AskedLast'
  OBVIOUS
<1> USE DEF LintInv
<1>1. CASE CreateEditors
  BY <1>1 DEF CreateEditors, NothingYet, AskedLast, IsLint, queues
<1>2. CASE TimerFires \/ WorkerReady
  <2>1. CASE requests' = Append(requests, LintRequest)
    BY <1>2, <2>1, LintAsked DEF TimerFires, WorkerReady, texts
  <2>2. CASE worker' # "ready" \/ editors' = "none"
    BY <2>2 DEF AskedLast
  <2> QED
    BY <1>2, <2>1, <2>2 DEF TimerFires, WorkerReady, RunLint, Ask
<1>3. CASE ShowLint
  BY <1>3, LintShown
<1>4. CASE Instrumented
  BY <1>4, LintKept DEF Instrumented
<1>5. ASSUME SetYaml(yaml') PROVE AskedLast'
  BY <1>5 DEF SetYaml, AskedLast
<1>6. ASSUME NEW t \in tasks, Continue(t) PROVE AskedLast'
  <2>1. CASE FirstSkeleton(t) \/ ExampleArrives(t) \/ SvExampleArrives(t) \/ Skeleton(t)
    BY <1>5, <2>1 DEF FirstSkeleton, ExampleArrives, SvExampleArrives, Skeleton, SetYaml
  <2>2. CASE SpecArrives(t)
    BY <1>5, <2>2, LintKept DEF SpecArrives, SetYaml, queues
  <2>3. CASE BenchmarkArrives(t) \/ LoadFails(t) \/ BundleFails(t) \/ Compiled(t)
    BY <2>3, LintKept DEF BenchmarkArrives, LoadFails, BundleFails, Compiled, texts, queues
  <2> QED
    BY <1>6, <2>1, <2>2, <2>3 DEF Continue
<1>7. CASE WorkerFails
  BY <1>7 DEF WorkerFails, AskedLast
<1>8. CASE User
  BY <1>5, <1>8, LintKept DEF User, Pick, ChangeSpec, EditYaml, SetYaml, Instrument, Ask,
     Compile, texts, queues
<1>9. CASE UNCHANGED vars
  BY <1>9, LintKept DEF vars, texts, queues
<1> QED
  BY <1>1, <1>2, <1>3, <1>4, <1>6, <1>7, <1>8, <1>9 DEF Next, Loop

\* What the linter shows when it is not at work is about the witness that is in
\* the editor, however often it has been changed.
THEOREM LintsWhatIsThere == Spec => []LintFollows
<1>1. Init => LintInv
  BY DEF Init, LintInv, NothingYet, AskedLast
<1>2. LintInv => LintFollows
  BY DEF LintInv, AskedLast, LintFollows, Linting, IsLint
<1>3. TypeOK /\ InstrumentInv /\ LintInv /\ [Next]_vars => LintInv'
  BY NothingYetStep, AskedLastStep DEF LintInv
<1> QED
  BY <1>1, <1>2, <1>3, TypeInit, TypeStep, InstrumentInvInit, InstrumentInvStep, PTL DEF Spec

-----------------------------------------------------------------------------
(* The two editors.                                                        *)

\* What is under way for the editors: tasks, and instrumentations asked for.
Pending == {t \in tasks : t.kind # "compile"}
Asked == {requests[i] : i \in {j \in DOMAIN requests : requests[j].cmd = "instrument"}}
Alone(t) == Pending = {t} /\ Asked = {}

\* The program that t makes a witness for is in the editor.
Made(t) == c = Program(t.program) /\ filename = t.program /\ t.spec = select

\* A load that nothing has crossed is alone: it was picked when all was quiet,
\* and whatever came behind it would have crossed it.
LoadsOK ==
    /\ crossed <= actions
    /\ editors # "none" => filename \in Programs
    /\ \A t \in tasks :
         /\ t.id <= actions
         /\ t.kind \in Loads \cup {"skeleton"} =>
              /\ t.id > 0
              /\ crossed < t.id => t.quietly /\ Alone(t) /\ editors = "ready"
              /\ crossed < t.id /\ t.kind = "skeleton" => Made(t)

ProgramsAgree ==
    /\ c.program = filename /\ yaml.program = filename
    /\ c.woven \in {NoProgram, c.program}

\* When nothing was crossed, the editors agree but for what the one thing that
\* is under way is about to put right.
AgreedOK ==
    crossed = 0 =>
      /\ editors = "none" => Pending = {}
      /\ editors = "created" =>
           /\ c = Program(Default) /\ filename = Default
           /\ \A t \in Pending : t.kind = "first" /\ t.program = Default /\ t.spec = select
      /\ editors = "ready" =>
           /\ \A t \in Pending : Alone(t) /\ (t.kind = "spec" => t.spec = select)
           /\ (\A t \in Pending : t.kind # "skeleton") => ProgramsAgree
           /\ (\A t \in Pending : t.kind \notin {"skeleton", "spec"}) =>
                yaml.spec \in {select, Own}
           /\ \A r \in Asked : r.c.program = filename /\ r.yaml.program = filename

EditorsInv == LoadsOK /\ AgreedOK

LEMMA QuietIsAlone == TypeOK => (Quiet <=> editors = "ready" /\ Pending = {} /\ Asked = {})
  BY DEF Quiet, Instrumenting, Pending, Asked

LEMMA AskedFor == \A r : r \in Asked <=> \E i : IsInstrument(i) /\ r = requests[i]
  BY DEF Asked, IsInstrument

LEMMA AskedForThen == \A r : r \in Asked' <=> \E i : IsInstrument(i)' /\ r = requests'[i]
  BY DEF Asked, IsInstrument

\* The linter's requests do not concern it, ...
LEMMA AskedKept ==
    ASSUME TypeOK,
           \/ UNCHANGED requests
           \/ requests' = Append(requests, LintRequest)
           \/ requests # <<>> /\ Head(requests).cmd = "lint" /\ requests' = Tail(requests)
    PROVE  UNCHANGED Asked
<1>1. CASE UNCHANGED requests
  BY <1>1 DEF Asked
<1>2. CASE requests' = Append(requests, LintRequest)
  <2>1. LintRequest.cmd = "lint"
    BY DEF LintRequest
  <2>2. \A i : IsInstrument(i)' => IsInstrument(i) /\ requests'[i] = requests[i]
    BY <1>2, <2>1 DEF IsInstrument, TypeOK
  <2>3. \A i : IsInstrument(i) => IsInstrument(i)' /\ requests'[i] = requests[i]
    BY <1>2 DEF IsInstrument, TypeOK
  <2>4. \A r : r \in Asked' <=> r \in Asked
    BY <2>2, <2>3, AskedFor, AskedForThen
  <2> QED
    BY <2>4
<1>3. CASE requests # <<>> /\ Head(requests).cmd = "lint" /\ requests' = Tail(requests)
  <2>1. \A i : IsInstrument(i)' => IsInstrument(i + 1) /\ requests'[i] = requests[i + 1]
    BY <1>3 DEF IsInstrument, TypeOK
  <2>2. \A i : IsInstrument(i) => IsInstrument(i - 1)' /\ requests'[i - 1] = requests[i]
    BY <1>3 DEF IsInstrument, TypeOK
  <2>3. \A r : r \in Asked' <=> r \in Asked
    BY <2>1, <2>2, AskedFor, AskedForThen
  <2> QED
    BY <2>3
<1> QED
  BY <1>1, <1>2, <1>3

\* ... and the answer to an instrumentation is that to the only one.
LEMMA AskedAnswered ==
    ASSUME TypeOK, InstrumentInv, requests # <<>>, Head(requests).cmd = "instrument",
           requests' = Tail(requests)
    PROVE  /\ Head(requests) \in Asked /\ Asked' = {}
           /\ Of("bundle") = {} /\ editors = "ready"
<1>1. /\ Len(requests) \in Nat \ {0} /\ DOMAIN requests = 1..Len(requests)
      /\ DOMAIN requests' = 1..(Len(requests) - 1)
      /\ \A i \in 1..(Len(requests) - 1) : requests'[i] = requests[i + 1]
      /\ Head(requests) = requests[1]
  BY DEF TypeOK
<1>2. IsInstrument(1)
  BY <1>1 DEF IsInstrument
<1>3. ASSUME NEW i \in DOMAIN requests', requests'[i].cmd = "instrument" PROVE FALSE
  <2>1. IsInstrument(i + 1) /\ i + 1 # 1
    BY <1>1, <1>3 DEF IsInstrument
  <2> QED
    BY <1>2, <2>1 DEF InstrumentInv
<1> QED
  BY <1>1, <1>2, <1>3 DEF Asked, InstrumentInv

LEMMA AskedAdded ==
    ASSUME TypeOK, NEW mode, NEW returns,
           requests' = Append(requests, InstrumentRequest(mode, returns))
    PROVE  \A r \in Asked' : r \in Asked \/ r = InstrumentRequest(mode, returns)
<1>1. /\ DOMAIN requests = 1..Len(requests) /\ DOMAIN requests' = 1..(Len(requests) + 1)
      /\ Len(requests) \in Nat /\ requests'[Len(requests) + 1] = InstrumentRequest(mode, returns)
      /\ \A i \in 1..Len(requests) : requests'[i] = requests[i]
  BY DEF TypeOK
<1> QED
  BY <1>1 DEF Asked

\* A step in which nothing is started or ended that an editor waits for.
LEMMA EditorsKept ==
    ASSUME EditorsInv, TypeOK, TypeOK',
           UNCHANGED <<editors, c, filename, select, crossed, Pending, Asked>>,
           yaml'.program = yaml.program, yaml'.spec = yaml.spec,
           actions' >= actions, \A t \in tasks' \ tasks : t.id <= actions'
    PROVE  EditorsInv'
<1>1. LoadsOK'
  <2>1. /\ actions \in Nat /\ actions' \in Nat /\ crossed \in Nat
        /\ \A t \in tasks : t.id \in Nat
    BY PlaygroundAssumption DEF TypeOK, Tasks
  <2>2. \A t \in tasks' : t.id <= actions'
    BY <2>1 DEF EditorsInv, LoadsOK
  <2>3. \A t \in tasks' : t.kind \in Loads \cup {"skeleton"} => t \in tasks
    BY DEF Pending, Loads
  <2>4. crossed' <= actions'
    BY <2>1 DEF EditorsInv, LoadsOK
  <2> QED
    BY <2>2, <2>3, <2>4 DEF EditorsInv, LoadsOK, Alone, Made
<1>2. AgreedOK'
  BY DEF EditorsInv, AgreedOK, Alone, ProgramsAgree
<1> QED
  BY <1>1, <1>2 DEF EditorsInv

\* The user crosses what is under way.
LEMMA EditorsCrossed ==
    ASSUME EditorsInv, TypeOK, actions' = actions + 1, crossed' = actions',
           UNCHANGED <<editors, filename>>,
           \A t \in tasks' \ tasks : t.id = actions'
    PROVE  EditorsInv'
<1>1. actions \in Nat /\ \A t \in tasks : t.id \in Nat
  BY PlaygroundAssumption DEF TypeOK, Tasks
<1>2. \A t \in tasks' : t.id <= actions' /\ ~(crossed' < t.id)
  BY <1>1 DEF EditorsInv, LoadsOK
<1>3. \A t \in tasks' : t.kind \in Loads \cup {"skeleton"} => t.id > 0
  BY <1>1 DEF EditorsInv, LoadsOK
<1> QED
  BY <1>1, <1>2, <1>3 DEF EditorsInv, LoadsOK, AgreedOK

LEMMA EditorsLoop ==
    ASSUME TypeOK, TypeOK', InstrumentInv, EditorsInv,
           CreateEditors \/ TimerFires \/ ShowLint \/ Instrumented \/ WorkerReady \/ WorkerFails
    PROVE  EditorsInv'
<1>t. actions \in Nat /\ crossed \in Nat /\ \A t \in tasks : t.id \in Nat
  BY PlaygroundAssumption DEF TypeOK, Tasks
<1>1. CASE CreateEditors
  <2> DEFINE first == Task("first", 0, Default, select, FALSE)
  <2>1. /\ editors = "none" /\ editors' = "created" /\ c' = Program(Default)
        /\ filename' = Default /\ tasks' = tasks \cup {first}
        /\ UNCHANGED <<select, actions, crossed>>
    BY <1>1 DEF CreateEditors, Await, user
  <2>2. first.kind = "first" /\ first.program = Default /\ first.spec = select /\ first.id = 0
    BY DEF Task
  <2> HIDE DEF first
  <2>3. Pending' = Pending \cup {first}
    BY <2>1, <2>2 DEF Pending
  <2>4. LoadsOK'
    BY <1>t, <2>1, <2>2, PlaygroundAssumption DEF EditorsInv, LoadsOK, Loads
  <2>5. AgreedOK'
    BY <2>1, <2>2, <2>3 DEF EditorsInv, AgreedOK
  <2> QED
    BY <2>4, <2>5 DEF EditorsInv
<1>2. CASE TimerFires \/ ShowLint \/ WorkerReady \/ WorkerFails
  <2>1. UNCHANGED Asked
    BY <1>2, AskedKept DEF TimerFires, ShowLint, WorkerReady, WorkerFails, RunLint, Ask
  <2>2. UNCHANGED <<editors, c, filename, yaml, select, tasks, actions, crossed>>
    BY <1>2 DEF TimerFires, ShowLint, WorkerReady, WorkerFails, texts, user
  <2> QED
    BY <1>t, <2>1, <2>2, EditorsKept DEF Pending
<1>3. CASE Instrumented
  <2>1. /\ Head(requests) \in Asked /\ Asked' = {}
        /\ Of("bundle") = {} /\ editors = "ready"
    BY <1>3, AskedAnswered DEF Instrumented
  <2>2. UNCHANGED <<editors, filename, yaml, select, actions, crossed>>
    BY <1>3 DEF Instrumented, user
  \* An instrumentation is under way, so no load is alone.
  <2>3. \A t \in tasks : ~Alone(t)
    BY <2>1 DEF Alone
  <2>4. \A t \in tasks' \ tasks : t.id = 0 /\ t.kind = "bundle"
    BY <1>3 DEF Instrumented, Await, Task
  <2>5. LoadsOK'
    BY <1>t, <2>2, <2>3, <2>4 DEF EditorsInv, LoadsOK, Loads
  <2>6. ASSUME crossed = 0 PROVE AgreedOK'
    <3>1. Pending = {} /\ ProgramsAgree /\ yaml.spec \in {select, Own}
      BY <2>1, <2>3, <2>6 DEF EditorsInv, AgreedOK, Pending
    <3>2. Head(requests).c.program = filename /\ Head(requests).yaml.program = filename
      BY <2>1, <2>6 DEF EditorsInv, AgreedOK
    <3>3. ProgramsAgree'
      <4>0. Head(requests) \in Messages
        BY <1>3 DEF Instrumented, TypeOK
      <4>1. Head(requests).c \in CTexts
        BY <4>0 DEF Messages
      <4>2. CASE c' = [Head(requests).c EXCEPT !.woven = Head(requests).yaml.program]
        BY <2>2, <3>1, <3>2, <4>1, <4>2 DEF ProgramsAgree, CTexts
      <4>3. CASE UNCHANGED c
        BY <2>2, <3>1, <4>3 DEF ProgramsAgree
      <4> QED
        BY <1>3, <4>2, <4>3 DEF Instrumented
    <3>4. \A t \in Pending' : Pending' = {t} /\ t.kind = "bundle"
      <4> DEFINE bundle == Task("bundle", 0, Default, select, FALSE)
      <4>1. CASE UNCHANGED tasks
        BY <3>1, <4>1 DEF Pending
      <4>2. bundle.kind = "bundle"
        BY DEF Task
      <4>3. UNCHANGED tasks \/ tasks' = tasks \cup {bundle}
        BY <1>3 DEF Instrumented, Await
      <4> HIDE DEF bundle
      <4>4. CASE tasks' = tasks \cup {bundle}
        <5>1. Pending' = {bundle}
          BY <3>1, <4>2, <4>4 DEF Pending
        <5> QED
          BY <4>2, <5>1
      <4> QED
        BY <4>1, <4>3, <4>4
    <3> QED
      BY <2>1, <2>2, <3>1, <3>3, <3>4 DEF AgreedOK, Alone
  <2>7. crossed # 0 => AgreedOK'
    BY <2>2 DEF AgreedOK
  <2> QED
    BY <2>5, <2>6, <2>7 DEF EditorsInv
<1> QED
  BY <1>1, <1>2, <1>3

\* A load that nothing has crossed is over, and nothing else is under way.
LEMMA LoadsOver ==
    ASSUME EditorsInv, TypeOK, NEW t \in tasks, t.kind \in Loads \cup {"skeleton"}, Loaded(t),
           crossed' = 0
    PROVE  Alone(t) /\ editors = "ready" /\ (t.kind = "skeleton" => Made(t))
<1>1. t.id \in Nat /\ crossed \in Nat
  BY PlaygroundAssumption DEF TypeOK, Tasks
<1>2. crossed < t.id
  BY <1>1 DEF Loaded, EditorsInv, LoadsOK
<1> QED
  BY <1>2 DEF EditorsInv, LoadsOK

\* When a task is over that an editor waits for, no load is left that nothing
\* has crossed.
LEMMA LoadsEnd ==
    ASSUME EditorsInv, TypeOK, NEW t \in Pending, t \notin tasks',
           UNCHANGED actions, crossed' = crossed \/ (crossed' = 0 /\ Alone(t)),
           editors' # "none" => filename' \in Programs,
           \A u \in tasks' \ tasks : u.kind \notin Loads \cup {"skeleton"} /\ u.id <= actions
    PROVE  LoadsOK'
<1>1. actions \in Nat /\ crossed \in Nat /\ \A u \in tasks : u.id \in Nat
  BY PlaygroundAssumption DEF TypeOK, Tasks
<1>2. crossed' <= actions'
  BY <1>1 DEF EditorsInv, LoadsOK
<1>3. ASSUME NEW u \in tasks', u.kind \in Loads \cup {"skeleton"}
      PROVE  u.id > 0 /\ ~(crossed' < u.id)
  <2>1. u \in tasks /\ u \in Pending /\ u # t
    BY <1>3 DEF Pending, Loads
  <2>2. ~Alone(t) /\ ~Alone(u)
    BY <2>1 DEF Alone
  <2> QED
    BY <1>1, <1>3, <2>1, <2>2 DEF EditorsInv, LoadsOK
<1>4. \A u \in tasks' : u.id <= actions'
  BY DEF EditorsInv, LoadsOK
<1> QED
  BY <1>2, <1>3, <1>4 DEF LoadsOK

LEMMA EditorsArrive ==
    ASSUME TypeOK, TypeOK', EditorsInv, NEW t \in tasks,
           ExampleArrives(t) \/ SvExampleArrives(t) \/ Skeleton(t)
    PROVE  EditorsInv'
<1> DEFINE spec == Task("spec", t.id, t.program, SpecOf[t.program], FALSE)
<1>1. /\ t.kind \in Loads \cup {"skeleton"} /\ t \in Pending /\ t.program \in Programs
      /\ Loaded(t) /\ UNCHANGED <<editors, requests, actions>>
  BY DEF ExampleArrives, SvExampleArrives, Skeleton, Loads, Pending, TypeOK, Tasks, Loaded, queues
<1>2. spec.kind = "spec" /\ spec.id = t.id /\ spec.spec = SpecOf[t.program]
  BY DEF Task
<1>3. tasks' = tasks \ {t} \/ (ExampleArrives(t) /\ tasks' = (tasks \ {t}) \cup {spec})
  BY DEF ExampleArrives, SvExampleArrives, Skeleton, Finished
<1>4. t.kind # "spec"
  BY <1>1 DEF Loads
<1>5. crossed' = 0 =>
        /\ Alone(t) /\ editors = "ready" /\ (t.kind = "skeleton" => Made(t))
  BY <1>1, LoadsOver
<1>6. LoadsOK'
  <2>1. t \notin tasks' /\ \A u \in tasks' \ tasks : u = spec
    BY <1>2, <1>3, <1>4
  <2>2. crossed' = crossed \/ (crossed' = 0 /\ Alone(t))
    BY <1>1, <1>5 DEF Loaded
  <2>3. editors' # "none" => filename' \in Programs
    BY <1>1 DEF ExampleArrives, SvExampleArrives, Skeleton, SetProgram, EditorsInv, LoadsOK
  <2>4. spec.kind \notin Loads \cup {"skeleton"} /\ spec.id <= actions
    BY <1>2 DEF Loads, EditorsInv, LoadsOK
  <2> HIDE DEF spec
  <2> QED
    BY <1>1, <2>1, <2>2, <2>3, <2>4, LoadsEnd
<1>7. ASSUME crossed' = 0 PROVE AgreedOK'
  <2>1. /\ Pending = {t} /\ Asked' = {} /\ editors' = "ready"
        /\ t.kind = "skeleton" => c = Program(t.program) /\ filename = t.program /\ t.spec = select
    BY <1>1, <1>5, <1>7 DEF Alone, Asked, Made
  <2>2. c' = Program(t.program) /\ filename' = t.program
    BY <2>1 DEF ExampleArrives, SvExampleArrives, Skeleton, SetProgram
  <2>3. yaml'.program = t.program /\ yaml'.spec \in {select', Own}
    <3>1. CASE ExampleArrives(t)
      BY <3>1 DEF ExampleArrives, SetYaml, Witness
    <3>2. CASE SvExampleArrives(t)
      BY <3>2 DEF SvExampleArrives, SetYaml, Witness
    <3>3. CASE Skeleton(t)
      BY <2>1, <3>3 DEF Skeleton, SetYaml, Witness
    <3> QED
      BY <3>1, <3>2, <3>3
  <2>4. ProgramsAgree'
    BY <2>2, <2>3 DEF ProgramsAgree, Program
  <2>5. Pending' = {} \/ (ExampleArrives(t) /\ Pending' = {spec})
    BY <1>2, <1>3, <2>1 DEF Pending
  <2>6. ExampleArrives(t) => spec.spec = select'
    BY <1>2 DEF ExampleArrives
  <2> HIDE DEF spec
  <2> QED
    BY <2>1, <2>3, <2>4, <2>5, <2>6 DEF AgreedOK, Alone
<1>8. crossed' # 0 => AgreedOK'
  BY DEF AgreedOK
<1> QED
  BY <1>6, <1>7, <1>8 DEF EditorsInv

\* The benchmark is there, and the load goes on as that of its skeleton.
LEMMA EditorsBenchmark ==
    ASSUME TypeOK, EditorsInv, NEW t \in tasks, BenchmarkArrives(t)
    PROVE  EditorsInv'
<1>0. PICK s : s = Task("skeleton", t.id, t.program, select, t.quietly)
  OBVIOUS
<1>1. /\ t \in Pending /\ t.kind \in Loads /\ t.program \in Programs
      /\ UNCHANGED <<editors, requests, yaml, select, actions, crossed>>
      /\ c' = Program(t.program) /\ filename' = t.program
      /\ tasks' = (tasks \ {t}) \cup {s}
  BY <1>0 DEF BenchmarkArrives, SetProgram, queues, user, Pending, Loads, TypeOK, Tasks
<1>2. /\ s.kind = "skeleton" /\ s.id = t.id /\ s.program = t.program /\ s.spec = select
      /\ s.quietly = t.quietly
  BY <1>0 DEF Task
<1>3. /\ t.id > 0 /\ t.id <= actions
      /\ crossed < t.id => t.quietly /\ Alone(t) /\ editors = "ready"
  BY <1>1 DEF EditorsInv, LoadsOK
<1>4. Alone(t) => Alone(s)'
  BY <1>1, <1>2 DEF Alone, Pending, Asked
<1>5. Made(s)'
  BY <1>1, <1>2 DEF Made
<1>6. LoadsOK'
  <2>1. ASSUME NEW u \in tasks \ {t}, u.kind \in Loads \cup {"skeleton"}
        PROVE  u.id > 0 /\ ~(crossed < u.id)
    <3>1. u \in Pending
      BY <2>1 DEF Pending, Loads
    <3>2. ~Alone(u)
      BY <1>1, <2>1, <3>1 DEF Alone
    <3> QED
      BY <2>1, <3>2 DEF EditorsInv, LoadsOK
  <2>2. crossed' <= actions' /\ (\A u \in tasks' : u.id <= actions')
    BY <1>1, <1>2 DEF EditorsInv, LoadsOK
  <2>3. ASSUME NEW u \in tasks', u.kind \in Loads \cup {"skeleton"}
        PROVE  /\ u.id > 0
               /\ crossed' < u.id => u.quietly /\ Alone(u)' /\ editors' = "ready"
               /\ crossed' < u.id /\ u.kind = "skeleton" => Made(u)'
    <3>1. CASE u = s
      BY <1>1, <1>2, <1>3, <1>4, <1>5, <3>1
    <3>2. CASE u # s
      BY <1>1, <2>1, <2>3, <3>2
    <3> QED
      BY <3>1, <3>2
  <2> QED
    BY <1>1, <2>2, <2>3 DEF LoadsOK, Alone, Made
<1>7. ASSUME crossed = 0 PROVE AgreedOK'
  <2>1. Alone(t) /\ editors = "ready"
    BY <1>3, <1>7, PlaygroundAssumption DEF TypeOK, Tasks
  <2>2. Pending' = {s} /\ Asked' = {} /\ editors' = "ready"
    BY <1>1, <1>4, <2>1 DEF Alone
  <2> QED
    BY <1>2, <2>2 DEF AgreedOK, Alone
<1>8. crossed # 0 => AgreedOK'
  BY <1>1 DEF AgreedOK
<1> QED
  BY <1>6, <1>7, <1>8 DEF EditorsInv

LEMMA EditorsEnd ==
    ASSUME TypeOK, InstrumentInv, EditorsInv, NEW t \in tasks,
           FirstSkeleton(t) \/ LoadFails(t) \/ SpecArrives(t) \/ BundleFails(t)
    PROVE  EditorsInv'
<1>1. /\ t \in Pending /\ t \notin tasks' /\ Pending' = Pending \ {t} /\ Asked' = Asked
      /\ tasks' \subseteq tasks /\ UNCHANGED <<c, filename, select, actions, crossed>>
  BY DEF FirstSkeleton, LoadFails, SpecArrives, BundleFails, Finished, texts, queues, user,
     Pending, Loads, Asked
<1>2. t.kind # "first" => UNCHANGED editors
  BY DEF FirstSkeleton, LoadFails, SpecArrives, BundleFails
<1>3. FirstSkeleton(t) => editors = "created" /\ editors' = "ready" /\ Asked = {}
  BY DEF FirstSkeleton, InstrumentInv, Of, Asked, IsInstrument
<1>4. t.kind = "first" <=> FirstSkeleton(t)
  BY DEF FirstSkeleton, LoadFails, SpecArrives, BundleFails, Loads
<1>5. LoadsOK'
  <2>1. editors' # "none" => filename' \in Programs
    BY <1>1, <1>2, <1>3, <1>4 DEF EditorsInv, LoadsOK
  <2> QED
    BY <1>1, <2>1, LoadsEnd
<1>6. ASSUME crossed = 0 PROVE AgreedOK'
  <2>1. CASE FirstSkeleton(t)
    <3>1. /\ c = Program(Default) /\ filename = Default /\ t.program = Default /\ t.spec = select
          /\ \A u \in Pending : u.kind = "first"
      BY <1>1, <1>3, <1>6, <2>1 DEF EditorsInv, AgreedOK
    <3>2. Pending' = {}
      BY <1>1, <1>4, <2>1, <3>1 DEF InstrumentInv, Of, Pending
    <3>3. yaml' = Witness(Default, select)
      BY <2>1, <3>1 DEF FirstSkeleton, SetYaml
    <3>4. ProgramsAgree' /\ yaml'.spec = select'
      BY <1>1, <3>1, <3>3 DEF ProgramsAgree, Program, Witness
    <3> QED
      BY <1>1, <1>3, <2>1, <3>2, <3>4 DEF AgreedOK
  <2>2. CASE ~FirstSkeleton(t)
    <3>1. editors = "ready" /\ UNCHANGED editors
      BY <1>1, <1>2, <1>4, <1>6, <2>2 DEF EditorsInv, AgreedOK, TypeOK
    <3>2. Pending = {t} /\ Asked = {} /\ (t.kind = "spec" => t.spec = select)
      BY <1>1, <1>6, <3>1 DEF EditorsInv, AgreedOK, Alone
    <3>3. t.kind # "skeleton" /\ (t.kind = "spec" <=> SpecArrives(t))
      BY <2>2 DEF LoadFails, SpecArrives, BundleFails, Loads
    <3>4. ProgramsAgree /\ (t.kind # "spec" => yaml.spec \in {select, Own})
      BY <1>6, <3>1, <3>2, <3>3 DEF EditorsInv, AgreedOK
    <3>5. yaml'.program = yaml.program /\ yaml'.spec \in {select, Own}
      <4>1. CASE SpecArrives(t)
        <5>1. yaml.program # NoProgram
          BY <1>6, <3>1, <3>4, PlaygroundAssumption DEF EditorsInv, LoadsOK, ProgramsAgree
        <5>2. yaml \in Witnesses
          BY DEF TypeOK
        <5> QED
          BY <3>2, <3>3, <4>1, <5>1, <5>2 DEF SpecArrives, SetYaml, Witnesses
      <4>2. CASE ~SpecArrives(t)
        BY <2>2, <3>3, <3>4, <4>2 DEF LoadFails, BundleFails, texts
      <4> QED
        BY <4>1, <4>2
    <3>6. ProgramsAgree'
      BY <1>1, <3>4, <3>5 DEF ProgramsAgree
    <3>7. Pending' = {} /\ Asked' = {}
      BY <1>1, <3>2
    <3> QED
      BY <1>1, <3>1, <3>5, <3>6, <3>7 DEF AgreedOK
  <2> QED
    BY <2>1, <2>2
<1>7. crossed # 0 => AgreedOK'
  BY <1>1 DEF AgreedOK
<1> QED
  BY <1>5, <1>6, <1>7 DEF EditorsInv

LEMMA EditorsTask ==
    ASSUME TypeOK, TypeOK', InstrumentInv, EditorsInv, NEW t \in tasks, Continue(t)
    PROVE  EditorsInv'
<1>1. CASE Compiled(t)
  <2>1. /\ UNCHANGED <<editors, c, filename, yaml, select, crossed, actions, requests>>
        /\ tasks' = tasks \ {t} /\ t.kind = "compile"
    BY <1>1 DEF Compiled, Finished, texts, queues, user
  <2>2. UNCHANGED Pending /\ UNCHANGED Asked
    BY <2>1 DEF Pending, Asked
  <2>3. actions' >= actions /\ tasks' \ tasks = {}
    BY <2>1, PlaygroundAssumption DEF TypeOK
  <2> QED
    BY <2>1, <2>2, <2>3, EditorsKept
<1> QED
  BY <1>1, EditorsArrive, EditorsBenchmark, EditorsEnd DEF Continue

\* A load or a property that is picked when all is quiet, ...
LEMMA EditorsStart ==
    ASSUME TypeOK, EditorsInv, Quiet, NEW s,
           tasks' = tasks \cup {s}, s.id = actions', actions' = actions + 1,
           UNCHANGED <<editors, c, filename, yaml, requests, crossed>>,
           \/ s.kind \in Loads /\ s.quietly /\ UNCHANGED select
           \/ s.kind = "spec" /\ s.spec = select'
    PROVE  EditorsInv'
<1>1. actions \in Nat /\ crossed \in Nat /\ \A u \in tasks : u.id \in Nat
  BY PlaygroundAssumption DEF TypeOK, Tasks
<1>2. editors = "ready" /\ Pending = {} /\ Asked = {}
  BY QuietIsAlone
<1>3. Pending' = {s} /\ Asked' = {}
  BY <1>2 DEF Pending, Asked, Loads
<1>4. LoadsOK'
  <2>1. \A u \in tasks' : u.id <= actions'
    BY <1>1 DEF EditorsInv, LoadsOK
  <2>2. \A u \in tasks' : u.kind \in Loads \cup {"skeleton"} => u = s
    BY <1>2 DEF Pending, Loads
  <2>3. crossed' <= actions' /\ s.id > 0 /\ s.kind # "skeleton"
    BY <1>1 DEF EditorsInv, LoadsOK, Loads
  <2>4. Alone(s)' /\ editors' = "ready" /\ filename' \in Programs
    BY <1>2, <1>3 DEF Alone, EditorsInv, LoadsOK
  <2>5. s.kind \in Loads => s.quietly
    BY DEF Loads
  <2> QED
    BY <2>1, <2>2, <2>3, <2>4, <2>5 DEF LoadsOK
<1>5. ASSUME crossed = 0 PROVE AgreedOK'
  <2>1. ProgramsAgree /\ yaml.spec \in {select, Own}
    BY <1>2, <1>5 DEF EditorsInv, AgreedOK
  <2>2. /\ s.kind # "spec" => UNCHANGED select
        /\ s.kind = "spec" => s.spec = select'
    BY DEF Loads
  <2>3. ProgramsAgree' /\ (s.kind # "spec" => yaml'.spec \in {select', Own})
    BY <2>1, <2>2 DEF ProgramsAgree
  <2> QED
    BY <1>2, <1>3, <2>2, <2>3 DEF AgreedOK, Alone
<1>6. crossed # 0 => AgreedOK'
  BY DEF AgreedOK
<1> QED
  BY <1>4, <1>5, <1>6 DEF EditorsInv

LEMMA EditorsUser ==
    ASSUME TypeOK, TypeOK', EditorsInv, User
    PROVE  EditorsInv'
<1>t. actions \in Nat /\ actions + 1 # 0 /\ actions + 1 >= actions
  BY PlaygroundAssumption DEF TypeOK
<1>1. ASSUME NEW kind \in Loads, NEW p, Pick(kind, p) PROVE EditorsInv'
  <2>1. PICK s : s = Task(kind, actions + 1, p, select, Quiet)
    OBVIOUS
  <2>2. /\ s.kind = kind /\ s.id = actions + 1 /\ (Quiet => s.quietly)
    BY <2>1 DEF Task
  <2>3. /\ tasks' = tasks \cup {s} /\ actions' = actions + 1
        /\ UNCHANGED <<editors, c, filename, yaml, select, requests>>
        /\ crossed' = IF Quiet THEN crossed ELSE actions'
    BY <1>1, <2>1 DEF Pick, Acts, Await, texts, queues
  <2>4. CASE Quiet
    BY <2>2, <2>3, <2>4, EditorsStart
  <2>5. CASE ~Quiet
    BY <2>2, <2>3, <2>5, EditorsCrossed
  <2> QED
    BY <2>4, <2>5
<1>2. ASSUME NEW spec \in Specs, ChangeSpec(spec) PROVE EditorsInv'
  <2>1. PICK s : s = Task("spec", actions + 1, Default, spec, FALSE)
    OBVIOUS
  <2>2. s.kind = "spec" /\ s.id = actions + 1 /\ s.spec = spec
    BY <2>1 DEF Task
  <2>3. /\ select' = spec /\ actions' = actions + 1
        /\ IF editors = "none" THEN UNCHANGED tasks ELSE tasks' = tasks \cup {s}
        /\ UNCHANGED <<editors, c, filename, yaml, requests>>
        /\ crossed' = IF Quiet THEN crossed ELSE actions'
    BY <1>2, <2>1 DEF ChangeSpec, Acts, Await, texts, queues
  <2>4. CASE Quiet
    BY <2>2, <2>3, <2>4, EditorsStart, QuietIsAlone
  <2>5. CASE ~Quiet
    BY <2>2, <2>3, <2>5, EditorsCrossed
  <2> QED
    BY <2>4, <2>5
<1>3. ASSUME NEW mode \in {"inplace", "download"}, Instrument(mode) PROVE EditorsInv'
  <2>0. PICK returns \in BOOLEAN : Ask(InstrumentRequest(mode, returns))
    BY <1>3 DEF Instrument
  <2>1. /\ requests' = Append(requests, InstrumentRequest(mode, returns)) /\ actions' = actions + 1
        /\ UNCHANGED <<editors, c, filename, yaml, select, tasks>>
        /\ crossed' = IF Quiet THEN crossed ELSE actions'
    BY <1>3, <2>0 DEF Instrument, Ask, Acts, texts
  <2>2. CASE ~Quiet
    BY <2>1, <2>2, EditorsCrossed
  <2>3. CASE Quiet
    <3>1. editors = "ready" /\ Pending = {} /\ Asked = {} /\ Pending' = {}
      BY <2>1, <2>3, QuietIsAlone DEF Pending
    <3>2. \A r \in Asked' : r.c = c /\ r.yaml = yaml
      BY <2>1, <3>1, AskedAdded DEF InstrumentRequest
    <3>3. LoadsOK'
      <4>1. \A t \in tasks : t.kind \notin Loads \cup {"skeleton"} /\ t.id \in Nat
        BY <3>1 DEF Pending, Loads, TypeOK, Tasks
      <4>2. crossed \in Nat
        BY PlaygroundAssumption DEF TypeOK
      <4> QED
        BY <1>t, <2>1, <2>3, <4>1, <4>2 DEF EditorsInv, LoadsOK
    <3>4. ASSUME crossed = 0 PROVE AgreedOK'
      <4>1. ProgramsAgree /\ yaml.spec \in {select, Own}
        BY <3>1, <3>4 DEF EditorsInv, AgreedOK
      <4> QED
        BY <2>1, <3>1, <3>2, <4>1 DEF AgreedOK, ProgramsAgree
    <3>5. crossed # 0 => AgreedOK'
      BY <2>1, <2>3 DEF AgreedOK
    <3> QED
      BY <3>3, <3>4, <3>5 DEF EditorsInv
  <2> QED
    BY <2>2, <2>3
<1>4. CASE EditYaml
  <2>1. yaml'.program = yaml.program /\ yaml'.spec = yaml.spec
    BY <1>4 DEF EditYaml, SetYaml, TypeOK, Witnesses
  <2>2. /\ UNCHANGED <<editors, c, filename, select, crossed, tasks, requests>>
        /\ actions' = actions + 1
    BY <1>4 DEF EditYaml, Acts, queues
  <2>3. UNCHANGED Pending /\ UNCHANGED Asked
    BY <2>2 DEF Pending, Asked
  <2> QED
    BY <1>t, <2>1, <2>2, <2>3, EditorsKept
<1>5. CASE Compile
  <2>1. PICK s : s = Task("compile", actions + 1, Default, select, FALSE)
    OBVIOUS
  <2>2. s.kind = "compile" /\ s.id = actions + 1
    BY <2>1 DEF Task
  <2>3. /\ UNCHANGED <<editors, c, filename, yaml, select, crossed, requests>>
        /\ tasks' = tasks \cup {s} /\ actions' = actions + 1
    BY <1>5, <2>1 DEF Compile, Acts, Await, texts, queues
  <2>4. UNCHANGED Pending /\ UNCHANGED Asked
    BY <2>2, <2>3 DEF Pending, Asked
  <2>5. \A t \in tasks' \ tasks : t.id <= actions'
    BY <1>t, <2>2, <2>3
  <2> QED
    BY <1>t, <2>3, <2>4, <2>5, EditorsKept
<1> QED
  BY <1>1, <1>2, <1>3, <1>4, <1>5 DEF User, Loads

\* However loads, changes of the property and instrumentations come, the two
\* editors are about one program and one property as soon as nothing is under
\* way that has been crossed.
THEOREM EditorsStayTogether == Spec => []EditorsAgree
<1>1. Init => EditorsInv
  BY PlaygroundAssumption DEF Init, EditorsInv, LoadsOK, AgreedOK, Pending, Asked
<1>2. TypeOK /\ EditorsInv => EditorsAgree
  BY QuietIsAlone DEF EditorsInv, AgreedOK, EditorsAgree, ProgramsAgree
<1>3. TypeOK /\ TypeOK' /\ InstrumentInv /\ EditorsInv /\ [Next]_vars => EditorsInv'
  <2> SUFFICES ASSUME TypeOK, TypeOK', InstrumentInv, EditorsInv, [Next]_vars
               PROVE  EditorsInv'
    OBVIOUS
  <2>1. CASE UNCHANGED vars
    <3>1. UNCHANGED <<Pending, Asked>> /\ tasks' = tasks /\ actions' >= actions
      BY <2>1, PlaygroundAssumption DEF vars, queues, user, Pending, Asked, TypeOK
    <3> QED
      BY <2>1, <3>1, EditorsKept DEF vars, texts, queues, user
  <2> QED
    BY <2>1, EditorsLoop, EditorsTask, EditorsUser DEF Next, Loop
<1> QED
  BY <1>1, <1>2, <1>3, TypeInit, TypeStep, InstrumentInvInit, InstrumentInvStep, PTL DEF Spec

=============================================================================
