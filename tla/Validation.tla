----------------------------- MODULE Validation -----------------------------
(***************************************************************************)
(* translate_to_c of src/main.py: parse the program, apply the witness,    *)
(* compile the test, execute it up to Runs times and print a verdict.      *)
(* What an execution does is ConcurrentHarness; here it is its result.     *)
(***************************************************************************)
EXTENDS Integers, Sequences

CONSTANT Runs  \* how often the test is executed at most: 100

ASSUME RunsAssumption == Runs \in Nat \ {0}

VARIABLES
    mode,      \* --mode
    property,  \* what the witness is a violation of
    phase,     \* how far translate_to_c has got
    run,       \* the executions so far, the i of the loop
    codes,     \* how many of them reached the violation (-1) or did not (0)
    verdicts,  \* the verdicts printed
    status,    \* the exit status of the tool, NoStatus while it runs
    outcomes   \* history: what each execution did

vars == <<mode, property, phase, run, codes, verdicts, status, outcomes>>

Modes == {"strict", "normal", "permissive", "INPUT_ONLY"}
Violations == {"reach", "race", "overflow", "memory"}
Phases == {"parse", "apply", "compile", "execute", "conclude", "raised", "ended"}
NoStatus == 1

Known == {"Empty witness", "Correctness witness", "Malformed witness", "Has branching",
          "No entry node", "Multiple entry nodes", "No violation sequence"}
Summaries == {"ALWAYS", "SOMETIMES", "NEVER", "TIMEOUT"}
Verdicts == Known \union Summaries \union
    {"Parsing failed", "Incompatible witness", "Compilation error", "Unknown error"}
Outcomes == {"reached", "missed", "timeout"}

\* The result of an execution that finished: its exit code, "Reached error!"
\* on stdout, and the words of a sanitizer's report on stderr.
Result == [code : {0, 1, 74}, printed : BOOLEAN, report : BOOLEAN]

-----------------------------------------------------------------------------

Report(verdict) == verdicts' = Append(verdicts, verdict)

\* The first two steps have except clauses of their own.
Stop(verdict) ==
    /\ Report(verdict)
    /\ phase' = "ended"
    /\ status' = -1
    /\ UNCHANGED <<mode, property, run, codes, outcomes>>

Continue(next) ==
    /\ phase' = next
    /\ UNCHANGED <<mode, property, run, codes, verdicts, status, outcomes>>

Parse == phase = "parse" /\ (Continue("apply") \/ Stop("Parsing failed"))

\* apply_witness, which raises a KnownErrorVerdict or anything else.
Apply ==
    /\ phase = "apply"
    /\ \/ Continue("compile")
       \/ \E verdict \in Known \union {"Incompatible witness"} : Stop(verdict)

Compile == phase = "compile" /\ (Continue("execute") \/ Continue("raised"))

\* gcc rejects the test: the verdict is printed, and sys.exit raises.
CompilationFails ==
    /\ phase = "compile"
    /\ Report("Compilation error")
    /\ phase' = "raised"
    /\ UNCHANGED <<mode, property, run, codes, status, outcomes>>

\* Mutant: the last except clause only exits.
CaughtSilently ==
    /\ phase = "raised"
    /\ phase' = "ended"
    /\ status' = -1
    /\ UNCHANGED <<mode, property, run, codes, verdicts, outcomes>>

\* The bare except, which catches what sys.exit raises too.
Caught == phase = "raised" /\ Stop("Unknown error")

-----------------------------------------------------------------------------
(* The loop.                                                               *)

\* Mutant: only the exit code says that the error was reached.
ReachedErrorByCode(r) == r.code = 74

\* A sanitizer's report counts only if the test was built with one.
ReachedError(r) == r.code = 74 \/ r.printed \/ (property # "reach" /\ r.report)

\* Mutant: every mode but normal stops at the error.
BreaksAtError(reached) == mode # "normal" /\ reached

\* mode stops the loop behind an execution that reached the error, or missed it.
Breaks(reached) ==
    (mode = "strict" /\ ~reached) \/ (mode = "permissive" /\ reached)

\* Mutant: the loop is left one execution late.
NextRunLate(breaks) ==
    /\ run' = run + 1
    /\ phase' = IF breaks \/ run = Runs THEN "conclude" ELSE "execute"

\* i goes on to the next of range(Runs).
NextRun(breaks) ==
    /\ run' = run + 1
    /\ phase' = IF breaks \/ run + 1 = Runs THEN "conclude" ELSE "execute"

Count(code) == codes' = [codes EXCEPT ![code] = @ + 1]

Execute(r) ==
    /\ phase = "execute"
    /\ Count(IF ReachedError(r) THEN -1 ELSE 0)
    /\ NextRun(Breaks(ReachedError(r)))
    /\ outcomes' = Append(outcomes, IF ReachedError(r) THEN "reached" ELSE "missed")
    /\ UNCHANGED <<mode, property, verdicts, status>>

\* subprocess.TimeoutExpired: neither counted nor compared with the mode.
ExecuteTooLong ==
    /\ phase = "execute"
    /\ NextRun(FALSE)
    /\ outcomes' = Append(outcomes, "timeout")
    /\ UNCHANGED <<mode, property, codes, verdicts, status>>

\* The output is not text in the locale's encoding, or the like.
ExecuteRaises == phase = "execute" /\ Continue("raised")

\* Mutant: one execution that missed the error outweighs the others.
SummaryOfMisses ==
    IF codes[0] > 0 THEN "NEVER" ELSE IF codes[-1] > 0 THEN "ALWAYS" ELSE "TIMEOUT"

Summary ==
    IF codes[0] > 0
      THEN IF codes[-1] > 0 THEN "SOMETIMES" ELSE "NEVER"
      ELSE IF codes[-1] > 0 THEN "ALWAYS" ELSE "TIMEOUT"

Conclude ==
    /\ phase = "conclude"
    /\ Report(Summary)
    /\ phase' = "ended"
    /\ status' = 0
    /\ UNCHANGED <<mode, property, run, codes, outcomes>>

Init ==
    /\ mode \in Modes
    /\ property \in Violations
    /\ phase = "parse"
    /\ run = 0
    /\ codes = [code \in {-1, 0} |-> 0]
    /\ verdicts = <<>>
    /\ status = NoStatus
    /\ outcomes = <<>>

\* What is left to do for a witness that has been applied.
Test ==
    \/ Compile \/ CompilationFails \/ Caught
    \/ \E r \in Result : Execute(r)
    \/ ExecuteTooLong \/ ExecuteRaises \/ Conclude

Next == Parse \/ Apply \/ Test

SafeSpec == Init /\ [][Next]_vars

\* An execution ends within its timeout, and gcc ends.  Nothing is assumed of
\* Parse and Apply, which have no timeout: the witness parser has loops that a
\* witness can keep it in (witnessparser.py:118, :201).
Spec == SafeSpec /\ WF_vars(Test)

-----------------------------------------------------------------------------
(* Properties.                                                             *)

Executions == 1..Len(outcomes)
Some(outcome) == \E i \in Executions : outcomes[i] = outcome
Printed(verdict) == \E i \in 1..Len(verdicts) : verdicts[i] = verdict

TypeOK ==
    /\ mode \in Modes
    /\ property \in Violations
    /\ phase \in Phases
    /\ run \in 0..Runs
    /\ codes \in [{-1, 0} -> Nat]
    /\ verdicts \in Seq(Verdicts)
    /\ status \in {NoStatus, 0, -1}
    /\ outcomes \in Seq(Outcomes)

\* A verdict says what the executions that finished have shown, and TIMEOUT
\* that none did.  An execution that timed out says nothing: ALWAYS may stand
\* beside any number of them, where README.md:58 has "every execution".  (The
\* counts in codes, and the summary of main.py:222-236.)
VerdictFits ==
    /\ Printed("ALWAYS") => Some("reached") /\ ~Some("missed")
    /\ Printed("SOMETIMES") => Some("reached") /\ Some("missed")
    /\ Printed("NEVER") => Some("missed") /\ ~Some("reached")
    /\ Printed("TIMEOUT") => \A i \in Executions : outcomes[i] = "timeout"

\* The loop stops at the first execution that finished and is what its mode
\* waits for, a miss for strict and a hit for permissive, and not before.  One
\* that timed out stops no mode, not even strict, where README.md:54 has "the
\* first execution that does not reach the violation".  (The breaks of
\* main.py:211-214, the except clause behind them and the 100 of the range.)
StopsWhenDecided ==
    /\ \A i \in Executions : i < Len(outcomes) =>
         ~(mode = "strict" /\ outcomes[i] = "missed")
           /\ ~(mode = "permissive" /\ outcomes[i] = "reached")
    /\ (\E verdict \in Summaries : Printed(verdict)) =>
         \/ Len(outcomes) = Runs
         \/ mode = "strict" /\ outcomes[Len(outcomes)] = "missed"
         \/ mode = "permissive" /\ outcomes[Len(outcomes)] = "reached"

\* A strict validation that prints ALWAYS went on behind executions that
\* reached the violation only: README.md:54 has it stop at the first one that
\* does not, and README.md:58 has ALWAYS say that every one did.  The code
\* does neither when an execution times out (main.py:213, :215, :233).
StrictAlways ==
    mode = "strict" /\ Printed("ALWAYS") =>
      \A i \in Executions : i < Len(outcomes) => outcomes[i] = "reached"

\* Once the witness has been applied the tool gets to a verdict and exits,
\* whatever gcc and the executions do, an exception included.  (The except
\* clauses of main.py; parsing and applying may go on for ever.)
Concludes == phase = "compile" ~> phase = "ended" /\ verdicts # <<>>

=============================================================================
