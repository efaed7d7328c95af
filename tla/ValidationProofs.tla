-------------------------- MODULE ValidationProofs --------------------------
(***************************************************************************)
(* Theorems about Validation, for every number of executions.              *)
(*                                                                         *)
(* codes says less than outcomes does, so the verdict fits because of what *)
(* holds before it is printed: the counts agree with the executions        *)
(* (Counted), a summary is printed last (SummaryIsLast), and a loop that   *)
(* goes on has met nothing that decides its mode (Undecided, Decided).     *)
(***************************************************************************)
EXTENDS Validation, TLAPS

Counted ==
    /\ run = Len(outcomes)
    /\ codes[-1] > 0 <=> Some("reached")
    /\ codes[0] > 0 <=> Some("missed")

SummaryIsLast ==
    /\ phase # "ended" => \A verdict \in Summaries : ~Printed(verdict)
    /\ phase \notin {"raised", "ended"} => verdicts = <<>>

Decides(i) ==
    \/ mode = "strict" /\ outcomes[i] = "missed"
    \/ mode = "permissive" /\ outcomes[i] = "reached"

Undecided ==
    /\ phase \in {"parse", "apply", "compile"} => outcomes = <<>>
    /\ phase = "execute" => run < Runs /\ \A i \in Executions : ~Decides(i)

Decided ==
    /\ \A i \in Executions : i < Len(outcomes) => ~Decides(i)
    /\ phase = "conclude" => Len(outcomes) = Runs \/ Decides(Len(outcomes))

IInv == TypeOK /\ Counted /\ SummaryIsLast /\ Undecided /\ Decided
          /\ VerdictFits /\ StopsWhenDecided

USE RunsAssumption

\* At first nothing is printed and nothing executed.
LEMMA InitEstablishes == Init => IInv
  BY DEF Init, IInv, TypeOK, Counted, SummaryIsLast, Undecided, Decided, VerdictFits,
     StopsWhenDecided, Executions, Some, Printed, Modes, Violations, Phases, NoStatus,
     Verdicts, Outcomes, Summaries

\* Appending to a sequence adds its last element and nothing else.
LEMMA Appended ==
  ASSUME NEW S, NEW s \in Seq(S), NEW e \in S
  PROVE  /\ Append(s, e) \in Seq(S)
         /\ Len(Append(s, e)) = Len(s) + 1
         /\ Append(s, e)[Len(s) + 1] = e
         /\ \A i \in 1..Len(s) : Append(s, e)[i] = s[i]
         /\ \A v : (\E i \in 1..Len(Append(s, e)) : Append(s, e)[i] = v)
                     <=> v = e \/ \E i \in 1..Len(s) : s[i] = v
<1>1. /\ Append(s, e) \in Seq(S)
      /\ Len(Append(s, e)) = Len(s) + 1
      /\ Append(s, e)[Len(s) + 1] = e
      /\ \A i \in 1..Len(s) : Append(s, e)[i] = s[i]
  OBVIOUS
<1>2. Len(s) \in Nat
  OBVIOUS
<1>3. 1..(Len(s) + 1) = 1..Len(s) \union {Len(s) + 1}
  BY <1>2
<1>4. QED
  BY <1>1, <1>3

\* The steps that print no verdict and execute nothing.
LEMMA ContinueKeeps ==
  ASSUME IInv, NEW next \in {"apply", "compile", "execute", "raised"}, Continue(next),
         phase \in {"parse", "apply", "compile", "execute"},
         next \in {"apply", "compile", "execute"} => phase # "execute"
  PROVE  IInv'
<1>1. TypeOK'
  BY DEF IInv, TypeOK, Continue, Phases
<1>2. (Counted /\ VerdictFits /\ StopsWhenDecided)'
  BY DEF IInv, Continue, Counted, VerdictFits, StopsWhenDecided, Executions, Some, Printed
<1>3. SummaryIsLast'
  BY DEF IInv, Continue, SummaryIsLast, Printed
<1>4. Undecided'
  BY DEF IInv, TypeOK, Continue, Undecided, Executions, Decides, Counted
<1>5. Decided'
  BY DEF IInv, Continue, Decided, Executions, Decides
<1>6. QED
  BY <1>1, <1>2, <1>3, <1>4, <1>5 DEF IInv

\* The steps that print a verdict which is no summary, and the step that
\* prints one.
LEMMA PrintKeeps ==
  ASSUME IInv, NEW verdict \in Verdicts \ Summaries, Report(verdict),
         phase \notin {"ended"}, phase' \in {"raised", "ended"},
         status' \in {NoStatus, 0, -1},
         UNCHANGED <<mode, property, run, codes, outcomes>>
  PROVE  IInv'
<1>1. \A v : Printed(v)' <=> v = verdict \/ Printed(v)
  BY Appended DEF IInv, TypeOK, Report, Printed
<1>2. \A v \in Summaries : ~Printed(v)'
  BY <1>1 DEF IInv, SummaryIsLast
<1>3. TypeOK'
  BY Appended DEF IInv, TypeOK, Report, Phases
<1>4. Counted' /\ Decided' /\ Undecided'
  BY DEF IInv, Counted, Decided, Undecided, Executions, Some, Decides
<1>5. SummaryIsLast'
  BY <1>2 DEF SummaryIsLast
<1>6. VerdictFits'
  BY <1>2 DEF VerdictFits, Summaries
<1>7. StopsWhenDecided'
  BY <1>2 DEF IInv, StopsWhenDecided, Executions
<1>8. QED
  BY <1>3, <1>4, <1>5, <1>6, <1>7 DEF IInv

\* An execution: its outcome is counted, or is a timeout, and the loop goes on
\* only if it decides nothing.
LEMMA ExecutionKeeps ==
  ASSUME IInv, phase = "execute", NEW outcome \in Outcomes,
         outcomes' = Append(outcomes, outcome),
         codes' \in [{-1, 0} -> Nat],
         codes'[-1] > 0 <=> codes[-1] > 0 \/ outcome = "reached",
         codes'[0] > 0 <=> codes[0] > 0 \/ outcome = "missed",
         NextRun((mode = "strict" /\ outcome = "missed")
                   \/ (mode = "permissive" /\ outcome = "reached")),
         UNCHANGED <<mode, property, verdicts, status>>
  PROVE  IInv'
<1>n. PICK n \in Nat : n = Len(outcomes)
  BY DEF IInv, TypeOK
<1>0. /\ n = Len(outcomes) /\ outcomes \in Seq(Outcomes)
      /\ run = n /\ run < Runs /\ run \in 0..Runs /\ Runs \in Nat
  BY <1>n DEF IInv, TypeOK, Counted, Undecided
<1>1. /\ outcomes' \in Seq(Outcomes)
      /\ Len(outcomes') = n + 1
      /\ outcomes'[n + 1] = outcome
      /\ \A i \in 1..n : outcomes'[i] = outcomes[i]
  BY <1>0, Appended
<1>2. \A v : Some(v)' <=> v = outcome \/ Some(v)
  BY <1>0, Appended DEF Some, Executions
<1>3. verdicts = <<>> /\ verdicts' = <<>>
  BY DEF IInv, SummaryIsLast
<1>4. \A v : ~Printed(v)'
  BY <1>3 DEF Printed
<1>5. TypeOK'
  BY <1>0, <1>1 DEF IInv, TypeOK, NextRun, Phases
<1>6. Counted'
  BY <1>0, <1>1, <1>2 DEF IInv, Counted, NextRun
<1>7. SummaryIsLast'
  BY <1>3, <1>4 DEF SummaryIsLast
<1>8. \A i \in 1..n : ~Decides(i)'
  BY <1>0, <1>1 DEF IInv, Undecided, Decides, Executions
<1>9. Undecided'
  <2>1. phase' \in {"conclude", "execute"}
    BY DEF NextRun
  <2>2. ASSUME phase' = "execute"
        PROVE  run' < Runs /\ ~Decides(n + 1)'
    BY <1>0, <1>1, <2>2 DEF NextRun, Decides
  <2>3. ASSUME phase' = "execute"
        PROVE  \A i \in Executions' : ~Decides(i)'
    <3>1. Executions' = 1..n \union {n + 1}
      BY <1>0, <1>1 DEF Executions
    <3>2. QED
      BY <3>1, <1>8, <2>2, <2>3
  <2>4. QED
    BY <2>1, <2>2, <2>3 DEF Undecided
<1>10. Decided'
  <2>1. \A i \in Executions' : i < Len(outcomes') => ~Decides(i)'
    BY <1>0, <1>1, <1>8 DEF Executions
  <2>2. phase' = "conclude" => Len(outcomes') = Runs \/ Decides(n + 1)'
    BY <1>0, <1>1 DEF NextRun, Decides
  <2>3. QED
    BY <1>1, <2>1, <2>2 DEF Decided
<1>11. VerdictFits'
  BY <1>4 DEF VerdictFits
<1>12. StopsWhenDecided'
  BY <1>4, <1>10 DEF StopsWhenDecided, Decided, Decides
<1>13. QED
  BY <1>5, <1>6, <1>7, <1>9, <1>10, <1>11, <1>12 DEF IInv

\* The summary is printed: it fits the counts, and the counts the executions.
LEMMA ConcludeKeeps == IInv /\ Conclude => IInv'
<1> SUFFICES ASSUME IInv, Conclude PROVE IInv'
  OBVIOUS
<1>1. verdicts = <<>> /\ verdicts' = <<Summary>>
  BY DEF IInv, SummaryIsLast, Conclude, Report
<1>2. \A v : Printed(v)' <=> v = Summary
  BY <1>1 DEF Printed
<1>3. Summary \in Summaries /\ Summary \in Verdicts
  BY DEF Summary, Summaries, Verdicts
<1>4. TypeOK'
  BY <1>1, <1>3 DEF IInv, TypeOK, Conclude, Phases
<1>5. /\ Executions' = Executions
      /\ \A v : Some(v)' <=> Some(v)
      /\ \A i : Decides(i)' <=> Decides(i)
  BY DEF Conclude, Executions, Some, Decides
<1>6. Counted' /\ SummaryIsLast' /\ Undecided' /\ Decided'
  BY <1>5 DEF IInv, Conclude, Counted, SummaryIsLast, Undecided, Decided
<1>7. VerdictFits'
  <2>1. Summary = "TIMEOUT" => ~Some("reached") /\ ~Some("missed")
    BY DEF Summary, IInv, Counted
  <2>2. Summary = "TIMEOUT" => \A i \in Executions : outcomes[i] = "timeout"
    BY <2>1 DEF Some, Executions, IInv, TypeOK, Outcomes
  <2>3. /\ Summary = "ALWAYS" => Some("reached") /\ ~Some("missed")
        /\ Summary = "SOMETIMES" => Some("reached") /\ Some("missed")
        /\ Summary = "NEVER" => Some("missed") /\ ~Some("reached")
    BY DEF Summary, IInv, Counted
  <2>4. outcomes' = outcomes
    BY DEF Conclude
  <2>5. QED
    BY <1>2, <1>5, <2>2, <2>3, <2>4 DEF VerdictFits
<1>8. StopsWhenDecided'
  BY <1>5 DEF IInv, Conclude, Decided, Decides, StopsWhenDecided
<1>9. QED
  BY <1>4, <1>6, <1>7, <1>8 DEF IInv

LEMMA NextKeeps == IInv /\ [Next]_vars => IInv'
<1> SUFFICES ASSUME IInv, [Next]_vars PROVE IInv'
  OBVIOUS
<1>1. CASE Parse
  <2>1. "Parsing failed" \in Verdicts \ Summaries
    BY DEF Verdicts, Summaries, Known
  <2>2. CASE Continue("apply")
    BY <1>1, <2>2, ContinueKeeps DEF Parse
  <2>3. CASE Stop("Parsing failed")
    BY <1>1, <2>1, <2>3, PrintKeeps DEF Parse, Stop
  <2>4. QED
    BY <1>1, <2>2, <2>3 DEF Parse
<1>2. CASE Apply
  <2>1. Known \union {"Incompatible witness"} \subseteq Verdicts \ Summaries
    BY DEF Verdicts, Summaries, Known
  <2>2. CASE Continue("compile")
    BY <1>2, <2>2, ContinueKeeps DEF Apply
  <2>3. ASSUME NEW verdict \in Known \union {"Incompatible witness"}, Stop(verdict)
        PROVE  IInv'
    BY <1>2, <2>1, <2>3, PrintKeeps DEF Apply, Stop
  <2>4. QED
    BY <1>2, <2>2, <2>3 DEF Apply
<1>3. CASE Compile
  BY <1>3, ContinueKeeps DEF Compile
<1>4. CASE CompilationFails
  <2>1. "Compilation error" \in Verdicts \ Summaries
    BY DEF Verdicts, Summaries, Known
  <2>2. status' \in {NoStatus, 0, -1}
    BY <1>4 DEF CompilationFails, IInv, TypeOK
  <2>3. QED
    BY <1>4, <2>1, <2>2, PrintKeeps DEF CompilationFails
<1>5. CASE Caught
  <2>1. "Unknown error" \in Verdicts \ Summaries
    BY DEF Verdicts, Summaries, Known
  <2>2. QED
    BY <1>5, <2>1, PrintKeeps DEF Caught, Stop
<1>6. ASSUME NEW r \in Result, Execute(r)
      PROVE  IInv'
  <2> DEFINE outcome == IF ReachedError(r) THEN "reached" ELSE "missed"
             code == IF ReachedError(r) THEN -1 ELSE 0
  <2>1. codes \in [{-1, 0} -> Nat] /\ codes' = [codes EXCEPT ![code] = @ + 1]
    BY <1>6 DEF Execute, Count, IInv, TypeOK
  <2>2. /\ codes' \in [{-1, 0} -> Nat]
        /\ codes'[-1] > 0 <=> codes[-1] > 0 \/ outcome = "reached"
        /\ codes'[0] > 0 <=> codes[0] > 0 \/ outcome = "missed"
    BY <2>1
  <2>3. Breaks(ReachedError(r)) <=> (mode = "strict" /\ outcome = "missed")
                                      \/ (mode = "permissive" /\ outcome = "reached")
    BY DEF Breaks
  <2>4. NextRun((mode = "strict" /\ outcome = "missed")
                  \/ (mode = "permissive" /\ outcome = "reached"))
    BY <1>6, <2>3 DEF Execute, NextRun
  <2>5. outcome \in Outcomes
    BY DEF Outcomes
  <2>6. QED
    BY <1>6, <2>2, <2>4, <2>5, ExecutionKeeps DEF Execute
<1>7. CASE ExecuteTooLong
  <2>1. codes' \in [{-1, 0} -> Nat] /\ codes' = codes /\ "timeout" \in Outcomes
    BY <1>7 DEF ExecuteTooLong, IInv, TypeOK, Outcomes
  <2>2. NextRun((mode = "strict" /\ "timeout" = "missed")
                  \/ (mode = "permissive" /\ "timeout" = "reached"))
    BY <1>7 DEF ExecuteTooLong, NextRun
  <2>3. QED
    BY <1>7, <2>1, <2>2, ExecutionKeeps DEF ExecuteTooLong
<1>8. CASE ExecuteRaises
  BY <1>8, ContinueKeeps DEF ExecuteRaises
<1>9. CASE Conclude
  BY <1>9, ConcludeKeeps
<1>10. CASE UNCHANGED vars
  BY <1>10 DEF vars, IInv, TypeOK, Counted, SummaryIsLast, Undecided, Decided, Decides,
     VerdictFits, StopsWhenDecided, Executions, Some, Printed
<1>11. QED
  BY <1>1, <1>2, <1>3, <1>4, <1>5, <1>6, <1>7, <1>8, <1>9, <1>10 DEF Next, Test

\* However many executions there are, the variables of the tool have their
\* types: in particular the loop never goes past its range.
THEOREM ValidationTypes == SafeSpec => []TypeOK
<1>1. SafeSpec => []IInv
  BY InitEstablishes, NextKeeps, PTL DEF SafeSpec
<1>2. IInv => TypeOK
  BY DEF IInv
<1>3. QED
  BY <1>1, <1>2, PTL

\* The printed summary is true of the executions that finished, however many
\* of the others timed out.
THEOREM VerdictsFit == SafeSpec => []VerdictFits
<1>1. SafeSpec => []IInv
  BY InitEstablishes, NextKeeps, PTL DEF SafeSpec
<1>2. IInv => VerdictFits
  BY DEF IInv
<1>3. QED
  BY <1>1, <1>2, PTL

\* The loop stops at the first finished execution that decides its mode, or at
\* its range.
THEOREM LoopStops == SafeSpec => []StopsWhenDecided
<1>1. SafeSpec => []IInv
  BY InitEstablishes, NextKeeps, PTL DEF SafeSpec
<1>2. IInv => StopsWhenDecided
  BY DEF IInv
<1>3. QED
  BY <1>1, <1>2, PTL

=============================================================================
