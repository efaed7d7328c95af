SPECIFICATION FairSpec
CONSTANTS
  temp = temp
  example = example
  bench = bench
  sv = sv
  unreach = unreach
  race = race
  Programs <- MCPrograms
  NoProgram = none
  Default = temp
  Examples = {example}
  Benchmarks = {bench}
  SvExamples = {sv}
  Specs <- MCSpecs
  Unreach = unreach
  Own = own
  SpecOf <- MCSpecOf
  MaxActions = 3
INVARIANT TypeOK
INVARIANT LintFollows
INVARIANT OneInstrumentation
INVARIANT EditorsAgree
INVARIANT CompiledForUnreach
PROPERTY InstrumentationEnds
CHECK_DEADLOCK FALSE
