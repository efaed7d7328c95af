---------------------------- MODULE ReplayProofs ----------------------------
(***************************************************************************)
(* Proofs about Replay, for every program whose calls stand where the      *)
(* instrumentation puts them (TakesTurns, CountsTurns): that the turns of  *)
(* a witness are taken in its order, and that an error counts behind them  *)
(* only, whatever the threads do.                                          *)
(***************************************************************************)
EXTENDS Replay, ConcurrentHarnessProofs, FiniteSetTheorems

-----------------------------------------------------------------------------
(* What a step leaves in the history.                                      *)

\* The instruction t is at, as the event that says it has happened.
Trace(t) == <<"stmt", ltid[t], Here(t).line>>

\* A step of thread t in the history: it grows, what is new in it is t's
\* instruction, and t does not leave one untraced.
TracesOf(t) ==
    /\ events \subseteq events'
    /\ \A e \in events' \ events : e[1] = "stmt" =>
         ip[t] \in DOMAIN Code[script][t] /\ e = Trace(t)
    /\ \A u \in Threads \ {t} : ip'[u] = ip[u]
    /\ /\ ip'[t] # ip[t]
       /\ ip[t] \in DOMAIN Code[script][t]
       /\ Here(t).op \in Traced
       /\ Here(t).line # 0
       => Trace(t) \in events'

\* What that makes of a step of any thread.
Traces ==
    /\ events \subseteq events'
    /\ \A e \in events' \ events : e[1] = "stmt" =>
         \E t \in Threads : ip[t] \in DOMAIN Code[script][t] /\ e = Trace(t)
    /\ \A t \in Threads :
         /\ ip'[t] # ip[t]
         /\ ip[t] \in DOMAIN Code[script][t]
         /\ Here(t).op \in Traced
         /\ Here(t).line # 0
         => Trace(t) \in events'

LEMMA ExecutedIsTrace ==
    ASSUME NEW t \in Threads
    PROVE  /\ Executed(t) \subseteq {Trace(t)}
           /\ Here(t).line # 0 => Trace(t) \in Executed(t)
  BY DEF Executed, Trace

LEMMA ConsultedIsNoTrace ==
    ASSUME NEW t \in Threads, NEW e \in Consulted(t) PROVE e[1] # "stmt"
  BY DEF Consulted

\* Thread t stays, or leaves an instruction that has no trace.
LEMMA Untraced ==
    ASSUME NEW t \in Threads, UNCHANGED events,
           \A u \in Threads \ {t} : ip'[u] = ip[u],
           ip'[t] = ip[t] \/ Here(t).op \notin Traced
    PROVE  TracesOf(t)
  BY DEF TracesOf

\* Thread t executes its instruction, and may go on.
LEMMA LeavesTrace ==
    ASSUME NEW t \in Threads, ip[t] \in DOMAIN Code[script][t],
           \A u \in Threads \ {t} : ip'[u] = ip[u],
           NEW S, \A e \in S : e[1] # "stmt",
           events' = events \cup S \cup Executed(t)
    PROVE  TracesOf(t)
  <1>1. events \subseteq events'
    OBVIOUS
  <1>2. ASSUME NEW e \in events' \ events, e[1] = "stmt"
        PROVE  ip[t] \in DOMAIN Code[script][t] /\ e = Trace(t)
    BY <1>2, ExecutedIsTrace
  <1>3. Here(t).line # 0 => Trace(t) \in events'
    BY ExecutedIsTrace
  <1> QED
    BY <1>1, <1>2, <1>3 DEF TracesOf

LEMMA LeavesLine ==
    ASSUME NEW t \in Threads, ip[t] \in DOMAIN Code[script][t],
           \A u \in Threads \ {t} : ip'[u] = ip[u],
           events' = events \cup Executed(t)
    PROVE  TracesOf(t)
  <1> DEFINE S == {}
  <1>1. events' = events \cup S \cup Executed(t) /\ \A e \in S : e[1] # "stmt"
    OBVIOUS
  <1> HIDE DEF S
  <1> QED
    BY <1>1, LeavesTrace

LEMMA StepTraces ==
    ASSUME IndInv, NEW self \in Threads, Step(self) \/ SpuriousWakeup(self)
    PROVE  TracesOf(self)
  <1> USE DEF At, In, Goto, Resume, ResumeAt, outputVars, threadVars
  <1>t. ip \in [Threads -> Nat]
    BY DEF IndInv, TypeInv, TypeOK
  <1>c. CallOK
    BY DEF IndInv, TypeInv
  \* A step in which all threads stay.
  <1>q. ASSUME NEW t \in Threads, UNCHANGED <<ip, events>> PROVE TracesOf(t)
    BY <1>q DEF TracesOf
  <1>1. ASSUME NEW t \in Threads, EnterCall(t) PROVE TracesOf(t)
    <2>1. Here(t).op \notin Traced
      BY <1>1 DEF EnterCall, Traced
    <2> QED
      BY <1>1, <1>t, <2>1, Untraced DEF EnterCall
  <1>2. ASSUME NEW t \in Threads, Unlock(t) PROVE TracesOf(t)
    <2>1. Here(t).op \notin Traced
      BY <1>2, <1>c DEF Unlock, CallOK, InCall, Critical, Traced
    <2> QED
      BY <1>2, <1>t, <2>1, Untraced DEF Unlock
  <1>3. ASSUME NEW t \in Threads, SetFinalSlot(t) PROVE TracesOf(t)
    <2>1. Here(t).op \notin Traced
      BY <1>3 DEF SetFinalSlot, Traced
    <2> QED
      BY <1>3, <1>t, <2>1, Untraced DEF SetFinalSlot
  \* The guards leave something else.
  <1>a. ASSUME NEW t \in Threads, ip[t] \in DOMAIN Code[script][t], Here(t).op \notin Traced,
               \A u \in Threads \ {t} : ip'[u] = ip[u],
               NEW S \in SUBSET Consulted(t), events' = events \cup S
        PROVE  TracesOf(t)
    BY <1>a, ConsultedIsNoTrace DEF TracesOf
  <1>4. ASSUME NEW t \in Threads, AssumeFirstArgument(t) PROVE TracesOf(t)
    <2>1. Here(t).op \notin Traced /\ ip[t] \in DOMAIN Code[script][t]
      BY <1>4 DEF AssumeFirstArgument, Traced
    <2>2. events' = events \cup Consulted(t) \/ events' = events \cup {}
      BY <1>4 DEF AssumeFirstArgument
    <2>3. \A u \in Threads \ {t} : ip'[u] = ip[u]
      BY <1>4, <1>t DEF AssumeFirstArgument
    <2> QED
      BY <1>a, <2>1, <2>2, <2>3
  <1>5. ASSUME NEW t \in Threads, AssumeSecondArgument(t) PROVE TracesOf(t)
    <2>1. Here(t).op \notin Traced /\ ip[t] \in DOMAIN Code[script][t]
      BY <1>5, <1>c DEF AssumeSecondArgument, CallOK, Traced
    <2>2. events' = events \cup Consulted(t) \/ events' = events \cup {}
      BY <1>5 DEF AssumeSecondArgument
    <2>3. \A u \in Threads \ {t} : ip'[u] = ip[u]
      BY <1>5, <1>t DEF AssumeSecondArgument
    <2> QED
      BY <1>a, <2>1, <2>2, <2>3
  \* The statements leave their lines.
  <1>6. ASSUME NEW t \in Threads, Pin(t) PROVE TracesOf(t)
    <2>1. events' = events \cup Consulted(t) \cup Executed(t)
      BY <1>6 DEF Pin
    <2>2. \A u \in Threads \ {t} : ip'[u] = ip[u]
      BY <1>6, <1>t DEF Pin
    <2> QED
      BY <1>6, <2>1, <2>2, LeavesTrace, ConsultedIsNoTrace DEF Pin
  <1>7. ASSUME NEW t \in Threads, Statement(t) PROVE TracesOf(t)
    <2>1. events' = events \cup Executed(t)
      BY <1>7 DEF Statement
    <2>2. \A u \in Threads \ {t} : ip'[u] = ip[u]
      BY <1>7, <1>t DEF Statement
    <2> QED
      BY <1>7, <2>1, <2>2, LeavesLine DEF Statement
  <1>8. ASSUME NEW t \in Threads, Branch(t) PROVE TracesOf(t)
    <2>1. events' = events \cup Executed(t)
      BY <1>8 DEF Branch
    <2>2. \A u \in Threads \ {t} : ip'[u] = ip[u]
      BY <1>8, <1>t DEF Branch
    <2> QED
      BY <1>8, <2>1, <2>2, LeavesLine DEF Branch
  <1>9. ASSUME NEW t \in Threads, Create(t) PROVE TracesOf(t)
    <2>1. events' = events \cup Numbered(t) \cup Executed(t)
      BY <1>9 DEF Create
    <2>2. \A u \in Threads \ {t} : ip'[u] = ip[u]
      BY <1>9, <1>t DEF Create
    <2>3. \A e \in Numbered(t) : e[1] # "stmt"
      BY DEF Numbered
    <2> QED
      BY <1>9, <2>1, <2>2, <2>3, LeavesTrace DEF Create
  <1>10. ASSUME NEW t \in Threads, Join(t) PROVE TracesOf(t)
    <2>1. events' = events \cup Executed(t)
      BY <1>10 DEF Join
    <2>2. \A u \in Threads \ {t} : ip'[u] = ip[u]
      BY <1>10, <1>t DEF Join
    <2> QED
      BY <1>10, <2>1, <2>2, LeavesLine DEF Join
  <1>11. ASSUME NEW t \in Threads, ReachError(t) PROVE TracesOf(t)
    <2>1. events' = events \cup Executed(t)
      BY <1>11 DEF ReachError
    <2>2. \A u \in Threads \ {t} : ip'[u] = ip[u]
      BY <1>11, <1>t DEF ReachError
    <2> QED
      BY <1>11, <2>1, <2>2, LeavesLine DEF ReachError
  \* The other steps do not concern it.
  <1>12. ASSUME NEW t \in Threads, CallOnce(t) PROVE TracesOf(t)
    BY <1>12, <1>q DEF CallOnce
  <1>13. ASSUME NEW t \in Threads, Initialize(t) PROVE TracesOf(t)
    BY <1>13, <1>q DEF Initialize
  <1>14. ASSUME NEW t \in Threads, Lock(t) PROVE TracesOf(t)
    BY <1>14, <1>q DEF Lock
  <1>15. ASSUME NEW t \in Threads, Check(t) PROVE TracesOf(t)
    BY <1>15, <1>q DEF Check
  <1>16. ASSUME NEW t \in Threads, Announce(t) PROVE TracesOf(t)
    BY <1>16, <1>q DEF Announce
  <1>17. ASSUME NEW t \in Threads, Test(t) PROVE TracesOf(t)
    BY <1>17, <1>q DEF Test
  <1>18. ASSUME NEW t \in Threads, Wait(t) PROVE TracesOf(t)
    BY <1>18, <1>q DEF Wait
  <1>19. ASSUME NEW t \in Threads, SpuriousWakeup(t) PROVE TracesOf(t)
    BY <1>19, <1>q DEF SpuriousWakeup
  <1>20. ASSUME NEW t \in Threads, Reacquire(t) PROVE TracesOf(t)
    BY <1>20, <1>q DEF Reacquire
  <1>21. ASSUME NEW t \in Threads, Store(t) PROVE TracesOf(t)
    BY <1>21, <1>q DEF Store
  <1>22. ASSUME NEW t \in Threads, Signal(t) PROVE TracesOf(t)
    BY <1>22, <1>q DEF Signal
  <1>23. ASSUME NEW t \in Threads, TryAlternative(t) PROVE TracesOf(t)
    BY <1>23, <1>q DEF TryAlternative
  <1>24. ASSUME NEW t \in Threads, ThreadProxy(t) PROVE TracesOf(t)
    BY <1>24, <1>q DEF ThreadProxy
  <1>25. ASSUME NEW t \in Threads, Report(t) PROVE TracesOf(t)
    BY <1>25, <1>q DEF Report
  <1>26. ASSUME NEW t \in Threads, ExitWithError(t) PROVE TracesOf(t)
    BY <1>26, <1>q DEF ExitWithError
  <1>27. ASSUME NEW t \in Threads, Finish(t) PROVE TracesOf(t)
    BY <1>27, <1>q DEF Finish
  <1> QED
    BY <1>1, <1>2, <1>3, <1>4, <1>5, <1>6, <1>7, <1>8, <1>9, <1>10,
       <1>11, <1>12, <1>13, <1>14, <1>15, <1>16, <1>17, <1>18, <1>19,
       <1>20, <1>21, <1>22, <1>23, <1>24, <1>25, <1>26, <1>27
    DEF Step

LEMMA TracesStep == IndInv /\ [Next]_vars => Traces
  <1> SUFFICES ASSUME IndInv, [Next]_vars PROVE Traces
    OBVIOUS
  <1>1. ASSUME NEW t \in Threads, TracesOf(t) PROVE Traces
    BY <1>1 DEF TracesOf, Traces
  <1>2. CASE UNCHANGED <<ip, events>>
    BY <1>2 DEF Traces
  <1> QED
    BY <1>1, <1>2, StepTraces DEF Next, Exited, ProcessEnds, vars, threadVars

-----------------------------------------------------------------------------
(* The points of a witness and their turns.                                *)

LEMMA EventFields ==
    ASSUME NEW s \in Scripts, NEW p \in Cases[s].points \cup Cases[s].targets
    PROVE  /\ ThreadAt(s, p) \in Int
           /\ LineAt(s, p) \in Nat
           /\ Cases[s].happened[p] = <<"stmt", ThreadAt(s, p), LineAt(s, p)>>
  <1>1. Cases[s].happened \in Seq({"stmt"} \X Int \X Nat)
    BY CasesAssumption
  <1>2. p \in DOMAIN Cases[s].happened
    BY CasesAssumption
  <1>3. Cases[s].happened[p] \in {"stmt"} \X Int \X Nat
    BY <1>1, <1>2
  <1> QED
    BY <1>3 DEF ThreadAt, LineAt

LEMMA PointFields ==
    ASSUME NEW s \in Scripts, NEW p \in Cases[s].points
    PROVE  /\ p \in Nat
           /\ ThreadAt(s, p) \in Int
           /\ LineAt(s, p) \in Nat
           /\ Cases[s].happened[p] = <<"stmt", ThreadAt(s, p), LineAt(s, p)>>
  <1>1. p \in Nat
    BY CasesAssumption
  <1> QED
    BY <1>1, EventFields

\* Turns are numbered in the order of the witness.
LEMMA TurnsNumbered ==
    ASSUME NEW s \in Scripts, NEW p \in Cases[s].points
    PROVE  /\ TurnOf(s, p) \in Nat
           /\ p \notin Cases[s].targets =>
                \A q \in Cases[s].points : p < q => TurnOf(s, p) < TurnOf(s, q)
  <1> DEFINE Turns == Cases[s].points \ Cases[s].targets
             Before(q) == {r \in Turns : r < q}
  <1>0. Cases[s].points \subseteq Nat
    BY CasesAssumption
  <1>1. ASSUME NEW q \in Cases[s].points PROVE IsFiniteSet(Before(q))
    <2>1. q \in Nat /\ Before(q) \subseteq 0..q
      BY <1>0
    <2>2. IsFiniteSet(0..q)
      BY <2>1, FS_Interval
    <2> QED
      BY <2>1, <2>2, FS_Subset
  <1>2. ASSUME NEW q \in Cases[s].points, p < q, p \notin Cases[s].targets
        PROVE  TurnOf(s, p) < TurnOf(s, q)
    <2>1. Before(p) \cup {p} \subseteq Before(q) /\ p \notin Before(p)
      BY <1>0, <1>2
    <2>2. /\ IsFiniteSet(Before(p)) /\ IsFiniteSet(Before(q))
          /\ Cardinality(Before(p)) \in Nat /\ Cardinality(Before(q)) \in Nat
      BY <1>1, FS_CardinalityType
    <2>3. Cardinality(Before(p) \cup {p}) = Cardinality(Before(p)) + 1
      BY <2>1, <2>2, FS_AddElement
    <2>4. Cardinality(Before(p) \cup {p}) <= Cardinality(Before(q))
      BY <2>1, <2>2, FS_Subset
    <2>5. Cardinality(Before(p)) < Cardinality(Before(q))
      BY <2>2, <2>3, <2>4
    <2> QED
      BY <2>5 DEF TurnOf
  <1>3. TurnOf(s, p) \in Nat
    BY <1>1, FS_CardinalityType DEF TurnOf
  <1> QED
    BY <1>2, <1>3

-----------------------------------------------------------------------------
(* Turns are taken in order.                                               *)

\* Where a statement is the only way to, it has been executed.
LineOK ==
    \A t \in Threads : \A d \in DOMAIN Code[script][t] : \A e \in Nat :
      /\ OnlyWay(script, t, d, e)
      /\ Code[script][t][d].op \in Traced
      /\ Code[script][t][d].line # 0
      /\ ip[t] \in (d + 1)..e
      => <<"stmt", ltid[t], Code[script][t][d].line>> \in events

LEMMA LineStep == IndInv /\ LineOK /\ [Next]_vars => LineOK'
  <1> SUFFICES ASSUME IndInv, LineOK, [Next]_vars PROVE LineOK'
    OBVIOUS
  <1>s. script' = script
    BY OrderlyStep DEF Orderly
  <1> SUFFICES ASSUME NEW t \in Threads, NEW d \in DOMAIN Code[script][t],
                      NEW e \in Nat, OnlyWay(script, t, d, e),
                      Code[script][t][d].op \in Traced, Code[script][t][d].line # 0,
                      ip'[t] \in (d + 1)..e
               PROVE  <<"stmt", ltid'[t], Code[script][t][d].line>> \in events'
    BY <1>s DEF LineOK
  <1>0. d \in Nat \ {0} /\ ip[t] \in Nat
    BY InstructionFields DEF IndInv, TypeInv, TypeOK
  <1>1. Orderly /\ Traces
    BY OrderlyStep, TracesStep
  <1>2. ltid'[t] = ltid[t]
    BY <1>0, <1>1 DEF Orderly, Stays, GoesOn, Branches
  <1>3. CASE ip[t] \in (d + 1)..e
    BY <1>1, <1>2, <1>3 DEF LineOK, Traces
  <1>4. CASE ip[t] = d
    <2>1. ip'[t] # ip[t]
      BY <1>0, <1>4
    <2> QED
      BY <1>1, <1>2, <1>4, <2>1 DEF Traces, Trace, Here
  <1>5. CASE Stays(t)
    BY <1>3, <1>5 DEF Stays
  <1> QED
    BY <1>1, <1>3, <1>4, <1>5, OverTheWay DEF IndInv

\* A thread that has come behind a statement has executed it.
LEMMA LinePassed ==
    ASSUME IndInv, LineOK, NEW t \in Threads, ip[t] \in DOMAIN Code[script][t],
           NEW line, line # 0, BehindLine(script, t, ip[t], line)
    PROVE  <<"stmt", ltid[t], line>> \in events
  <1>1. PICK d \in DOMAIN Code[script][t] :
          LeadsTo(script, t, d, ip[t]) /\ Code[script][t][d].op \in Traced
            /\ Code[script][t][d].line = line
    BY DEF BehindLine
  <1>2. PICK e \in ip[t]..Len(Code[script][t]) : OnlyWay(script, t, d, e)
    BY <1>1 DEF LeadsTo
  <1>3. ip[t] \in Nat /\ d \in Nat /\ Len(Code[script][t]) \in Nat
    BY CodeAssumption, InstructionFields DEF IndInv, TypeInv, TypeOK
  <1>4. e \in Nat /\ ip[t] \in (d + 1)..e
    BY <1>1, <1>2, <1>3 DEF LeadsTo
  <1> QED
    BY <1>1, <1>2, <1>4 DEF LineOK

\* What comes in a turn comes when that turn is due ...
OpenedOK ==
    \A p \in ThisCase.points :
      Opened(script, p) /\ Happened(p) => counter >= TurnOf(script, p)

\* ... and when a turn is over, what comes in it has come.
ClosedOK ==
    \A p \in ThisCase.points :
      Disciplined(script) /\ Closed(script, p) /\ counter > TurnOf(script, p) => Happened(p)

LEMMA OpenedStep == IndInv /\ BehindOK /\ OpenedOK /\ [Next]_vars => OpenedOK'
  <1> SUFFICES ASSUME IndInv, BehindOK, OpenedOK, [Next]_vars PROVE OpenedOK'
    OBVIOUS
  <1>s. script' = script
    BY OrderlyStep DEF Orderly
  <1> SUFFICES ASSUME NEW p \in ThisCase.points, Opened(script, p), Happened(p)'
               PROVE  counter' >= TurnOf(script, p)
    BY <1>s DEF OpenedOK, ThisCase
  <1>0. script \in Scripts /\ script' = script /\ counter' >= counter
    BY OrderlyStep DEF Orderly, IndInv, TypeInv, TypeOK
  <1>1. counter \in Nat /\ counter' \in Nat /\ TurnOf(script, p) \in Nat
    BY <1>0, TypeStep, TurnsNumbered DEF ThisCase, IndInv, TypeInv, TypeOK
  <1>2. ThisCase.happened[p] = <<"stmt", ThreadAt(script, p), LineAt(script, p)>>
    BY <1>0, PointFields DEF ThisCase
  <1>3. CASE Happened(p)
    BY <1>0, <1>1, <1>3 DEF OpenedOK
  <1>4. CASE ~Happened(p)
    <2>1. ThisCase.happened[p] \in events' \ events
      BY <1>0, <1>4 DEF Happened, ThisCase
    <2>2. PICK t \in Threads :
             ip[t] \in DOMAIN Code[script][t] /\ ThisCase.happened[p] = Trace(t)
      BY <1>2, <2>1, TracesStep DEF Traces
    <2>3. ltid[t] = ThreadAt(script, p) /\ Here(t).line = LineAt(script, p)
      BY <1>2, <2>2 DEF Trace
    <2>4. BehindYield(script, t, ip[t], TurnOf(script, p), ltid[t])
      BY <2>2, <2>3 DEF Opened, Here
    <2>5. counter >= TurnOf(script, p)
      BY <2>2, <2>4, YieldPassed
    <2> QED
      BY <1>0, <1>1, <2>5
  <1> QED
    BY <1>3, <1>4

LEMMA ClosedStep ==
    IndInv /\ BehindOK /\ LineOK /\ ClosedOK /\ [Next]_vars => ClosedOK'
  <1> SUFFICES ASSUME IndInv, BehindOK, LineOK, ClosedOK, [Next]_vars PROVE ClosedOK'
    OBVIOUS
  <1>0. script \in Scripts /\ script' = script /\ counter \in Nat /\ events \subseteq events'
    BY OrderlyStep, TracesStep DEF Orderly, Traces, IndInv, TypeInv, TypeOK
  <1> SUFFICES ASSUME NEW p \in ThisCase.points, Disciplined(script), Closed(script, p),
                      counter' > TurnOf(script, p)
               PROVE  ThisCase.happened[p] \in events'
    BY <1>0 DEF ClosedOK, ThisCase, Happened
  <1>1. TurnOf(script, p) \in Nat
    BY <1>0, TurnsNumbered DEF ThisCase
  <1>2. CASE counter > TurnOf(script, p)
    BY <1>0, <1>2 DEF ClosedOK, Happened
  <1>3. CASE ~(counter > TurnOf(script, p))
    <2>1. PICK t \in Threads : Store(t)
      BY <1>3, OnlyStoreCounts
    <2>2. pc[t] = "store" /\ counter' = Here(t).slot + 1
      BY <2>1 DEF Store, In
    <2>3. /\ ip[t] \in DOMAIN Code[script][t]
          /\ Here(t).op = "release"
          /\ ltid[t] = Here(t).tid
          /\ counter <= Here(t).slot
          /\ Here(t).slot \in Nat
      BY <1>0, <2>2, InstructionFields
      DEF IndInv, TypeInv, CallOK, InCall, Critical, SyncInv, CounterOK, Here
    <2>4. BehindYield(script, t, ip[t], Here(t).slot, ltid[t])
      BY <2>3 DEF Disciplined, Here
    <2>5. counter >= Here(t).slot
      BY <2>3, <2>4, YieldPassed
    <2>6. Here(t).slot = TurnOf(script, p)
      BY <1>0, <1>1, <1>3, <2>2, <2>3, <2>5
    <2>7. ltid[t] = ThreadAt(script, p) /\ BehindLine(script, t, ip[t], LineAt(script, p))
      BY <2>3, <2>6 DEF Closed, Here
    <2>8. <<"stmt", ltid[t], LineAt(script, p)>> \in events
      BY <2>3, <2>7, LinePassed DEF Closed
    <2> QED
      BY <1>0, <2>7, <2>8, PointFields DEF ThisCase
  <1> QED
    BY <1>2, <1>3

\* What the turns do to the history.
TurnsInv == BehindOK /\ LineOK /\ OpenedOK /\ ClosedOK

LEMMA TurnsInvariant == SafeSpec => []TurnsInv
  <1>1. Init => LineOK /\ OpenedOK
    BY InstructionFields DEF Init, LineOK, OpenedOK, Happened
  <1>2. Init => ClosedOK
    <2> SUFFICES ASSUME Init, NEW p \in ThisCase.points, counter > TurnOf(script, p)
                 PROVE  FALSE
      BY DEF ClosedOK
    <2>1. TurnOf(script, p) \in Nat /\ counter = 0
      BY TurnsNumbered DEF Init, ThisCase
    <2> QED
      BY <2>1
  <1>3. IndInv /\ BehindOK /\ LineOK /\ OpenedOK /\ ClosedOK /\ [Next]_vars =>
          LineOK' /\ OpenedOK' /\ ClosedOK'
    BY LineStep, OpenedStep, ClosedStep
  <1> QED
    BY <1>1, <1>2, <1>3, Invariance, BehindInvariant, PTL DEF SafeSpec, TurnsInv

\* A program whose turns are opened and closed passes the schedule points in the
\* order of the witness, for any number of threads and turns and whatever the
\* scheduler does: what stands at a point has been executed before what stands
\* at a later one.
THEOREM TurnsInOrder == SafeSpec => [](TakesTurns(script) => ReplayOrder)
  <1>1. IndInv /\ TurnsInv /\ TakesTurns(script) => ReplayOrder
    <2> SUFFICES ASSUME IndInv, TurnsInv, TakesTurns(script),
                        NEW i \in ThisCase.points \ ThisCase.targets,
                        NEW j \in ThisCase.points, i < j, Happened(j)
                 PROVE  Happened(i)
      BY DEF ReplayOrder
    <2>1. script \in Scripts /\ counter \in Nat
      BY DEF IndInv, TypeInv, TypeOK
    <2>2. /\ Opened(script, j) /\ Closed(script, i)
          /\ Disciplined(script) /\ i \notin ThisCase.targets
      BY DEF TakesTurns, ThisCase
    <2>3. /\ TurnOf(script, i) \in Nat /\ TurnOf(script, j) \in Nat
          /\ TurnOf(script, i) < TurnOf(script, j)
      BY <2>1, <2>2, TurnsNumbered DEF ThisCase
    <2>4. counter >= TurnOf(script, j)
      BY <2>2 DEF TurnsInv, OpenedOK
    <2>5. counter > TurnOf(script, i)
      BY <2>1, <2>3, <2>4
    <2> QED
      BY <2>2, <2>5 DEF TurnsInv, ClosedOK
  <1> QED
    BY <1>1, Invariance, TurnsInvariant, PTL

-----------------------------------------------------------------------------
(* Errors are reported behind all turns.                                   *)

\* main is about to set the final slot, and nobody else is there.
Starting ==
    /\ pc[Main] = "run" /\ ip[Main] = 1
    /\ \A t \in Threads \ {Main} : pc[t] = "unborn"

\* A step on the way to the report of an error.
Reports ==
    /\ \A t \in Threads : pc'[t] = "report" =>
         \/ pc[t] = "report"
         \/ At(t, "error") /\ (finalSlot < 0 \/ counter = finalSlot)
    /\ \A t \in Threads : pc'[t] = "exit74" =>
         pc[t] = "exit74" \/ (pc[t] = "report" /\ reported')
    /\ reported => reported'
    /\ reported' => reported \/ \E t \in Threads : pc[t] = "report"
    /\ exitCode' = 74 => exitCode = 74 \/ \E t \in Threads : pc[t] = "exit74"
    /\ finalSlot' = finalSlot \/ \E t \in Threads : SetFinalSlot(t)

LEMMA ReportsStep == TypeInv /\ [Next]_vars => Reports
  <1> SUFFICES ASSUME TypeInv, [Next]_vars PROVE Reports
    OBVIOUS
  <1> USE DEF In, Goto, Resume, ResumeAt, outputVars, threadVars
  <1>t. pc \in [Threads -> Labels]
    BY DEF TypeInv, TypeOK
  \* A step that takes no thread there and has no effect outside.
  <1>q. ASSUME UNCHANGED <<finalSlot, outputVars>>,
               \A t \in Threads : pc'[t] \in {"report", "exit74"} => pc'[t] = pc[t]
        PROVE  Reports
    BY <1>q DEF Reports
  <1>1. ASSUME NEW t \in Threads, EnterCall(t) PROVE Reports
    BY <1>1, <1>t, <1>q DEF EnterCall
  <1>2. ASSUME NEW t \in Threads, CallOnce(t) PROVE Reports
    BY <1>2, <1>t, <1>q DEF CallOnce
  <1>3. ASSUME NEW t \in Threads, Initialize(t) PROVE Reports
    BY <1>3, <1>t, <1>q DEF Initialize
  <1>4. ASSUME NEW t \in Threads, Lock(t) PROVE Reports
    BY <1>4, <1>t, <1>q DEF Lock
  <1>5. ASSUME NEW t \in Threads, Check(t) PROVE Reports
    BY <1>5, <1>t, <1>q DEF Check
  <1>6. ASSUME NEW t \in Threads, Announce(t) PROVE Reports
    BY <1>6, <1>t, <1>q DEF Announce, Wake
  <1>7. ASSUME NEW t \in Threads, Test(t) PROVE Reports
    BY <1>7, <1>t, <1>q DEF Test
  <1>8. ASSUME NEW t \in Threads, Wait(t) PROVE Reports
    BY <1>8, <1>t, <1>q DEF Wait
  <1>9. ASSUME NEW t \in Threads, SpuriousWakeup(t) PROVE Reports
    BY <1>9, <1>t, <1>q DEF SpuriousWakeup
  <1>10. ASSUME NEW t \in Threads, Reacquire(t) PROVE Reports
    BY <1>10, <1>t, <1>q DEF Reacquire
  <1>11. ASSUME NEW t \in Threads, Store(t) PROVE Reports
    BY <1>11, <1>t, <1>q DEF Store
  <1>12. ASSUME NEW t \in Threads, Signal(t) PROVE Reports
    BY <1>12, <1>t, <1>q DEF Signal, Wake
  <1>13. ASSUME NEW t \in Threads, Unlock(t) PROVE Reports
    BY <1>13, <1>t, <1>q DEF Unlock
  <1>14. ASSUME NEW t \in Threads, Pin(t) PROVE Reports
    BY <1>14, <1>t, <1>q DEF Pin
  <1>15. ASSUME NEW t \in Threads, Statement(t) PROVE Reports
    BY <1>15, <1>t, <1>q DEF Statement
  <1>16. ASSUME NEW t \in Threads, Branch(t) PROVE Reports
    BY <1>16, <1>t, <1>q DEF Branch
  <1>17. ASSUME NEW t \in Threads, TryAlternative(t) PROVE Reports
    BY <1>17, <1>t, <1>q DEF TryAlternative
  <1>18. ASSUME NEW t \in Threads, ThreadProxy(t) PROVE Reports
    BY <1>18, <1>t, <1>q DEF ThreadProxy
  <1>19. ASSUME NEW t \in Threads, Join(t) PROVE Reports
    BY <1>19, <1>t, <1>q DEF Join
  <1>20. ASSUME NEW t \in Threads, Finish(t) PROVE Reports
    BY <1>20, <1>t, <1>q DEF Finish
  <1>21. ASSUME NEW t \in Threads, AssumeFirstArgument(t) PROVE Reports
    BY <1>21, <1>t, <1>q DEF AssumeFirstArgument, Reports, Running
  <1>22. ASSUME NEW t \in Threads, Create(t) PROVE Reports
    BY <1>22, <1>t, <1>q DEF Create, Reports, Running
  <1>23. ASSUME NEW t \in Threads, SetFinalSlot(t) PROVE Reports
    BY <1>23, <1>t DEF SetFinalSlot, Reports, Running
  <1>24. ASSUME NEW t \in Threads, AssumeSecondArgument(t) PROVE Reports
    BY <1>24, <1>t DEF AssumeSecondArgument, Reports, Running
  <1>25. ASSUME NEW t \in Threads, ReachError(t) PROVE Reports
    <2>1. \A u \in Threads \ {t} : pc'[u] = pc[u]
      BY <1>25, <1>t DEF ReachError
    <2>2. pc'[t] = "run" \/ (pc'[t] = "report" /\ (finalSlot < 0 \/ counter = finalSlot))
      <3>1. CASE finalSlot >= 0 /\ counter # finalSlot
        BY <1>25, <1>t, <3>1 DEF ReachError
      <3>2. CASE ~(finalSlot >= 0 /\ counter # finalSlot)
        <4>1. finalSlot < 0 \/ counter = finalSlot
          BY <3>2 DEF TypeInv, TypeOK
        <4> QED
          BY <1>25, <1>t, <3>2, <4>1 DEF ReachError
      <3> QED
        BY <3>1, <3>2
    <2>3. At(t, "error") /\ UNCHANGED <<finalSlot, reported, exitCode>>
      BY <1>25 DEF ReachError
    <2> QED
      BY <2>1, <2>2, <2>3 DEF Reports
  <1>26. ASSUME NEW t \in Threads, Report(t) PROVE Reports
    BY <1>26, <1>t DEF Report, Reports, Running
  <1>27. ASSUME NEW t \in Threads, ExitWithError(t) PROVE Reports
    BY <1>27, <1>t DEF ExitWithError, Reports, Running
  <1>28. CASE ProcessEnds
    BY <1>28 DEF ProcessEnds, Reports
  <1>29. CASE UNCHANGED vars
    BY <1>29, <1>q DEF vars
  <1> QED
    BY <1>1, <1>2, <1>3, <1>4, <1>5, <1>6, <1>7, <1>8, <1>9, <1>10,
       <1>11, <1>12, <1>13, <1>14, <1>15, <1>16, <1>17, <1>18, <1>19,
       <1>20, <1>21, <1>22, <1>23, <1>24, <1>25, <1>26, <1>27, <1>28,
       <1>29
    DEF Next, Step, Exited

LEMMA StartStep ==
    ASSUME TypeInv, Starting, [Next]_vars,
           1 \in DOMAIN Code[script][Main], Code[script][Main][1].op = "final"
    PROVE  UNCHANGED <<pc, ip>> \/ SetFinalSlot(Main)
  <1> USE DEF Starting, Step, EnterCall, CallOnce, Initialize, Lock, Check,
              Announce, Test, Wait, SpuriousWakeup, Reacquire, Store, Signal,
              Unlock, AssumeFirstArgument, AssumeSecondArgument, Pin, Statement,
              Branch, TryAlternative, Create, ThreadProxy, Join, ReachError,
              Report, ExitWithError, Finish
  <1>1. ASSUME NEW t \in Threads, Step(t) \/ SpuriousWakeup(t) PROVE t = Main
    <2>1. pc[t] # "unborn"
      BY <1>1 DEF At, In, SetFinalSlot
    <2> QED
      BY <2>1
  <1>2. ASSUME Step(Main) \/ SpuriousWakeup(Main) PROVE SetFinalSlot(Main)
    <2>1. /\ \A label : In(Main, label) => label = "run"
          /\ \A op : At(Main, op) => op = "final"
          /\ pc[Main] \notin {"judgeMatches", "judgeHolds"}
          /\ ip[Main] \in DOMAIN Code[script][Main]
      BY DEF At, In, Here
    <2> QED
      BY <1>2, <2>1
  <1>3. ~ProcessEnds
    BY ThreadsAssumption DEF ProcessEnds
  <1>4. UNCHANGED vars => UNCHANGED <<pc, ip>>
    BY DEF vars, threadVars
  <1> HIDE DEF Step, SpuriousWakeup
  <1>5. ASSUME NEW t \in Threads, Step(t) \/ SpuriousWakeup(t) PROVE SetFinalSlot(Main)
    BY <1>1, <1>2, <1>5
  <1> QED
    BY <1>3, <1>4, <1>5 DEF Next, Exited

\* Until the final slot is set, main has not begun.
FinalOK ==
    CountsTurns(script) => Starting \/ finalSlot = Code[script][Main][1].slot

\* All that the witness orders before its target has happened.
AllBefore ==
    \A p \in ThisCase.points : p < Len(ThisCase.happened) => Happened(p)

\* An error is reported, or is going to be.
ReportOK ==
    /\ (reported \/ \E t \in Threads : pc[t] \in {"report", "exit74"})
         /\ CountsTurns(script) => AllBefore
    /\ (\E t \in Threads : pc[t] = "exit74") \/ exitCode = 74 => reported

LEMMA FirstInstruction ==
    ASSUME NEW s \in Scripts, Code[s][Main] # <<>>
    PROVE  1 \in DOMAIN Code[s][Main]
  <1>1. Code[s][Main] \in Seq(Instruction)
    BY CodeAssumption, ThreadsAssumption
  <1> QED
    BY <1>1

LEMMA FinalStep == IndInv /\ FinalOK /\ [Next]_vars => FinalOK'
  <1> SUFFICES ASSUME IndInv, FinalOK, [Next]_vars PROVE FinalOK'
    OBVIOUS
  <1>0. script \in Scripts /\ script' = script
    BY OrderlyStep DEF Orderly, IndInv, TypeInv, TypeOK
  <1> SUFFICES ASSUME CountsTurns(script)
               PROVE  Starting' \/ finalSlot' = Code[script][Main][1].slot
    BY <1>0 DEF FinalOK
  <1>1. ASSUME NEW t \in Threads, SetFinalSlot(t)
        PROVE  finalSlot' = Code[script][Main][1].slot
    BY <1>1 DEF SetFinalSlot, At, Here, CountsTurns
  <1>2. CASE Starting
    <2>1. UNCHANGED <<pc, ip>> \/ SetFinalSlot(Main)
      BY <1>0, <1>2, StartStep, FirstInstruction DEF CountsTurns, IndInv
    <2> QED
      BY <1>1, <1>2, <2>1, ThreadsAssumption DEF Starting
  <1>3. CASE ~Starting
    <2>1. finalSlot = Code[script][Main][1].slot
      BY <1>3 DEF FinalOK
    <2> QED
      BY <1>1, <2>1, ReportsStep DEF Reports, IndInv
  <1> QED
    BY <1>2, <1>3

LEMMA ReportStep ==
    IndInv /\ TurnsInv /\ FinalOK /\ ReportOK /\ [Next]_vars => ReportOK'
  <1> SUFFICES ASSUME IndInv, TurnsInv, FinalOK, ReportOK, [Next]_vars PROVE ReportOK'
    OBVIOUS
  <1>0. script \in Scripts /\ script' = script /\ events \subseteq events' /\ counter \in Nat
    BY OrderlyStep, TracesStep DEF Orderly, Traces, IndInv, TypeInv, TypeOK
  <1>r. Reports
    BY ReportsStep DEF IndInv
  <1>1. ASSUME reported' \/ \E t \in Threads : pc'[t] \in {"report", "exit74"},
               CountsTurns(script)
        PROVE  AllBefore'
    <2>1. AllBefore => AllBefore'
      BY <1>0 DEF AllBefore, Happened, ThisCase
    <2>2. CASE reported \/ \E t \in Threads : pc[t] \in {"report", "exit74"}
      BY <1>1, <2>1, <2>2 DEF ReportOK
    <2>3. ASSUME NEW t \in Threads, At(t, "error"), finalSlot < 0 \/ counter = finalSlot
          PROVE  AllBefore
      <3>1. ~Starting
        BY <2>3, <1>1, ThreadsAssumption DEF Starting, At, Here, CountsTurns
      <3>2. finalSlot = Code[script][Main][1].slot
        BY <1>1, <3>1 DEF FinalOK
      <3>3. Code[script][Main][1].slot \in Nat
        BY <1>0, <1>1, FirstInstruction, InstructionFields, ThreadsAssumption DEF CountsTurns
      <3>4. counter = Code[script][Main][1].slot
        BY <2>3, <3>2, <3>3
      <3>5. ASSUME NEW p \in ThisCase.points, p < Len(ThisCase.happened) PROVE Happened(p)
        <4>1. Closed(script, p) /\ TurnOf(script, p) < counter /\ Disciplined(script)
          BY <1>1, <3>4, <3>5 DEF CountsTurns, ThisCase
        <4>2. counter > TurnOf(script, p)
          BY <1>0, <4>1, TurnsNumbered DEF ThisCase
        <4> QED
          BY <4>1, <4>2 DEF TurnsInv, ClosedOK
      <3> QED
        BY <3>5 DEF AllBefore
    <2> QED
      BY <1>1, <1>r, <2>1, <2>2, <2>3 DEF Reports
  <1>2. (\E t \in Threads : pc'[t] = "exit74") \/ exitCode' = 74 => reported'
    BY <1>r DEF ReportOK, Reports
  <1> QED
    BY <1>0, <1>1, <1>2 DEF ReportOK

LEMMA ReportInvariant == SafeSpec => [](FinalOK /\ ReportOK)
  <1>1. Init => FinalOK
    BY ThreadsAssumption DEF Init, FinalOK, Starting
  <1>2. Init => ReportOK
    BY DEF Init, ReportOK, Running
  <1>3. IndInv /\ TurnsInv /\ FinalOK /\ ReportOK /\ [Next]_vars => FinalOK' /\ ReportOK'
    BY FinalStep, ReportStep
  <1> QED
    BY <1>1, <1>2, <1>3, Invariance, TurnsInvariant, PTL DEF SafeSpec

\* An error is reported only when every turn before the target of the witness
\* has been taken, whichever thread gets to reach_error, if the turns are closed
\* and main sets the final slot first; and what main.py makes of the execution is
\* that report, whoever ends the process.
THEOREM ReportsComeLast == SafeSpec => [](CountsTurns(script) => ReportAfterReplay)
  <1>1. TypeInv /\ ReportOK /\ CountsTurns(script) => ReportAfterReplay
    <2> SUFFICES ASSUME TypeInv, ReportOK, CountsTurns(script) PROVE ReportAfterReplay
      OBVIOUS
    <2>1. reported => AllBefore
      BY DEF ReportOK
    <2>2. Counted <=> exitCode = 74 \/ reported
      BY DEF Counted, Driver!ReachedError
    <2>3. exitCode = 74 => reported
      BY DEF ReportOK
    <2> QED
      BY <2>1, <2>2, <2>3 DEF ReportAfterReplay, AllBefore
  <1> QED
    BY <1>1, TypeCorrect, ReportInvariant, PTL

-----------------------------------------------------------------------------
(* Logical ids.                                                            *)

Born(t) == pc[t] # "unborn"

\* A thread that is there stays and keeps its id, and at most one is created.
Births ==
    /\ \A u \in Threads : Born(u) => Born(u)' /\ ltid'[u] = ltid[u]
    /\ \/ \A u \in Threads : Born(u)' => Born(u)
       \/ \E t, child \in Threads :
            /\ Born(t) /\ At(t, "create") /\ ip'[t] = ip[t] + 1
            /\ cursor[t] <= Len(Here(t).alts) => CreatesNumbered(t)
            /\ child \in Here(t).children /\ ~Born(child) /\ ltid'[child] = NewId(t)
            /\ \A u \in Threads : Born(u)' => Born(u) \/ u = child

LEMMA BirthStep == TypeInv /\ [Next]_vars => Births
  <1> SUFFICES ASSUME TypeInv, [Next]_vars PROVE Births
    OBVIOUS
  <1> USE DEF At, In, Goto, Resume, ResumeAt, threadVars
  <1>t. pc \in [Threads -> Labels] /\ ip \in [Threads -> Nat] /\ ltid \in [Threads -> Int]
    BY DEF TypeInv, TypeOK
  <1>c. CallOK
    BY DEF TypeInv
  \* A step that creates no thread.
  <1>q. ASSUME UNCHANGED ltid, \A u \in Threads : Born(u)' <=> Born(u) PROVE Births
    BY <1>q DEF Births
  <1> USE DEF Born
  <1>1. ASSUME NEW t \in Threads, EnterCall(t) PROVE Births
    BY <1>1, <1>t, <1>q DEF EnterCall
  <1>2. ASSUME NEW t \in Threads, CallOnce(t) PROVE Births
    BY <1>2, <1>t, <1>q DEF CallOnce
  <1>3. ASSUME NEW t \in Threads, Initialize(t) PROVE Births
    BY <1>3, <1>t, <1>q DEF Initialize
  <1>4. ASSUME NEW t \in Threads, Lock(t) PROVE Births
    BY <1>4, <1>t, <1>q DEF Lock
  <1>5. ASSUME NEW t \in Threads, Check(t) PROVE Births
    BY <1>5, <1>t, <1>q DEF Check
  <1>6. ASSUME NEW t \in Threads, Announce(t) PROVE Births
    BY <1>6, <1>t, <1>q DEF Announce, Wake
  <1>7. ASSUME NEW t \in Threads, Test(t) PROVE Births
    BY <1>7, <1>t, <1>q DEF Test
  <1>8. ASSUME NEW t \in Threads, Wait(t) PROVE Births
    BY <1>8, <1>t, <1>q DEF Wait
  <1>9. ASSUME NEW t \in Threads, SpuriousWakeup(t) PROVE Births
    BY <1>9, <1>t, <1>q DEF SpuriousWakeup
  <1>10. ASSUME NEW t \in Threads, Reacquire(t) PROVE Births
    BY <1>10, <1>t, <1>q DEF Reacquire
  <1>11. ASSUME NEW t \in Threads, Store(t) PROVE Births
    BY <1>11, <1>t, <1>q DEF Store
  <1>12. ASSUME NEW t \in Threads, Signal(t) PROVE Births
    BY <1>12, <1>t, <1>q DEF Signal, Wake
  <1>13. ASSUME NEW t \in Threads, Unlock(t) PROVE Births
    BY <1>13, <1>t, <1>q DEF Unlock
  <1>14. ASSUME NEW t \in Threads, AssumeFirstArgument(t) PROVE Births
    BY <1>14, <1>t, <1>q DEF AssumeFirstArgument
  <1>15. ASSUME NEW t \in Threads, AssumeSecondArgument(t) PROVE Births
    BY <1>15, <1>t, <1>q DEF AssumeSecondArgument
  <1>16. ASSUME NEW t \in Threads, Pin(t) PROVE Births
    BY <1>16, <1>t, <1>q DEF Pin
  <1>17. ASSUME NEW t \in Threads, SetFinalSlot(t) PROVE Births
    BY <1>17, <1>t, <1>q DEF SetFinalSlot
  <1>18. ASSUME NEW t \in Threads, Statement(t) PROVE Births
    BY <1>18, <1>t, <1>q DEF Statement
  <1>19. ASSUME NEW t \in Threads, Branch(t) PROVE Births
    BY <1>19, <1>t, <1>q DEF Branch
  <1>20. ASSUME NEW t \in Threads, TryAlternative(t) PROVE Births
    BY <1>20, <1>t, <1>q DEF TryAlternative
  <1>21. ASSUME NEW t \in Threads, ThreadProxy(t) PROVE Births
    BY <1>21, <1>t, <1>q DEF ThreadProxy
  <1>22. ASSUME NEW t \in Threads, Join(t) PROVE Births
    BY <1>22, <1>t, <1>q DEF Join
  <1>23. ASSUME NEW t \in Threads, ReachError(t) PROVE Births
    BY <1>23, <1>t, <1>q DEF ReachError
  <1>24. ASSUME NEW t \in Threads, Report(t) PROVE Births
    BY <1>24, <1>t, <1>q DEF Report
  <1>25. ASSUME NEW t \in Threads, ExitWithError(t) PROVE Births
    BY <1>25, <1>t, <1>q DEF ExitWithError
  <1>26. ASSUME NEW t \in Threads, Finish(t) PROVE Births
    BY <1>26, <1>t, <1>q DEF Finish
  <1>27. ASSUME NEW t \in Threads, Create(t) PROVE Births
    <2>1. PICK child \in Here(t).children :
            /\ pc[child] = "unborn"
            /\ pc' = [pc EXCEPT ![child] = "proxy"]
            /\ ltid' = [ltid EXCEPT ![child] = NewId(t)]
      BY <1>27 DEF Create
    <2>2. child \in Threads
      BY <1>27, InstructionFields DEF Create, Here, TypeInv, TypeOK
    <2>3. /\ Born(t) /\ At(t, "create") /\ ip'[t] = ip[t] + 1
          /\ cursor[t] <= Len(Here(t).alts) => CreatesNumbered(t)
          /\ ~Born(child) /\ ltid'[child] = NewId(t)
          /\ \A u \in Threads : Born(u)' => Born(u) \/ u = child
          /\ \A u \in Threads : Born(u) => Born(u)' /\ ltid'[u] = ltid[u]
      BY <1>27, <1>t, <2>1, <2>2 DEF Create
    <2> QED
      BY <2>2, <2>3 DEF Births
  <1>28. CASE ProcessEnds
    BY <1>28, <1>q DEF ProcessEnds
  <1>29. CASE UNCHANGED vars
    BY <1>29, <1>q DEF vars
  <1> QED
    BY <1>1, <1>2, <1>3, <1>4, <1>5, <1>6, <1>7, <1>8, <1>9, <1>10,
       <1>11, <1>12, <1>13, <1>14, <1>15, <1>16, <1>17, <1>18, <1>19,
       <1>20, <1>21, <1>22, <1>23, <1>24, <1>25, <1>26, <1>27, <1>28,
       <1>29
    DEF Next, Step, Exited

\* The number that is handed out is that of a link, in the link's segment and by
\* the thread the link is for.
LEMMA NewIdLink ==
    ASSUME TypeInv, NEW t \in Threads, At(t, "create"), NewId(t) # Unnumbered,
           cursor[t] <= Len(Here(t).alts) => CreatesNumbered(t)
    PROVE  LET link == Code[script][t][ip[t]].alts[cursor[t]]
           IN  /\ cursor[t] \in DOMAIN Code[script][t][ip[t]].alts
               /\ NewId(t) = link.id /\ ltid[t] = link.tid /\ counter = link.slot
  <1>1. /\ ip[t] \in DOMAIN Code[script][t] /\ Here(t) = Code[script][t][ip[t]]
        /\ script \in Scripts /\ cursor[t] \in Nat \ {0}
    BY DEF At, Here, TypeInv, TypeOK
  <1>2. cursor[t] <= Len(Here(t).alts)
    BY DEF NewId
  <1>3. Code[script][t][ip[t]].alts \in Seq(Alternative)
    BY <1>1, InstructionFields
  <1>4. cursor[t] \in DOMAIN Code[script][t][ip[t]].alts
    BY <1>1, <1>2, <1>3
  <1> QED
    BY <1>1, <1>2, <1>4 DEF NewId, CreatesNumbered, ShouldUseAssumed

-----------------------------------------------------------------------------
(* What guards and calls leave in the history.                             *)

\* A thread is at a guard that is meant for it.
Guarded(t) ==
    /\ Born(t) /\ ip[t] \in DOMAIN Code[script][t]
    /\ Here(t).op \in {"assume", "pin"}
    /\ MeantFor(t)

\* A thread is about to hand out a number.
Numbers(t) ==
    /\ At(t, "create") /\ NewId(t) # Unnumbered
    /\ cursor[t] <= Len(Here(t).alts) => CreatesNumbered(t)

\* What is new in the history of guards that missed and of numbers is of such
\* threads.
Misses ==
    /\ \A e \in events' \ events : e[1] = "miss" =>
         \E t \in Threads : Guarded(t) /\ ~Matches(t) /\ DueLinks(t) = {}
    /\ \A e \in events' \ events : e[1] = "create" =>
         \E t \in Threads : Numbers(t) /\ e = <<"create", NewId(t), counter>>

LEMMA MissesStep == TypeInv /\ [Next]_vars => Misses
  <1> SUFFICES ASSUME TypeInv, [Next]_vars PROVE Misses
    OBVIOUS
  <1> USE DEF At, In, outputVars, threadVars
  <1>c. CallOK
    BY DEF TypeInv
  <1>q. ASSUME UNCHANGED events PROVE Misses
    BY <1>q DEF Misses
  <1>e. ASSUME NEW t \in Threads, events' = events \cup Executed(t) PROVE Misses
    BY <1>e DEF Misses, Executed
  \* A thread consults a guard.
  <1>g. ASSUME NEW t \in Threads, NEW S \in SUBSET (Consulted(t) \cup Executed(t)),
               events' = events \cup S, Born(t), ip[t] \in DOMAIN Code[script][t],
               Here(t).op \in {"assume", "pin"}
        PROVE  Misses
    <2>1. ASSUME NEW e \in S, e[1] = "miss"
          PROVE  Guarded(t) /\ ~Matches(t) /\ DueLinks(t) = {}
      <3>1. e \in Consulted(t)
        BY <2>1 DEF Executed
      <3>2. MeantFor(t) /\ ~(Matches(t) \/ DueLinks(t) # {})
        BY <2>1, <3>1 DEF Consulted
      <3> QED
        BY <1>g, <3>2 DEF Guarded
    <2>2. \A e \in S : e[1] # "create"
      BY DEF Executed, Consulted
    <2> QED
      BY <1>g, <2>1, <2>2 DEF Misses
  <1>1. ASSUME NEW t \in Threads, AssumeFirstArgument(t) PROVE Misses
    <2>1. events' = events \cup Consulted(t) \/ events' = events \cup {}
      BY <1>1 DEF AssumeFirstArgument
    <2>2. Born(t) /\ ip[t] \in DOMAIN Code[script][t] /\ Here(t).op = "assume"
      BY <1>1 DEF AssumeFirstArgument, Born
    <2> QED
      BY <1>g, <2>1, <2>2
  <1>2. ASSUME NEW t \in Threads, AssumeSecondArgument(t) PROVE Misses
    <2>1. events' = events \cup Consulted(t) \/ events' = events \cup {}
      BY <1>2 DEF AssumeSecondArgument
    <2>2. Born(t) /\ ip[t] \in DOMAIN Code[script][t] /\ Here(t).op = "assume"
      BY <1>2, <1>c DEF AssumeSecondArgument, Born, CallOK
    <2> QED
      BY <1>g, <2>1, <2>2
  <1>3. ASSUME NEW t \in Threads, Pin(t) PROVE Misses
    <2>1. events' = events \cup (Consulted(t) \cup Executed(t))
      BY <1>3 DEF Pin
    <2>2. Born(t) /\ ip[t] \in DOMAIN Code[script][t] /\ Here(t).op = "pin"
      BY <1>3 DEF Pin, Born
    <2> QED
      BY <1>g, <2>1, <2>2
  <1>4. ASSUME NEW t \in Threads, Statement(t) PROVE Misses
    BY <1>4, <1>e DEF Statement
  <1>5. ASSUME NEW t \in Threads, Branch(t) PROVE Misses
    BY <1>5, <1>e DEF Branch
  <1>6. ASSUME NEW t \in Threads, Create(t) PROVE Misses
    <2>1. events' = events \cup Executed(t) \cup Numbered(t)
      BY <1>6 DEF Create
    <2>2. \A e \in Executed(t) : e[1] = "stmt"
      BY DEF Executed
    <2>3. ASSUME NEW e \in Numbered(t)
          PROVE  e[1] = "create" /\ Numbers(t) /\ e = <<"create", NewId(t), counter>>
      BY <1>6, <2>3 DEF Numbered, Numbers, Create
    <2> QED
      BY <2>1, <2>2, <2>3 DEF Misses
  <1>7. ASSUME NEW t \in Threads, Join(t) PROVE Misses
    BY <1>7, <1>e DEF Join
  <1>8. ASSUME NEW t \in Threads, ReachError(t) PROVE Misses
    BY <1>8, <1>e DEF ReachError
  <1>9. ASSUME NEW t \in Threads, CallOnce(t) PROVE Misses
    BY <1>9, <1>q DEF CallOnce
  <1>10. ASSUME NEW t \in Threads, Initialize(t) PROVE Misses
    BY <1>10, <1>q DEF Initialize
  <1>11. ASSUME NEW t \in Threads, Lock(t) PROVE Misses
    BY <1>11, <1>q DEF Lock
  <1>12. ASSUME NEW t \in Threads, Check(t) PROVE Misses
    BY <1>12, <1>q DEF Check
  <1>13. ASSUME NEW t \in Threads, Announce(t) PROVE Misses
    BY <1>13, <1>q DEF Announce
  <1>14. ASSUME NEW t \in Threads, Test(t) PROVE Misses
    BY <1>14, <1>q DEF Test
  <1>15. ASSUME NEW t \in Threads, Wait(t) PROVE Misses
    BY <1>15, <1>q DEF Wait
  <1>16. ASSUME NEW t \in Threads, SpuriousWakeup(t) PROVE Misses
    BY <1>16, <1>q DEF SpuriousWakeup
  <1>17. ASSUME NEW t \in Threads, Reacquire(t) PROVE Misses
    BY <1>17, <1>q DEF Reacquire
  <1>18. ASSUME NEW t \in Threads, Store(t) PROVE Misses
    BY <1>18, <1>q DEF Store
  <1>19. ASSUME NEW t \in Threads, Signal(t) PROVE Misses
    BY <1>19, <1>q DEF Signal
  <1>20. ASSUME NEW t \in Threads, Unlock(t) PROVE Misses
    BY <1>20, <1>q DEF Unlock
  <1>21. ASSUME NEW t \in Threads, EnterCall(t) PROVE Misses
    BY <1>21, <1>q DEF EnterCall
  <1>22. ASSUME NEW t \in Threads, SetFinalSlot(t) PROVE Misses
    BY <1>22, <1>q DEF SetFinalSlot
  <1>23. ASSUME NEW t \in Threads, TryAlternative(t) PROVE Misses
    BY <1>23, <1>q DEF TryAlternative
  <1>24. ASSUME NEW t \in Threads, ThreadProxy(t) PROVE Misses
    BY <1>24, <1>q DEF ThreadProxy
  <1>25. ASSUME NEW t \in Threads, Report(t) PROVE Misses
    BY <1>25, <1>q DEF Report
  <1>26. ASSUME NEW t \in Threads, ExitWithError(t) PROVE Misses
    BY <1>26, <1>q DEF ExitWithError
  <1>27. ASSUME NEW t \in Threads, Finish(t) PROVE Misses
    BY <1>27, <1>q DEF Finish
  <1>28. CASE ProcessEnds
    BY <1>28, <1>q DEF ProcessEnds
  <1>29. CASE UNCHANGED vars
    BY <1>29, <1>q DEF vars
  <1> QED
    BY <1>1, <1>2, <1>3, <1>4, <1>5, <1>6, <1>7, <1>8, <1>9, <1>10,
       <1>11, <1>12, <1>13, <1>14, <1>15, <1>16, <1>17, <1>18, <1>19,
       <1>20, <1>21, <1>22, <1>23, <1>24, <1>25, <1>26, <1>27, <1>28,
       <1>29
    DEF Next, Step, Exited

-----------------------------------------------------------------------------
(* One number for one thread.                                              *)

\* A thread has come by the call that hands out the id.
HandedOut(id) ==
    \E t \in Threads : \E i \in DOMAIN Code[script][t] :
      \E c \in DOMAIN Code[script][t][i].alts :
        /\ Code[script][t][i].op = "create"
        /\ Code[script][t][i].alts[c].id = id
        /\ Code[script][t][i].alts[c].tid = ltid[t]
        /\ Born(t) /\ ip[t] > i

IdsOK ==
    NumbersOnce(script) =>
      /\ DistinctIds
      /\ \A u \in Threads : Born(u) =>
           \/ ltid[u] = Unnumbered
           \/ u = Main /\ ltid[u] = 0
           \/ ltid[u] > 0 /\ HandedOut(ltid[u])

\* A thread that has passed an instruction no loop leads back over stays behind it.
LEMMA StaysBehind ==
    ASSUME TypeInv, Orderly, NEW t \in Threads, NEW i \in Nat,
           NoWayBack(script, t, i), ip[t] > i
    PROVE  ip'[t] > i
  <1>1. ip[t] \in Nat
    BY DEF TypeInv, TypeOK
  <1>2. CASE Branches(t)
    BY <1>2 DEF Branches, NoWayBack, Here
  <1> QED
    BY <1>1, <1>2 DEF Orderly, Stays, GoesOn

LEMMA HandedOutStays ==
    ASSUME TypeInv, Orderly, Births, NumbersOnce(script), NEW id, HandedOut(id)
    PROVE  HandedOut(id)'
  <1>a. PICK t \in Threads : \E i \in DOMAIN Code[script][t] :
          \E c \in DOMAIN Code[script][t][i].alts :
            /\ Code[script][t][i].op = "create"
            /\ Code[script][t][i].alts[c].id = id
            /\ Code[script][t][i].alts[c].tid = ltid[t]
            /\ Born(t) /\ ip[t] > i
    BY DEF HandedOut
  <1>b. PICK i \in DOMAIN Code[script][t] : \E c \in DOMAIN Code[script][t][i].alts :
          /\ Code[script][t][i].op = "create"
          /\ Code[script][t][i].alts[c].id = id
          /\ Code[script][t][i].alts[c].tid = ltid[t]
          /\ Born(t) /\ ip[t] > i
    BY <1>a
  <1>1. PICK c \in DOMAIN Code[script][t][i].alts :
          /\ Code[script][t][i].op = "create"
          /\ Code[script][t][i].alts[c].id = id
          /\ Code[script][t][i].alts[c].tid = ltid[t]
          /\ Born(t) /\ ip[t] > i
    BY <1>b
  <1>2. i \in Nat
    BY InstructionFields DEF TypeInv, TypeOK
  <1>3. NoWayBack(script, t, i)
    BY <1>1 DEF NumbersOnce
  <1>4. ip'[t] > i
    BY <1>1, <1>2, <1>3, StaysBehind
  <1>5. Born(t)' /\ ltid'[t] = ltid[t] /\ script' = script
    BY <1>1 DEF Births, Orderly
  <1> QED
    BY <1>1, <1>4, <1>5 DEF HandedOut

\* One thread hands out an id, at one call.
LEMMA OneLink ==
    ASSUME NumbersOnce(script),
           NEW t \in Threads, NEW i \in DOMAIN Code[script][t],
           NEW c \in DOMAIN Code[script][t][i].alts,
           NEW u \in Threads, NEW j \in DOMAIN Code[script][u],
           NEW d \in DOMAIN Code[script][u][j].alts,
           Code[script][t][i].op = "create", Code[script][u][j].op = "create",
           Code[script][u][j].alts[d].id = Code[script][t][i].alts[c].id
    PROVE  /\ Code[script][u][j].alts[d].tid = Code[script][t][i].alts[c].tid
           /\ u = t => j = i
  BY DEF NumbersOnce

LEMMA IdsStep == IndInv /\ IdsOK /\ [Next]_vars => IdsOK'
  <1> SUFFICES ASSUME IndInv, IdsOK, [Next]_vars PROVE IdsOK'
    OBVIOUS
  <1>0. /\ TypeInv /\ Orderly /\ Births /\ script' = script /\ script \in Scripts
        /\ ip \in [Threads -> Nat] /\ ltid \in [Threads -> Int]
    BY OrderlyStep, BirthStep DEF Orderly, IndInv, TypeInv, TypeOK
  <1> SUFFICES ASSUME NumbersOnce(script)
               PROVE  /\ DistinctIds'
                      /\ \A u \in Threads : Born(u)' =>
                           \/ ltid'[u] = Unnumbered
                           \/ u = Main /\ ltid'[u] = 0
                           \/ ltid'[u] > 0 /\ HandedOut(ltid[u])'
    BY <1>0 DEF IdsOK
  <1>h. \A id : HandedOut(id) => HandedOut(id)'
    BY <1>0, HandedOutStays
  <1>1. ASSUME NEW u \in Threads, Born(u)
        PROVE  \/ ltid'[u] = Unnumbered
               \/ u = Main /\ ltid'[u] = 0
               \/ ltid'[u] > 0 /\ HandedOut(ltid[u])'
    <2>1. ltid'[u] = ltid[u]
      BY <1>0, <1>1 DEF Births
    <2>2. HandedOut(ltid[u]) => HandedOut(ltid[u])'
      BY <1>h, <2>1 DEF HandedOut
    <2> QED
      BY <1>1, <2>1, <2>2 DEF IdsOK
  <1>2. CASE \A u \in Threads : Born(u)' => Born(u)
    <2>1. DistinctIds'
      BY <1>0, <1>2 DEF IdsOK, DistinctIds, SameNumber, Births, Born
    <2> QED
      BY <1>1, <1>2, <2>1
  <1>3. CASE ~\A u \in Threads : Born(u)' => Born(u)
    <2>1. PICK t \in Threads, child \in Threads :
            /\ Born(t) /\ At(t, "create") /\ ip'[t] = ip[t] + 1
            /\ cursor[t] <= Len(Here(t).alts) => CreatesNumbered(t)
            /\ child \in Here(t).children /\ ~Born(child) /\ ltid'[child] = NewId(t)
            /\ \A u \in Threads : Born(u)' => Born(u) \/ u = child
      BY <1>0, <1>3 DEF Births
    <2>2. CASE ltid'[child] = Unnumbered
      <3>1. DistinctIds'
        <4> SUFFICES ASSUME NEW u \in Threads, NEW v \in Threads, Born(u)', Born(v)',
                            ltid'[u] = ltid'[v], ltid'[u] # Unnumbered
                     PROVE  u = v
          BY DEF DistinctIds, SameNumber, Born
        <4>1. Born(u) /\ ltid'[u] = ltid[u] /\ Born(v) /\ ltid'[v] = ltid[v]
          BY <1>0, <2>1, <2>2 DEF Births
        <4> QED
          BY <4>1 DEF IdsOK, DistinctIds, SameNumber, Born
      <3> QED
        BY <1>1, <2>1, <2>2, <3>1
    <2>3. CASE ltid'[child] # Unnumbered
      <3> DEFINE i == ip[t]
                 c == cursor[t]
                 link == Code[script][t][i].alts[c]
      <3>1. i \in DOMAIN Code[script][t] /\ Code[script][t][i].op = "create"
        BY <2>1 DEF At, Here
      <3>2. c \in DOMAIN Code[script][t][i].alts
        BY <1>0, <2>1, <2>3, NewIdLink
      <3>3. ltid'[child] = link.id /\ ltid[t] = link.tid
        BY <1>0, <2>1, <2>3, NewIdLink
      <3>4. link.id > 0 /\ link.tid >= 0
        BY <3>1, <3>2 DEF NumbersOnce
      <3>5. ip'[t] > i /\ ltid'[t] = ltid[t] /\ Born(t)'
        BY <1>0, <2>1 DEF Births
      <3>6. HandedOut(ltid[child])'
        BY <1>0, <3>1, <3>2, <3>3, <3>5 DEF HandedOut
      \* No other thread has got the id yet: t is still at the call.
      <3>7. ASSUME NEW u \in Threads, Born(u), ltid[u] = link.id PROVE FALSE
        <4>1. CASE HandedOut(link.id)
          <5>1. PICK v \in Threads : \E j \in DOMAIN Code[script][v] :
                  \E d \in DOMAIN Code[script][v][j].alts :
                    /\ Code[script][v][j].op = "create"
                    /\ Code[script][v][j].alts[d].id = link.id
                    /\ Code[script][v][j].alts[d].tid = ltid[v]
                    /\ Born(v) /\ ip[v] > j
            BY <4>1 DEF HandedOut
          <5>2. PICK j \in DOMAIN Code[script][v] :
                  \E d \in DOMAIN Code[script][v][j].alts :
                    /\ Code[script][v][j].op = "create"
                    /\ Code[script][v][j].alts[d].id = link.id
                    /\ Code[script][v][j].alts[d].tid = ltid[v]
                    /\ Born(v) /\ ip[v] > j
            BY <5>1
          <5>3. ltid[v] = link.tid /\ (v = t => j = i)
            <6>1. \A w \in Threads : \A k \in DOMAIN Code[script][w] :
                    \A d \in DOMAIN Code[script][w][k].alts :
                      Code[script][w][k].op = "create" /\ Code[script][w][k].alts[d].id = link.id =>
                        Code[script][w][k].alts[d].tid = link.tid /\ (w = t => k = i)
              BY <3>1, <3>2, OneLink
            <6> QED
              BY <5>2, <6>1
          <5>4. v = t
            BY <2>1, <3>3, <3>4, <5>2, <5>3
            DEF IdsOK, DistinctIds, SameNumber, Born, Unnumbered
          <5> QED
            BY <1>0, <5>2, <5>3, <5>4
        <4>2. CASE ~HandedOut(link.id)
          BY <3>4, <3>7, <4>2 DEF IdsOK, Unnumbered
        <4> QED
          BY <4>1, <4>2
      <3>8. ASSUME NEW u \in Threads, NEW v \in Threads, Born(u)', Born(v)',
                   ltid'[u] = ltid'[v], ltid'[u] # Unnumbered
            PROVE  u = v
        <4> HIDE DEF link
        <4>1. /\ u # child => Born(u) /\ ltid'[u] = ltid[u]
              /\ v # child => Born(v) /\ ltid'[v] = ltid[v]
          BY <1>0, <2>1, <3>8 DEF Births
        <4>2. u # child => v # child
          BY <3>3, <3>7, <3>8, <4>1
        <4>3. v # child => u # child
          BY <3>3, <3>7, <3>8, <4>1
        <4>4. CASE u # child /\ v # child
          BY <3>8, <4>1, <4>4 DEF IdsOK, DistinctIds, SameNumber, Born
        <4> QED
          BY <4>2, <4>3, <4>4
      <3>9. DistinctIds'
        <4> HIDE DEF link
        <4> QED
          BY <3>8 DEF DistinctIds, SameNumber, Born
      <3> QED
        BY <1>1, <2>1, <3>3, <3>4, <3>6, <3>9
    <2> QED
      BY <2>2, <2>3
  <1> QED
    BY <1>2, <1>3

LEMMA IdsInvariant == SafeSpec => []IdsOK
  <1>1. Init => IdsOK
    <2> SUFFICES ASSUME Init PROVE IdsOK
      OBVIOUS
    <2>1. \A u \in Threads : Born(u) => u = Main /\ ltid[u] = 0
      BY DEF Init, Born
    <2> QED
      BY <2>1 DEF IdsOK, DistinctIds, SameNumber, Born
  <1>2. IndInv /\ IdsOK /\ [Next]_vars => IdsOK'
    BY IdsStep
  <1> QED
    BY <1>1, <1>2, Invariance, PTL DEF SafeSpec

\* A call that hands out the id creates u.
Numbering(u, id) ==
    \E v \in Threads : \E i \in DOMAIN Code[script][v] :
        HandsOut(script, v, i, id) /\ u \in Code[script][v][i].children

\* A call hands out the id in the segment.
LinkFor(id, slot) ==
    \E v \in Threads : \E i \in DOMAIN Code[script][v] :
      \E c \in DOMAIN Code[script][v][i].alts :
        /\ Code[script][v][i].op = "create"
        /\ Code[script][v][i].alts[c].id = id
        /\ Code[script][v][i].alts[c].slot = slot

\* Numbers come from calls, in loops too.
ApartOK ==
    NumbersApart(script) =>
      /\ \A u \in Threads : Born(u) =>
           \/ ltid[u] = Unnumbered
           \/ u = Main /\ ltid[u] = 0
           \/ ltid[u] > 0 /\ Numbering(u, ltid[u])
      /\ \A e \in events : e[1] = "create" => LinkFor(e[2], e[3])

LEMMA NumbersApartStep == IndInv /\ ApartOK /\ [Next]_vars => ApartOK'
  <1> SUFFICES ASSUME IndInv, ApartOK, [Next]_vars PROVE ApartOK'
    OBVIOUS
  <1>0. TypeInv /\ Births /\ Misses /\ script' = script
    BY OrderlyStep, BirthStep, MissesStep DEF Orderly, IndInv
  <1>a. ApartOK
    OBVIOUS
  <1> SUFFICES ASSUME NumbersApart(script)
               PROVE  /\ \A u \in Threads : Born(u)' =>
                           \/ ltid'[u] = Unnumbered
                           \/ u = Main /\ ltid'[u] = 0
                           \/ ltid'[u] > 0 /\ Numbering(u, ltid'[u])
                      /\ \A e \in events' : e[1] = "create" => LinkFor(e[2], e[3])
    BY <1>0 DEF ApartOK, Numbering, LinkFor
  \* The call a thread is at has the link, and the link's id is one of its own.
  <1>1. ASSUME NEW t \in Threads, Numbers(t)
        PROVE  /\ NewId(t) > 0
               /\ LinkFor(NewId(t), counter)
               /\ \A u \in Here(t).children : Numbering(u, NewId(t))
    <2> DEFINE i == ip[t]
               c == cursor[t]
               link == Code[script][t][i].alts[c]
    <2>1. /\ i \in DOMAIN Code[script][t] /\ Here(t) = Code[script][t][i]
          /\ Code[script][t][i].op = "create"
      BY <1>1 DEF Numbers, At, Here
    <2>2. /\ c \in DOMAIN Code[script][t][i].alts
          /\ NewId(t) = link.id /\ counter = link.slot
      BY <1>0, <1>1, NewIdLink DEF Numbers
    <2>3. link.id > 0
      BY <2>1, <2>2 DEF NumbersApart
    <2>4. HandsOut(script, t, i, link.id)
      BY <2>1, <2>2 DEF HandsOut
    <2>5. LinkFor(link.id, link.slot)
      BY <2>1, <2>2 DEF LinkFor
    <2>6. \A u \in Here(t).children : Numbering(u, link.id)
      BY <2>1, <2>4 DEF Numbering
    <2> QED
      BY <2>2, <2>3, <2>5, <2>6
  <1>2. ASSUME NEW u \in Threads, Born(u)'
        PROVE  \/ ltid'[u] = Unnumbered
               \/ u = Main /\ ltid'[u] = 0
               \/ ltid'[u] > 0 /\ Numbering(u, ltid'[u])
    <2>1. CASE Born(u)
      <3>1. ltid'[u] = ltid[u]
        BY <1>0, <2>1 DEF Births
      <3> QED
        BY <1>a, <2>1, <3>1 DEF ApartOK
    <2>2. CASE ~Born(u)
      <3>1. PICK t \in Threads :
              /\ At(t, "create") /\ u \in Here(t).children /\ ltid'[u] = NewId(t)
              /\ cursor[t] <= Len(Here(t).alts) => CreatesNumbered(t)
        BY <1>0, <1>2, <2>2 DEF Births
      <3> QED
        BY <1>1, <3>1 DEF Numbers
    <2> QED
      BY <2>1, <2>2
  <1>3. ASSUME NEW e \in events', e[1] = "create" PROVE LinkFor(e[2], e[3])
    <2>1. CASE e \in events
      BY <1>a, <1>3, <2>1 DEF ApartOK
    <2>2. CASE e \notin events
      <3>1. PICK t \in Threads : Numbers(t) /\ e = <<"create", NewId(t), counter>>
        BY <1>0, <1>3, <2>2 DEF Misses
      <3> QED
        BY <1>1, <3>1
    <2> QED
      BY <2>1, <2>2
  <1> QED
    BY <1>2, <1>3

\* A number is handed out to threads of one statement and in one segment, in any
\* program whose calls tell the numbers apart, be they in loops or not: though the
\* calls load the counter without the mutex, and any number of threads may run
\* the routine.  Where a thread comes by each of these calls once, no two threads
\* run as the same thread of the witness at all.
THEOREM IdsUnique == SafeSpec => [](NumbersApart(script) => UniqueLogicalIds)
  <1>1. Init => ApartOK
    BY DEF Init, ApartOK, Born
  <1>2. IdsOK /\ ApartOK => (NumbersApart(script) => UniqueLogicalIds)
    <2> SUFFICES ASSUME IdsOK, ApartOK, NumbersApart(script) PROVE UniqueLogicalIds
      OBVIOUS
    <2>1. NumbersOnce(script) => DistinctIds
      BY DEF IdsOK
    <2>2. ASSUME NEW t \in Threads, NEW u \in Threads, SameNumber(t, u), t # u
          PROVE  CreatedTogether(t, u, ltid[t])
      <3>1. Numbering(t, ltid[t]) /\ Numbering(u, ltid[t])
        BY <2>2 DEF ApartOK, SameNumber, Born
      <3>2. PICK v \in Threads : \E i \in DOMAIN Code[script][v] :
              HandsOut(script, v, i, ltid[t]) /\ t \in Code[script][v][i].children
        BY <3>1 DEF Numbering
      <3>3. PICK i \in DOMAIN Code[script][v] :
              HandsOut(script, v, i, ltid[t]) /\ t \in Code[script][v][i].children
        BY <3>2
      <3>4. PICK w \in Threads : \E j \in DOMAIN Code[script][w] :
              HandsOut(script, w, j, ltid[t]) /\ u \in Code[script][w][j].children
        BY <3>1 DEF Numbering
      <3>5. PICK j \in DOMAIN Code[script][w] :
              HandsOut(script, w, j, ltid[t]) /\ u \in Code[script][w][j].children
        BY <3>4
      <3>6. Code[script][w][j].children = Code[script][v][i].children
        BY <3>3, <3>5 DEF HandsOut, NumbersApart
      <3> QED
        BY <3>3, <3>5, <3>6 DEF CreatedTogether
    <2>3. ASSUME NEW e \in events, NEW f \in events,
                 e[1] = "create", f[1] = "create", e[2] = f[2]
          PROVE  e[3] = f[3]
      <3>1. LinkFor(e[2], e[3]) /\ LinkFor(e[2], f[3])
        BY <2>3 DEF ApartOK
      <3> QED
        BY <3>1 DEF LinkFor, NumbersApart
    <2> QED
      BY <2>1, <2>2, <2>3 DEF UniqueLogicalIds
  <1>3. IndInv /\ ApartOK /\ [Next]_vars => ApartOK'
    BY NumbersApartStep
  <1> QED
    BY <1>1, <1>2, <1>3, Invariance, IdsInvariant, PTL DEF SafeSpec

-----------------------------------------------------------------------------
(* Guards.                                                                 *)

\* The segment has been ended, by a thread that stays behind what it came by
\* before.
Ended(k) ==
    \E u \in Threads : \E r \in DOMAIN Code[script][u] :
      /\ IsRelease(script, u, r, k, ltid[u])
      /\ Born(u)
      /\ \A g \in DOMAIN Code[script][u] :
           g < r /\ NoWayBack(script, u, g) => ip[u] > g

\* Each segment before the one that is due has been ended.
EndedOK == Disciplined(script) => \A k \in Nat : k < counter => Ended(k)

LEMMA EndedStays ==
    ASSUME TypeInv, Orderly, Births, NEW k, Ended(k) PROVE Ended(k)'
  <1>1. PICK u \in Threads : \E r \in DOMAIN Code[script][u] :
          /\ IsRelease(script, u, r, k, ltid[u])
          /\ Born(u)
          /\ \A g \in DOMAIN Code[script][u] :
               g < r /\ NoWayBack(script, u, g) => ip[u] > g
    BY DEF Ended
  <1>2. PICK r \in DOMAIN Code[script][u] :
          /\ IsRelease(script, u, r, k, ltid[u])
          /\ Born(u)
          /\ \A g \in DOMAIN Code[script][u] :
               g < r /\ NoWayBack(script, u, g) => ip[u] > g
    BY <1>1
  <1>3. Born(u)' /\ ltid'[u] = ltid[u] /\ script' = script
    BY <1>2 DEF Births, Orderly
  <1>4. ASSUME NEW g \in DOMAIN Code[script][u], g < r, NoWayBack(script, u, g)
        PROVE  ip'[u] > g
    <2>1. g \in Nat
      BY InstructionFields DEF TypeInv, TypeOK
    <2> QED
      BY <1>2, <1>4, <2>1, StaysBehind
  <1>5. IsRelease(script, u, r, k, ltid'[u])
    BY <1>2, <1>3
  <1> QED
    BY <1>3, <1>4, <1>5 DEF Ended, IsRelease, NoWayBack

LEMMA EndedStep == IndInv /\ BehindOK /\ EndedOK /\ [Next]_vars => EndedOK'
  <1> SUFFICES ASSUME IndInv, BehindOK, EndedOK, [Next]_vars PROVE EndedOK'
    OBVIOUS
  <1>0. TypeInv /\ Orderly /\ Births /\ script' = script /\ counter \in Nat
    BY OrderlyStep, BirthStep DEF Orderly, IndInv, TypeInv, TypeOK
  <1> SUFFICES ASSUME Disciplined(script), NEW k \in Nat, k < counter' PROVE Ended(k)'
    BY <1>0 DEF EndedOK, Disciplined, BehindYield, LeadsTo, OnlyWay, IsYield
  <1>1. CASE k < counter
    BY <1>0, <1>1, EndedStays DEF EndedOK
  <1>2. CASE ~(k < counter)
    <2>1. counter' # counter
      BY <1>2
    <2>2. PICK t \in Threads : Store(t)
      BY <2>1, OnlyStoreCounts
    <2>3. /\ pc[t] = "store" /\ counter' = Here(t).slot + 1
          /\ ip[t] \in DOMAIN Code[script][t]
          /\ Here(t).op = "release" /\ ltid[t] = Here(t).tid
      BY <1>0, <2>2 DEF Store, In, TypeInv, CallOK, InCall, Critical
    <2>4. BehindYield(script, t, ip[t], Here(t).slot, ltid[t])
      BY <2>3 DEF Disciplined, Here
    <2>5. counter >= Here(t).slot /\ Here(t).slot \in Nat
      BY <1>0, <2>3, <2>4, YieldPassed, InstructionFields DEF Here, TypeInv, TypeOK
    <2>6. k = Here(t).slot
      BY <1>0, <1>2, <2>3, <2>5
    <2>7. Born(t)
      BY <2>3 DEF Born
    <2>8. IsRelease(script, t, ip[t], k, ltid[t])
      BY <2>3, <2>6 DEF IsRelease, Here
    <2>9. Ended(k)
      BY <2>3, <2>7, <2>8 DEF Ended
    <2> QED
      BY <1>0, <2>9, EndedStays
  <1> QED
    BY <1>1, <1>2

\* A thread that comes by an instruction in turn does so in its segment.
LEMMA TurnHolds ==
    ASSUME IndInv, BehindOK, EndedOK, IdsOK, Disciplined(script), NumbersOnce(script),
           NEW t \in Threads, Born(t), ip[t] \in DOMAIN Code[script][t],
           NEW slot \in Nat, InTurn(script, t, ip[t], slot, ltid[t])
    PROVE  counter = slot
  <1> DEFINE i == ip[t]
  <1>1. /\ ltid[t] >= 0 /\ EndsBehind(script, t, i, slot, ltid[t])
        /\ BeginsBefore(script, t, i, slot, ltid[t])
    BY DEF InTurn
  <1>2. counter \in Nat /\ i \in Nat
    BY DEF IndInv, TypeInv, TypeOK
  <1>3. counter >= slot
    <2>1. CASE slot = 0
      BY <1>2, <2>1
    <2>2. CASE BehindYield(script, t, i, slot, ltid[t])
      BY <1>1, <2>2, YieldPassed
    <2>3. ASSUME NEW d \in DOMAIN Code[script][t], LeadsTo(script, t, d, i),
                 IsRelease(script, t, d, slot - 1, ltid[t])
          PROVE  counter >= slot
      <3>1. Due(Code[script][t][d])
        BY <1>1, <2>3, CallPassed DEF IsRelease
      <3> QED
        BY <1>2, <2>3, <3>1 DEF Due, IsRelease
    <2> QED
      BY <1>1, <2>1, <2>2, <2>3 DEF BeginsBefore
  <1>4. ~(slot < counter)
    <2> SUFFICES ASSUME slot < counter PROVE FALSE
      OBVIOUS
    <2>1. Ended(slot)
      BY DEF EndedOK
    <2>2. PICK u \in Threads : \E r \in DOMAIN Code[script][u] :
            /\ IsRelease(script, u, r, slot, ltid[u])
            /\ Born(u)
            /\ \A g \in DOMAIN Code[script][u] :
                 g < r /\ NoWayBack(script, u, g) => ip[u] > g
      BY <2>1 DEF Ended
    <2>3. PICK r \in DOMAIN Code[script][u] :
            /\ IsRelease(script, u, r, slot, ltid[u])
            /\ Born(u)
            /\ \A g \in DOMAIN Code[script][u] :
                 g < r /\ NoWayBack(script, u, g) => ip[u] > g
      BY <2>2
    \* t ends its segment further on.
    <2>4. CASE ltid[u] = ltid[t] /\ (u = t => i < r /\ NoWayBack(script, t, i))
      <3>1. u = t
        BY <1>1, <2>3, <2>4 DEF IdsOK, DistinctIds, SameNumber, Born, Unnumbered
      <3> QED
        BY <1>2, <2>3, <2>4, <3>1
    \* The thread that ends it has not got its number yet.
    <2>5. CASE NumberedFrom(script, t, i, ltid[u])
      <3>1. HandedOut(ltid[u])
        BY <2>3, <2>5 DEF IdsOK, NumberedFrom, Unnumbered
      <3>2. PICK v \in Threads : \E j \in DOMAIN Code[script][v] :
              HandsOut(script, v, j, ltid[u]) /\ ip[v] > j
        BY <3>1 DEF HandedOut, HandsOut
      <3>3. PICK j \in DOMAIN Code[script][v] :
              HandsOut(script, v, j, ltid[u]) /\ ip[v] > j
        BY <3>2
      <3>4. v = t /\ j >= i /\ ip[v] > j
        BY <2>5, <3>3 DEF NumberedFrom
      <3>5. j \in Nat
        BY InstructionFields DEF IndInv, TypeInv, TypeOK
      <3> QED
        BY <1>2, <3>4, <3>5
    <2>6. \/ ltid[u] = ltid[t] /\ (u = t => i < r /\ NoWayBack(script, t, i))
          \/ NumberedFrom(script, t, i, ltid[u])
      BY <1>1, <2>3 DEF EndsBehind, IsRelease
    <2> QED
      BY <2>4, <2>5, <2>6
  <1> QED
    BY <1>2, <1>3, <1>4

\* A thread at a guard that is meant for it is there in the guard's segment.
LEMMA GuardMatches ==
    ASSUME IndInv, BehindOK, EndedOK, IdsOK, GuardsInTurn(script), NumbersOnce(script),
           NEW t \in Threads, Guarded(t)
    PROVE  Matches(t)
  <1>1. Here(t).alts = <<>> /\ InTurn(script, t, ip[t], Here(t).slot, Here(t).tid)
    BY DEF Guarded, Here, GuardsInTurn
  <1>2. Here(t).slot \in Nat
    BY InstructionFields DEF Guarded, Here, IndInv, TypeInv, TypeOK
  <1>3. ltid[t] = Here(t).tid
    BY <1>1 DEF Guarded, MeantFor
  <1>4. counter = Here(t).slot
    BY <1>1, <1>2, <1>3, TurnHolds DEF Guarded, GuardsInTurn
  <1> QED
    BY <1>3, <1>4 DEF Matches, ShouldUseAssumed

MissedOK ==
    GuardsInTurn(script) /\ NumbersOnce(script) => \A e \in events : e[1] # "miss"

LEMMA MissedStep ==
    IndInv /\ BehindOK /\ EndedOK /\ IdsOK /\ MissedOK /\ [Next]_vars => MissedOK'
  <1> SUFFICES ASSUME IndInv, BehindOK, EndedOK, IdsOK, MissedOK, [Next]_vars
               PROVE  MissedOK'
    OBVIOUS
  <1>s. script' = script
    BY OrderlyStep DEF Orderly
  <1> SUFFICES ASSUME GuardsInTurn(script), NumbersOnce(script),
                      NEW e \in events', e[1] = "miss"
               PROVE  FALSE
    BY <1>s DEF MissedOK
  <1>1. e \notin events
    BY DEF MissedOK
  <1>2. PICK t \in Threads : Guarded(t) /\ ~Matches(t)
    BY <1>1, MissesStep DEF Misses, IndInv
  <1> QED
    BY <1>2, GuardMatches

\* No guard misses its segment, whoever else runs: what the witness says of an
\* input or a condition is applied, in any program whose guards stand in their
\* segments.  The guards load the counter without the mutex, so this rests on
\* the order of the calls alone: each segment before is over, and the one
\* thread that ends this one is still at the guard.
THEOREM GuardsNotMissed ==
    SafeSpec => [](GuardsInTurn(script) /\ NumbersOnce(script) => NothingMissed)
  <1>1. Init => EndedOK /\ MissedOK
    BY DEF Init, EndedOK, MissedOK
  <1>2. IndInv /\ BehindOK /\ EndedOK /\ IdsOK /\ MissedOK /\ [Next]_vars =>
          EndedOK' /\ MissedOK'
    BY EndedStep, MissedStep
  <1>3. MissedOK => (GuardsInTurn(script) /\ NumbersOnce(script) => NothingMissed)
    BY DEF MissedOK, NothingMissed
  <1> QED
    BY <1>1, <1>2, <1>3, Invariance, BehindInvariant, IdsInvariant, PTL DEF SafeSpec

-----------------------------------------------------------------------------
(* Numbers.                                                                *)

LEMMA OnlyCreateTries ==
    ASSUME [Next]_vars
    PROVE  UNCHANGED cursor \/ \E t \in Threads : TryAlternative(t) \/ Create(t)
  BY DEF Next, Step, Exited, vars, threadVars, ProcessEnds, EnterCall, CallOnce,
         Initialize, Lock, Check, Announce, Test, Wait, SpuriousWakeup, Reacquire,
         Store, Signal, Unlock, AssumeFirstArgument, AssumeSecondArgument, Pin,
         SetFinalSlot, Statement, Branch, ThreadProxy, Join, ReachError, Report,
         ExitWithError, Finish

\* No thread passes over the link of a chain, and so each has its number.
NumbersOK ==
    /\ Born(Main)
    /\ CreatesInTurn(script) /\ NumbersOnce(script) =>
         /\ \A t \in Threads : cursor[t] = 1
         /\ \A t \in Threads : Born(t) => \A id \in Int :
              KnownAs(script, t, id) => ltid[t] = id
         /\ NumberedByCreation

\* The link of a call in turn is for the thread that makes the call.
LEMMA LinkMatches ==
    ASSUME IndInv, BehindOK, EndedOK, IdsOK, NumbersOK, CreatesInTurn(script),
           NumbersOnce(script), NEW t \in Threads, At(t, "create"), Here(t).alts # <<>>
    PROVE  Len(Here(t).alts) = 1 /\ cursor[t] = 1 /\ CreatesNumbered(t)
  <1> DEFINE i == ip[t]
             link == Code[script][t][i].alts[1]
  <1>1. i \in DOMAIN Code[script][t] /\ Here(t) = Code[script][t][i] /\ Born(t)
    BY DEF At, Here, Born
  <1>2. /\ Len(Here(t).alts) = 1 /\ KnownAs(script, t, link.tid)
        /\ InTurn(script, t, i, link.slot, link.tid)
    BY <1>1 DEF CreatesInTurn, At
  <1>3. link.slot \in Nat /\ link.tid \in Int
    <2>1. Code[script][t][i].alts \in Seq(Alternative)
      BY <1>1, InstructionFields DEF IndInv, TypeInv, TypeOK
    <2>2. link \in Alternative
      <3>1. Len(Code[script][t][i].alts) = 1
        BY <1>1, <1>2
      <3>2. ASSUME NEW q \in Seq(Alternative), Len(q) = 1 PROVE q[1] \in Alternative
        <4>1. 1 \in 1..Len(q)
          BY <3>2
        <4> QED
          BY <4>1
      <3> QED
        BY <2>1, <3>1, <3>2
    <2> QED
      BY <2>2, SlotsAssumption DEF Alternative
  <1>4. cursor[t] = 1 /\ ltid[t] = link.tid
    BY <1>1, <1>2, <1>3 DEF NumbersOK
  <1>5. counter = link.slot
    BY <1>1, <1>2, <1>3, <1>4, TurnHolds DEF CreatesInTurn
  <1> QED
    BY <1>1, <1>2, <1>4, <1>5 DEF CreatesNumbered, ShouldUseAssumed

LEMMA NumbersStep ==
    IndInv /\ BehindOK /\ EndedOK /\ IdsOK /\ NumbersOK /\ [Next]_vars => NumbersOK'
  <1> SUFFICES ASSUME IndInv, BehindOK, EndedOK, IdsOK, NumbersOK, [Next]_vars
               PROVE  NumbersOK'
    OBVIOUS
  <1>0. /\ script' = script /\ script \in Scripts /\ Births /\ Main \in Threads
        /\ cursor \in [Threads -> Nat \ {0}]
    BY OrderlyStep, BirthStep, ThreadsAssumption DEF Orderly, IndInv, TypeInv, TypeOK
  <1>b. Born(Main)'
    BY <1>0 DEF Births, NumbersOK
  <1> SUFFICES ASSUME CreatesInTurn(script), NumbersOnce(script)
               PROVE  /\ \A t \in Threads : cursor'[t] = 1
                      /\ \A t \in Threads : Born(t)' => \A id \in Int :
                           KnownAs(script, t, id) => ltid'[t] = id
                      /\ NumberedByCreation'
    BY <1>0, <1>b DEF NumbersOK
  <1>1. \A t \in Threads : cursor'[t] = 1
    <2>1. ASSUME NEW t \in Threads, TryAlternative(t) PROVE FALSE
      <3>1. At(t, "create") /\ cursor[t] <= Len(Here(t).alts) /\ ~CreatesNumbered(t)
        BY <2>1 DEF TryAlternative
      <3>2. Here(t).alts # <<>>
        BY <1>0, <3>1
      <3> QED
        BY <3>1, <3>2, LinkMatches
    <2>2. ASSUME NEW t \in Threads, Create(t) PROVE \A u \in Threads : cursor'[u] = 1
      BY <1>0, <2>2 DEF Create, NumbersOK
    <2> QED
      BY <2>1, <2>2, OnlyCreateTries DEF NumbersOK
  \* Every thread has the number it is known by, and one it is created with.
  <1>2. ASSUME NEW u \in Threads, Born(u)'
        PROVE  /\ \A id \in Int : KnownAs(script, u, id) => ltid'[u] = id
               /\ CreationsOf(script, u) # {} => ltid'[u] \in CreationNumbers(script, u)
    <2>1. CASE Born(u)
      BY <1>0, <2>1 DEF Births, NumbersOK, NumberedByCreation, Born
    <2>2. CASE ~Born(u)
      <3>1. PICK t \in Threads :
              /\ At(t, "create") /\ u \in Here(t).children /\ ltid'[u] = NewId(t)
        BY <1>0, <1>2, <2>2 DEF Births
      <3> DEFINE i == ip[t]
                 alts == Code[script][t][i].alts
      <3>2. /\ i \in DOMAIN Code[script][t] /\ Here(t) = Code[script][t][i]
            /\ Code[script][t][i].op = "create" /\ u \in Code[script][t][i].children
        BY <3>1 DEF At, Here
      <3>3. u # Main
        BY <2>2 DEF NumbersOK
      <3>4. ASSUME NEW Ids, NumberedBy(script, u, Ids) PROVE ltid'[u] \in Ids
        <4>1. Len(alts) = 1 /\ alts[1].id \in Ids
          BY <3>2, <3>4 DEF NumberedBy
        <4>2. Here(t).alts # <<>>
          BY <3>2, <4>1
        <4>3. cursor[t] = 1
          BY <3>1, <4>2, LinkMatches
        <4> QED
          BY <3>1, <3>2, <4>1, <4>3 DEF NewId
      <3> QED
        BY <3>3, <3>4 DEF KnownAs, CreatesInTurn
    <2> QED
      BY <2>1, <2>2
  <1>3. NumberedByCreation'
    BY <1>0, <1>2 DEF NumberedByCreation, Born, CreationsOf, CreationNumbers
  <1> QED
    BY <1>1, <1>2, <1>3

\* When the witness has the thread created last go first, each thread it sees
\* created runs under the number it has there, for any number of threads and
\* however they are scheduled: no other thread can end the segment of a
\* pthread_create that is still to come.
THEOREM NumbersInTime ==
    SafeSpec => []((ThisCase.inTime => CreatesInTurn(script)) /\ NumbersOnce(script)
                     => NumberedInTime)
  <1>1. Init => EndedOK /\ NumbersOK
    <2> SUFFICES ASSUME Init PROVE EndedOK /\ NumbersOK
      OBVIOUS
    <2>1. EndedOK
      BY DEF Init, EndedOK
    <2>2. /\ Born(Main) /\ ltid[Main] = 0
          /\ \A t \in Threads : cursor[t] = 1 /\ (Born(t) => t = Main)
      BY ThreadsAssumption DEF Init, Born
    <2>3. CreatesInTurn(script) => NumberedByCreation
      BY <2>2 DEF NumberedByCreation, CreatesInTurn, Born
    <2> QED
      BY <2>1, <2>2, <2>3 DEF NumbersOK, KnownAs
  <1>2. IndInv /\ BehindOK /\ EndedOK /\ IdsOK /\ NumbersOK /\ [Next]_vars =>
          EndedOK' /\ NumbersOK'
    BY EndedStep, NumbersStep
  <1>3. NumbersOK =>
          ((ThisCase.inTime => CreatesInTurn(script)) /\ NumbersOnce(script)
             => NumberedInTime)
    BY DEF NumbersOK, NumberedInTime
  <1> QED
    BY <1>1, <1>2, <1>3, Invariance, BehindInvariant, IdsInvariant, PTL DEF SafeSpec

=============================================================================
