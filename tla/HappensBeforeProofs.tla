------------------------- MODULE HappensBeforeProofs -------------------------
(***************************************************************************)
(* Proofs about HappensBefore: that the race of a witness is one behind    *)
(* its schedule, for every program whose racing accesses stand there       *)
(* (RacesInTurn).                                                          *)
(***************************************************************************)
EXTENDS HappensBefore, ReplayProofs

-----------------------------------------------------------------------------
(* Steps.                                                                  *)

\* A step of a thread that learns and leaves something.
Acts(t) == Step(t) /\ Learn(t) /\ Leave(t) /\ Order(t)

\* A step in which nobody learns anything.
Quiet ==
    /\ UNCHANGED <<hbVars, script, ip, ltid, counter, events>>
    /\ \A u \in Threads : pc'[u] = pc[u] \/ (pc[u] = "asleep" /\ pc'[u] = "wake")

LEMMA HBSteps ==
    ASSUME TypeInv, [HBNext]_<<vars, hbVars>>
    PROVE  [Next]_vars /\ ((\E t \in Threads : Acts(t)) \/ Quiet)
  <1>1. [Next]_vars
    BY DEF HBNext, Next
  <1>2. ASSUME NEW t \in Threads, SpuriousWakeup(t), UNCHANGED hbVars PROVE Quiet
    <2>1. pc \in [Threads -> Labels]
      BY DEF TypeInv, TypeOK
    <2> QED
      BY <1>2, <2>1 DEF SpuriousWakeup, In, Goto, syncVars, Quiet
  <1>3. ASSUME ProcessEnds \/ UNCHANGED vars, UNCHANGED hbVars PROVE Quiet
    BY <1>3 DEF ProcessEnds, vars, threadVars, syncVars, Quiet
  <1> QED
    BY <1>1, <1>2, <1>3 DEF HBNext, Exited, Acts

LEMMA OnlyTheBornAct == ASSUME NEW t \in Threads, Step(t) PROVE Born(t)
  BY DEF Step, Born, At, In, EnterCall, CallOnce, Initialize, Lock, Check, Announce,
         Test, Wait, Reacquire, Store, Signal, Unlock, AssumeFirstArgument,
         AssumeSecondArgument, Pin, SetFinalSlot, Statement, Branch, TryAlternative,
         Create, ThreadProxy, Join, ReachError, Report, ExitWithError, Finish

LEMMA StoresItself ==
    ASSUME NEW t \in Threads, Step(t)
    PROVE  counter' = counter \/ (pc[t] = "store" /\ counter' = Here(t).slot + 1)
  BY DEF Step, In, EnterCall, CallOnce, Initialize, Lock, Check, Announce,
         Test, Wait, Reacquire, Store, Signal, Unlock, AssumeFirstArgument,
         AssumeSecondArgument, Pin, SetFinalSlot, Statement, Branch, TryAlternative,
         Create, ThreadProxy, Join, ReachError, Report, ExitWithError, Finish, syncVars

\* A thread is about to leave a yield: it has just found the segment due, or it
\* was before.
Leaves(t) ==
    \A u \in Threads : pc'[u] = "unlock" =>
      /\ ip'[u] = ip[u]
      /\ \/ pc[u] = "unlock" \/ Here(u).op = "release"
         \/ u = t /\ pc[t] \in {"check", "test"} /\ counter >= Here(t).slot

LEMMA LeavesStep ==
    ASSUME TypeInv, NEW self \in Threads, Step(self)
    PROVE  Leaves(self)
  <1> USE DEF At, In, Goto, Resume, ResumeAt, syncVars, threadVars
  <1>t. /\ pc \in [Threads -> Labels] /\ ip \in [Threads -> Nat] /\ counter \in Nat
    BY DEF TypeInv, TypeOK
  <1>c. CallOK
    BY DEF TypeInv
  \* A step that takes no thread there.
  <1>q. ASSUME NEW t \in Threads,
               \A u \in Threads : pc'[u] = "unlock" => pc[u] = "unlock" /\ ip'[u] = ip[u]
        PROVE  Leaves(t)
    BY <1>q DEF Leaves
  <1>1. ASSUME NEW t \in Threads, Check(t) PROVE Leaves(t)
    <2>1. Here(t).op \in {"yield", "release"}
      BY <1>1, <1>c DEF Check, CallOK, InCall, Critical
    <2> QED
      BY <1>1, <1>t, <2>1 DEF Check, YieldGoesOn, Leaves
  <1>2. ASSUME NEW t \in Threads, Test(t) PROVE Leaves(t)
    <2>1. Here(t).slot \in Nat
      BY <1>2, <1>c, InstructionFields DEF Test, Here, CallOK, InCall, Critical, TypeInv, TypeOK
    <2> QED
      BY <1>2, <1>t, <2>1 DEF Test, Leaves
  <1>3. ASSUME NEW t \in Threads, Signal(t) PROVE Leaves(t)
    <2>1. Here(t).op = "release"
      BY <1>3, <1>c DEF Signal, CallOK
    <2> QED
      BY <1>3, <1>t, <2>1 DEF Signal, Wake, Leaves
  <1>4. ASSUME NEW t \in Threads, Unlock(t) PROVE Leaves(t)
    BY <1>4, <1>t DEF Unlock, Leaves
  <1>5. ASSUME NEW t \in Threads, EnterCall(t) PROVE Leaves(t)
    BY <1>5, <1>t, <1>q DEF EnterCall
  <1>6. ASSUME NEW t \in Threads, CallOnce(t) PROVE Leaves(t)
    BY <1>6, <1>t, <1>q DEF CallOnce
  <1>7. ASSUME NEW t \in Threads, Initialize(t) PROVE Leaves(t)
    BY <1>7, <1>t, <1>q DEF Initialize
  <1>8. ASSUME NEW t \in Threads, Lock(t) PROVE Leaves(t)
    BY <1>8, <1>t, <1>q DEF Lock
  <1>9. ASSUME NEW t \in Threads, Announce(t) PROVE Leaves(t)
    BY <1>9, <1>t, <1>q DEF Announce, Wake
  <1>10. ASSUME NEW t \in Threads, Wait(t) PROVE Leaves(t)
    BY <1>10, <1>t, <1>q DEF Wait
  <1>11. ASSUME NEW t \in Threads, Reacquire(t) PROVE Leaves(t)
    BY <1>11, <1>t, <1>q DEF Reacquire
  <1>12. ASSUME NEW t \in Threads, Store(t) PROVE Leaves(t)
    BY <1>12, <1>t, <1>q DEF Store
  <1>13. ASSUME NEW t \in Threads, AssumeFirstArgument(t) PROVE Leaves(t)
    BY <1>13, <1>t, <1>q DEF AssumeFirstArgument
  <1>14. ASSUME NEW t \in Threads, AssumeSecondArgument(t) PROVE Leaves(t)
    BY <1>14, <1>t, <1>q DEF AssumeSecondArgument
  <1>15. ASSUME NEW t \in Threads, Pin(t) PROVE Leaves(t)
    BY <1>15, <1>t, <1>q DEF Pin
  <1>16. ASSUME NEW t \in Threads, SetFinalSlot(t) PROVE Leaves(t)
    BY <1>16, <1>t, <1>q DEF SetFinalSlot
  <1>17. ASSUME NEW t \in Threads, Statement(t) PROVE Leaves(t)
    BY <1>17, <1>t, <1>q DEF Statement
  <1>18. ASSUME NEW t \in Threads, Branch(t) PROVE Leaves(t)
    BY <1>18, <1>t, <1>q DEF Branch
  <1>19. ASSUME NEW t \in Threads, TryAlternative(t) PROVE Leaves(t)
    BY <1>19, <1>t, <1>q DEF TryAlternative
  <1>20. ASSUME NEW t \in Threads, Create(t) PROVE Leaves(t)
    BY <1>20, <1>t, <1>q DEF Create
  <1>21. ASSUME NEW t \in Threads, ThreadProxy(t) PROVE Leaves(t)
    BY <1>21, <1>t, <1>q DEF ThreadProxy
  <1>22. ASSUME NEW t \in Threads, Join(t) PROVE Leaves(t)
    BY <1>22, <1>t, <1>q DEF Join
  <1>23. ASSUME NEW t \in Threads, ReachError(t) PROVE Leaves(t)
    BY <1>23, <1>t, <1>q DEF ReachError
  <1>24. ASSUME NEW t \in Threads, Report(t) PROVE Leaves(t)
    BY <1>24, <1>t, <1>q DEF Report
  <1>25. ASSUME NEW t \in Threads, ExitWithError(t) PROVE Leaves(t)
    BY <1>25, <1>t, <1>q DEF ExitWithError
  <1>26. ASSUME NEW t \in Threads, Finish(t) PROVE Leaves(t)
    BY <1>26, <1>t, <1>q DEF Finish
  <1> QED
    BY <1>1, <1>2, <1>3, <1>4, <1>5, <1>6, <1>7, <1>8, <1>9, <1>10,
       <1>11, <1>12, <1>13, <1>14, <1>15, <1>16, <1>17, <1>18, <1>19,
       <1>20, <1>21, <1>22, <1>23, <1>24, <1>25, <1>26
    DEF Step

-----------------------------------------------------------------------------
(* What is known.                                                          *)

\* Every statement is known to a thread that has executed it.
OwnedOK ==
    \A e \in events : e[1] = "stmt" =>
      \E u \in Threads : Born(u) /\ ltid[u] = e[2] /\ e \in knows[u]

\* The statements of the turns before segment n.
TurnsIn(n, S) ==
    \A p \in ThisCase.points \ ThisCase.targets :
      TurnOf(script, p) < n => ThisCase.happened[p] \in S

\* The counter tells of the turns that are over, and so a yield does of those
\* before its segment.
CounterTells == TurnsIn(counter, left.counter)
YieldTells ==
    \A t \in Threads : pc[t] = "unlock" /\ Here(t).op = "yield" =>
      TurnsIn(Here(t).slot, knows[t])
BehindTells ==
    \A t \in Threads : \A d \in DOMAIN Code[script][t] : \A e \in Nat :
      /\ OnlyWay(script, t, d, e)
      /\ Code[script][t][d].op = "yield"
      /\ ip[t] \in (d + 1)..e
      /\ ltid[t] = Code[script][t][d].tid
      => TurnsIn(Code[script][t][d].slot, knows[t])

Racing == ThisCase.targets # {} /\ RacesInTurn(script) /\ NumbersOnce(script)

TellsOK ==
    Racing => OwnedOK /\ CounterTells /\ YieldTells /\ BehindTells /\ RaceBehindSchedule

\* What has been shown of the program itself.
ReplayInv == IndInv /\ BehindOK /\ LineOK /\ IdsOK

\* A thread that is there forgets nothing, and one that acts knows what it does.
LEMMA NothingForgotten ==
    ASSUME NEW t \in Threads, Acts(t)
    PROVE  /\ \A u \in Threads : Born(u) => knows[u] \subseteq knows'[u]
           /\ knows'[t] = Known(t) \cup News
           /\ knows[t] \subseteq Known(t)
  BY DEF Acts, Learn, Known, Born

\* With unique ids, a thread knows the statements that have been executed under
\* its number.
LEMMA KnowsItsOwn ==
    ASSUME IdsOK, OwnedOK, NumbersOnce(script), NEW t \in Threads, Born(t), ltid[t] >= 0,
           NEW line, <<"stmt", ltid[t], line>> \in events
    PROVE  <<"stmt", ltid[t], line>> \in knows[t]
  <1> DEFINE e == <<"stmt", ltid[t], line>>
  <1>1. PICK u \in Threads : Born(u) /\ ltid[u] = ltid[t] /\ e \in knows[u]
    BY DEF OwnedOK
  <1>2. u = t
    BY <1>1 DEF IdsOK, DistinctIds, SameNumber, Born, Unnumbered
  <1> QED
    BY <1>1, <1>2

LEMMA BehindYieldKnows ==
    ASSUME IndInv, BehindTells, NEW t \in Threads, ip[t] \in DOMAIN Code[script][t],
           NEW slot, BehindYield(script, t, ip[t], slot, ltid[t])
    PROVE  TurnsIn(slot, knows[t])
  <1>1. PICK d \in DOMAIN Code[script][t] :
          LeadsTo(script, t, d, ip[t]) /\ IsYield(script, t, d, slot, ltid[t])
    BY DEF BehindYield
  <1>2. PICK e \in ip[t]..Len(Code[script][t]) : OnlyWay(script, t, d, e)
    BY <1>1 DEF LeadsTo
  <1>3. ip[t] \in Nat /\ d \in Nat /\ Len(Code[script][t]) \in Nat
    BY CodeAssumption, InstructionFields DEF IndInv, TypeInv, TypeOK
  <1>4. e \in Nat /\ ip[t] \in (d + 1)..e
    BY <1>1, <1>2, <1>3 DEF LeadsTo
  <1> QED
    BY <1>1, <1>2, <1>4 DEF BehindTells, IsYield

\* So does one behind the statement of a turn of its own.
LEMMA BehindOwnKnows ==
    ASSUME ReplayInv, OwnedOK, NumbersOnce(script), NEW t \in Threads, Born(t),
           ip[t] \in DOMAIN Code[script][t], NEW p \in ThisCase.points,
           ThreadAt(script, p) = ltid[t], ltid[t] >= 0, LineAt(script, p) # 0,
           BehindLine(script, t, ip[t], LineAt(script, p))
    PROVE  ThisCase.happened[p] \in knows[t]
  <1>1. ThisCase.happened[p] = <<"stmt", ltid[t], LineAt(script, p)>>
    BY PointFields DEF ThisCase, ReplayInv, IndInv, TypeInv, TypeOK
  <1>2. <<"stmt", ltid[t], LineAt(script, p)>> \in events
    BY LinePassed DEF ReplayInv
  <1> QED
    BY <1>1, <1>2, KnowsItsOwn DEF ReplayInv

\* A thread that is about to end a segment knows of its turn, and of all before.
LEMMA StoreKnows ==
    ASSUME ReplayInv, OwnedOK, Racing, BehindTells,
           NEW t \in Threads, pc[t] = "store"
    PROVE  TurnsIn(Here(t).slot + 1, knows[t])
  <1>1. /\ ip[t] \in DOMAIN Code[script][t] /\ Here(t) = Code[script][t][ip[t]]
        /\ Here(t).op = "release" /\ ltid[t] = Here(t).tid /\ Born(t)
    BY DEF ReplayInv, IndInv, TypeInv, CallOK, InCall, Critical, Here, Born
  <1>2. Here(t).slot \in Nat /\ script \in Scripts
    BY <1>1, InstructionFields DEF ReplayInv, IndInv, TypeInv, TypeOK
  <1> SUFFICES ASSUME NEW p \in ThisCase.points \ ThisCase.targets,
                      TurnOf(script, p) < Here(t).slot + 1
               PROVE  ThisCase.happened[p] \in knows[t]
    BY DEF TurnsIn
  <1>3. TurnOf(script, p) \in Nat
    BY <1>2, TurnsNumbered DEF ThisCase
  <1>4. CASE TurnOf(script, p) < Here(t).slot
    <2>1. BehindYield(script, t, ip[t], Here(t).slot, ltid[t])
      BY <1>1 DEF Racing, RacesInTurn, Disciplined
    <2> QED
      BY <1>1, <1>4, <2>1, BehindYieldKnows DEF ReplayInv, TurnsIn
  <1>5. CASE TurnOf(script, p) = Here(t).slot
    <2>1. ThreadAt(script, p) >= 0 /\ Closed(script, p)
      BY DEF Racing, RacesInTurn, ThisCase
    <2>2. /\ LineAt(script, p) # 0 /\ ThreadAt(script, p) = ltid[t]
          /\ BehindLine(script, t, ip[t], LineAt(script, p))
      BY <1>1, <1>5, <2>1 DEF Closed
    <2> QED
      BY <1>1, <2>1, <2>2, BehindOwnKnows DEF Racing
  <1> QED
    BY <1>2, <1>3, <1>4, <1>5

-----------------------------------------------------------------------------
(* A step of a thread.                                                     *)

LEMMA OwnedStep ==
    ASSUME IndInv, OwnedOK, Racing, [Next]_vars, NEW t \in Threads, Acts(t)
    PROVE  OwnedOK'
  <1>1. Births /\ TracesOf(t) /\ Born(t)
    BY BirthStep, StepTraces, OnlyTheBornAct DEF IndInv, Acts
  <1> SUFFICES ASSUME NEW e \in events', e[1] = "stmt"
               PROVE  \E u \in Threads : Born(u)' /\ ltid'[u] = e[2] /\ e \in knows'[u]
    BY DEF OwnedOK
  <1>2. CASE e \in events
    <2>1. PICK u \in Threads : Born(u) /\ ltid[u] = e[2] /\ e \in knows[u]
      BY <1>2 DEF OwnedOK
    <2> QED
      BY <1>1, <2>1, NothingForgotten DEF Births
  <1>3. CASE e \notin events
    <2>1. e = Trace(t) /\ e \in News
      BY <1>1, <1>3 DEF TracesOf, News, Racing
    <2>2. e[2] = ltid[t] /\ e \in knows'[t]
      BY <2>1, NothingForgotten DEF Trace
    <2> QED
      BY <1>1, <2>2 DEF Births
  <1> QED
    BY <1>2, <1>3

LEMMA CounterTellsStep ==
    ASSUME ReplayInv, OwnedOK, Racing, BehindTells, CounterTells,
           script' = script, NEW t \in Threads, Acts(t)
    PROVE  CounterTells'
  <1>1. CASE pc[t] = "store"
    <2>1. left'.counter = knows'[t]
      BY <1>1 DEF Acts, Leave
    <2>2. /\ counter \in Nat /\ counter <= Here(t).slot
          /\ ip[t] \in DOMAIN Code[script][t]
      BY <1>1 DEF ReplayInv, IndInv, SyncInv, CounterOK, TypeInv, TypeOK, CallOK, InCall, Critical
    <2>3. Here(t).slot \in Nat /\ script \in Scripts
      BY <2>2, InstructionFields DEF Here, ReplayInv, IndInv, TypeInv, TypeOK
    <2>4. counter' \in Nat /\ counter' <= Here(t).slot + 1
      BY <2>2, <2>3, StoresItself DEF Acts
    <2>5. knows[t] \subseteq knows'[t]
      BY NothingForgotten
    <2> SUFFICES ASSUME NEW p \in ThisCase.points \ ThisCase.targets,
                        TurnOf(script, p) < counter'
                 PROVE  ThisCase.happened[p] \in left'.counter
      BY DEF CounterTells, TurnsIn, ThisCase
    <2>6. TurnOf(script, p) \in Nat
      BY <2>3, TurnsNumbered DEF ThisCase
    <2>7. TurnOf(script, p) < Here(t).slot + 1
      BY <2>3, <2>4, <2>6
    <2> QED
      BY <1>1, <2>1, <2>5, <2>7, StoreKnows DEF TurnsIn
  <1>2. CASE pc[t] # "store"
    <2>1. left'.counter = left.counter /\ counter' = counter
      BY <1>2, StoresItself DEF Acts, Leave
    <2> QED
      BY <2>1 DEF CounterTells, TurnsIn, ThisCase
  <1> QED
    BY <1>1, <1>2

LEMMA YieldTellsStep ==
    ASSUME IndInv, CounterTells, YieldTells, script' = script,
           NEW t \in Threads, Acts(t)
    PROVE  YieldTells'
  <1>0. /\ pc \in [Threads -> Labels] /\ ip \in [Threads -> Nat] /\ counter \in Nat
        /\ script \in Scripts /\ CallOK
    BY DEF IndInv, TypeInv, TypeOK
  <1> SUFFICES ASSUME NEW u \in Threads, pc'[u] = "unlock",
                      Code[script][u][ip'[u]].op = "yield"
               PROVE  TurnsIn(Code[script][u][ip'[u]].slot, knows'[u])
    BY DEF YieldTells, TurnsIn, ThisCase, Here
  <1>1. Leaves(t)
    BY LeavesStep DEF IndInv, Acts
  <1>2. ip'[u] = ip[u] /\ Here(u) = Code[script][u][ip'[u]]
    BY <1>1 DEF Leaves, Here
  <1>3. CASE pc[u] = "unlock"
    <2>1. TurnsIn(Here(u).slot, knows[u]) /\ Born(u)
      BY <1>2, <1>3 DEF YieldTells, Born
    <2> QED
      BY <1>2, <2>1, NothingForgotten DEF TurnsIn
  <1>4. CASE u = t /\ pc[t] \in {"check", "test"} /\ counter >= Here(t).slot
    <2>1. LoadsCounter(t)
      BY <1>4 DEF LoadsCounter
    <2>2. left.counter \subseteq knows'[t]
      BY <2>1, NothingForgotten DEF Known, Learned
    <2>3. Here(t).slot \in Nat
      BY <1>0, <1>4, InstructionFields DEF CallOK, InCall, Critical, Here
    <2>4. ASSUME NEW p \in ThisCase.points \ ThisCase.targets,
                 TurnOf(script, p) < Here(t).slot
          PROVE  TurnOf(script, p) < counter
      BY <1>0, <1>4, <2>3, <2>4, TurnsNumbered DEF ThisCase
    <2> QED
      BY <1>2, <1>4, <2>2, <2>4 DEF CounterTells, TurnsIn
  <1> QED
    BY <1>1, <1>2, <1>3, <1>4 DEF Leaves

LEMMA BehindTellsStep ==
    ASSUME IndInv, YieldTells, BehindTells, Orderly, NEW t \in Threads, Acts(t)
    PROVE  BehindTells'
  <1>s. script' = script
    BY DEF Orderly
  <1> SUFFICES ASSUME NEW u \in Threads, NEW d \in DOMAIN Code[script][u],
                      NEW e \in Nat, OnlyWay(script, u, d, e),
                      Code[script][u][d].op = "yield",
                      ip'[u] \in (d + 1)..e,
                      ltid'[u] = Code[script][u][d].tid
               PROVE  TurnsIn(Code[script][u][d].slot, knows'[u])
    BY <1>s DEF BehindTells, TurnsIn, ThisCase
  <1>0. TypeInv /\ CallOK /\ d \in Nat \ {0} /\ ip[u] \in Nat
    BY InstructionFields DEF IndInv, TypeInv, TypeOK
  <1>1. CASE ip[u] \in (d + 1)..e
    <2>1. Born(u) /\ ltid'[u] = ltid[u]
      BY <1>0, <1>1 DEF Orderly, Stays, GoesOn, Branches, Born, CallOK
    <2>2. TurnsIn(Code[script][u][d].slot, knows[u])
      BY <1>1, <2>1 DEF BehindTells
    <2> QED
      BY <2>1, <2>2, NothingForgotten DEF TurnsIn
  <1>2. CASE ip[u] = d /\ ~Stays(u)
    <2>1. GoesOn(u)
      BY <1>2 DEF Orderly, Branches, Here
    <2>2. pc[u] = "unlock" /\ Here(u) = Code[script][u][d]
      BY <1>2, <2>1 DEF GoesOn, Here
    <2>3. TurnsIn(Code[script][u][d].slot, knows[u]) /\ Born(u)
      BY <2>2 DEF YieldTells, Born
    <2> QED
      BY <2>3, NothingForgotten DEF TurnsIn
  <1>3. CASE Stays(u)
    BY <1>1, <1>3 DEF Stays
  <1> QED
    BY <1>0, <1>1, <1>2, <1>3, OverTheWay

LEMMA RaceStep ==
    ASSUME ReplayInv, OwnedOK, Racing, BehindTells, RaceBehindSchedule,
           script' = script, NEW t \in Threads, Acts(t)
    PROVE  RaceBehindSchedule'
  <1>0. script \in Scripts /\ TracesOf(t) /\ Born(t)
    BY StepTraces, OnlyTheBornAct DEF ReplayInv, IndInv, TypeInv, TypeOK, Acts
  <1>1. before' = before \cup Known(t) \X News
    BY DEF Acts, Order
  <1> SUFFICES ASSUME NEW p \in ThisCase.points \ ThisCase.targets,
                      NEW j \in ThisCase.targets, ThisCase.happened[j] \in events'
               PROVE  <<ThisCase.happened[p], ThisCase.happened[j]>> \in before'
    BY DEF RaceBehindSchedule, HappensBefore, Happened, ThisCase
  <1>2. CASE ThisCase.happened[j] \in events
    BY <1>1, <1>2 DEF RaceBehindSchedule, HappensBefore, Happened
  <1>3. CASE ThisCase.happened[j] \notin events
    <2>1. ThisCase.happened[j] = <<"stmt", ThreadAt(script, j), LineAt(script, j)>>
      BY <1>0, EventFields DEF ThisCase
    <2>2. /\ ip[t] \in DOMAIN Code[script][t]
          /\ ThisCase.happened[j] = Trace(t) /\ ThisCase.happened[j] \in News
      BY <1>0, <1>3, <2>1 DEF TracesOf, News
    <2>3. ltid[t] = ThreadAt(script, j) /\ Code[script][t][ip[t]].line = LineAt(script, j)
      BY <2>1, <2>2 DEF Trace, Here
    <2>4. /\ ThreadAt(script, p) >= 0 /\ Closed(script, p)
          /\ \/ \E slot \in Slots :
                  TurnOf(script, p) < slot /\ BehindYield(script, t, ip[t], slot, ltid[t])
             \/ ThreadAt(script, p) = ltid[t]
                  /\ BehindLine(script, t, ip[t], LineAt(script, p))
      BY <2>2, <2>3 DEF Racing, RacesInTurn, ThisCase
    <2>5. ThisCase.happened[p] \in knows[t]
      <3>1. ASSUME NEW slot \in Slots, TurnOf(script, p) < slot,
                   BehindYield(script, t, ip[t], slot, ltid[t])
            PROVE  ThisCase.happened[p] \in knows[t]
        BY <2>2, <3>1, BehindYieldKnows DEF ReplayInv, TurnsIn
      <3>2. CASE ThreadAt(script, p) = ltid[t]
                   /\ BehindLine(script, t, ip[t], LineAt(script, p))
        BY <1>0, <2>2, <2>4, <3>2, BehindOwnKnows DEF Racing, Closed
      <3> QED
        BY <2>4, <3>1, <3>2
    <2> QED
      BY <1>1, <2>2, <2>5, NothingForgotten
  <1> QED
    BY <1>2, <1>3

LEMMA TellsStep ==
    ReplayInv /\ TellsOK /\ [HBNext]_<<vars, hbVars>> => TellsOK'
  <1> SUFFICES ASSUME ReplayInv, TellsOK, [HBNext]_<<vars, hbVars>> PROVE TellsOK'
    OBVIOUS
  <1>0. /\ IndInv /\ [Next]_vars /\ Orderly /\ script' = script
        /\ (\E t \in Threads : Acts(t)) \/ Quiet
    BY HBSteps, OrderlyStep DEF ReplayInv, IndInv, Orderly
  <1>1. Racing' = Racing
    BY <1>0 DEF Racing, ThisCase, RacesInTurn, NumbersOnce, Disciplined, ThreadAt, LineAt, TurnOf,
                Closed, BehindLine, BehindYield, LeadsTo, OnlyWay, IsYield, NoWayBack
  <1>2. ASSUME NEW t \in Threads, Acts(t) PROVE TellsOK'
    <2>1. Racing => OwnedOK'
      BY <1>0, <1>2, OwnedStep DEF TellsOK
    <2>2. Racing => CounterTells' /\ YieldTells' /\ BehindTells' /\ RaceBehindSchedule'
      BY <1>0, <1>2, CounterTellsStep, YieldTellsStep, BehindTellsStep, RaceStep DEF TellsOK
    <2> QED
      BY <1>1, <2>1, <2>2 DEF TellsOK
  <1>3. CASE Quiet
    <2>1. OwnedOK => OwnedOK'
      BY <1>3 DEF Quiet, hbVars, OwnedOK, Born
    <2>2. CounterTells => CounterTells'
      BY <1>3 DEF Quiet, hbVars, CounterTells, TurnsIn, ThisCase
    <2>3. YieldTells => YieldTells'
      BY <1>3 DEF Quiet, hbVars, YieldTells, TurnsIn, ThisCase, Here
    <2>4. BehindTells => BehindTells'
      BY <1>3 DEF Quiet, hbVars, BehindTells, TurnsIn, ThisCase
    <2>5. RaceBehindSchedule => RaceBehindSchedule'
      BY <1>3 DEF Quiet, hbVars, RaceBehindSchedule, HappensBefore, Happened, ThisCase
    <2> QED
      BY <1>1, <2>1, <2>2, <2>3, <2>4, <2>5 DEF TellsOK
  <1> QED
    BY <1>0, <1>2, <1>3

LEMMA ReplayInvariance == HBSafeSpec => []ReplayInv
  <1>1. SafeSpec => []LineOK
    BY TurnsInvariant, PTL DEF TurnsInv
  <1>2. HBInit => Init
    BY DEF HBInit
  <1>3. [HBNext]_<<vars, hbVars>> => [Next]_vars
    BY DEF HBNext, Next
  <1>4. HBSafeSpec => SafeSpec
    BY <1>2, <1>3, PTL DEF HBSafeSpec, SafeSpec
  <1> QED
    BY <1>1, <1>4, Invariance, BehindInvariant, IdsInvariant, PTL DEF ReplayInv

\* What the witness orders before its race happens before both of the accesses,
\* for the sanitizer as well, for any number of threads and turns and in every
\* interleaving: a thread that a yield lets through has read the counter that the
\* releases before have written.
THEOREM RacesComeLast ==
    HBSafeSpec => [](RacesInTurn(script) /\ NumbersOnce(script) => RaceBehindSchedule)
  <1>1. HBInit => TellsOK
    <2> SUFFICES ASSUME HBInit PROVE TellsOK
      OBVIOUS
    <2>1. /\ events = {} /\ counter = 0 /\ script \in Scripts
          /\ \A t \in Threads : ip[t] = 1 /\ pc[t] # "unlock"
      BY DEF HBInit, Init
    <2>2. CounterTells
      BY <2>1, TurnsNumbered DEF CounterTells, TurnsIn, ThisCase
    <2>3. YieldTells
      BY <2>1 DEF YieldTells
    <2>4. BehindTells
      BY <2>1, InstructionFields DEF BehindTells
    <2>5. OwnedOK /\ RaceBehindSchedule
      BY <2>1 DEF OwnedOK, RaceBehindSchedule, Happened
    <2> QED
      BY <2>2, <2>3, <2>4, <2>5 DEF TellsOK
  <1>2. ReplayInv /\ TellsOK /\ [HBNext]_<<vars, hbVars>> => TellsOK'
    BY TellsStep
  <1>3. TellsOK => (RacesInTurn(script) /\ NumbersOnce(script) => RaceBehindSchedule)
    BY DEF TellsOK, Racing, RaceBehindSchedule
  <1> QED
    BY <1>1, <1>2, <1>3, ReplayInvariance, PTL DEF HBSafeSpec

-----------------------------------------------------------------------------
(* What is not known.                                                      *)

\* The racing accesses, as events.
Race == {ThisCase.happened[p] : p \in ThisCase.targets}
LeftBehind == left.mutex \cup left.counter \cup left.once

\* Thread t has got past instruction i of the silent end of its program.
Beyond(t, i) ==
    SilentFrom(script, t, i) /\ (ip[t] >= i \/ ip[t] \notin DOMAIN Code[script][t])

\* An access is known to nobody but the thread it is of, and to those that have
\* joined one and have no access to come.
KeptApart ==
    /\ LeftBehind \cap Race = {}
    /\ \A t \in Threads : \A e \in knows[t] \cap Race :
         /\ Born(t)
         /\ \E i \in Accesses(script, t) \cup Joins(script, t) :
              Beyond(t, i) /\ (e[2] = ltid[t] \/ \A n \in Accesses(script, t) : n < i)
    /\ NothingOrdersRace

ApartInv ==
    /\ LeftBehind \subseteq events /\ \A t \in Threads : knows[t] \subseteq events
    /\ RacesApart(script) => KeptApart

LEMMA MovesWithin ==
    ASSUME TypeInv, NEW t \in Threads, Step(t), ip[t] \notin DOMAIN Code[script][t]
    PROVE  ip'[t] = ip[t]
  <1>1. /\ ip \in [Threads -> Nat]
        /\ pc[t] \notin InCall \cup {"judgeMatches", "judgeHolds"}
    BY DEF TypeInv, TypeOK, CallOK
  <1>2. \A op : ~At(t, op)
    BY DEF At
  <1> QED
    BY <1>1, <1>2 DEF Step, In, EnterCall, CallOnce, Initialize, Lock, Check, Announce,
         Test, Wait, Reacquire, Store, Signal, Unlock, AssumeFirstArgument,
         AssumeSecondArgument, Pin, SetFinalSlot, Statement, Branch, TryAlternative,
         Create, ThreadProxy, Join, ReachError, Report, ExitWithError, Finish, InCall, Critical,
         threadVars

\* Nobody gives up the mutex outside of a call.
LEMMA GivesUpWithin ==
    ASSUME TypeInv, NEW t \in Threads, Step(t), owner = t, owner' # t
    PROVE  pc[t] \in InCall
  BY DEF Step, In, EnterCall, CallOnce, Initialize, Lock, Check, Announce,
         Test, Wait, Reacquire, Store, Signal, Unlock, AssumeFirstArgument,
         AssumeSecondArgument, Pin, SetFinalSlot, Statement, Branch, TryAlternative,
         Create, ThreadProxy, Join, ReachError, Report, ExitWithError, Finish, InCall, Critical,
         syncVars

\* Nothing leads out of a silent end.
LEMMA BeyondStays ==
    ASSUME IndInv, Orderly, NEW t \in Threads, Step(t),
           NEW i \in DOMAIN Code[script][t], Beyond(t, i)
    PROVE  Beyond(t, i)'
  <1>0. /\ script' = script /\ script \in Scripts /\ ip[t] \in Nat /\ i \in Nat
        /\ DOMAIN Code[script][t] = 1..Len(Code[script][t])
    BY CodeAssumption, InstructionFields DEF Orderly, IndInv, TypeInv, TypeOK
  <1>1. SilentFrom(script, t, i)'
    BY <1>0 DEF Beyond, SilentFrom
  <1>2. CASE ip[t] \notin DOMAIN Code[script][t]
    BY <1>0, <1>1, <1>2, MovesWithin DEF IndInv, Beyond
  <1>3. CASE ip[t] \in DOMAIN Code[script][t] /\ ip[t] >= i
    <2>1. CASE Stays(t) \/ GoesOn(t)
      BY <1>0, <1>1, <1>3, <2>1 DEF Stays, GoesOn, Beyond
    <2>2. CASE Branches(t)
      <3>1. ip'[t] \in Nat /\ ip'[t] \notin 1..(i - 1)
        BY <1>0, <1>3, <2>2, InstructionFields DEF Branches, Here, Beyond, SilentFrom
      <3>2. ip'[t] >= i \/ ip'[t] = 0
        BY <1>0, <3>1
      <3> QED
        BY <1>0, <1>1, <3>2 DEF Beyond
    <2> QED
      BY <2>1, <2>2 DEF Orderly
  <1> QED
    BY <1>2, <1>3 DEF Beyond

LEMMA RaceFields ==
    ASSUME IndInv, NEW p \in ThisCase.targets
    PROVE  ThisCase.happened[p] = <<"stmt", ThreadAt(script, p), LineAt(script, p)>>
  BY EventFields DEF ThisCase, IndInv, TypeInv, TypeOK

\* A new access is that of the thread that goes on, and nothing comes behind it
\* that synchronises.
LEMMA NewAccess ==
    ASSUME IndInv, RacesApart(script), NEW t \in Threads, TracesOf(t),
           NEW e \in News \cap Race
    PROVE  /\ e = Trace(t) /\ e[2] = ltid[t]
           /\ ip[t] \in Accesses(script, t)
           /\ ip[t] \in DOMAIN Code[script][t]
           /\ SilentFrom(script, t, ip[t])
  <1>1. PICK p \in ThisCase.targets : e = ThisCase.happened[p]
    BY DEF Race
  <1>2. e = <<"stmt", ThreadAt(script, p), LineAt(script, p)>>
    BY <1>1, RaceFields
  <1>3. e \in events' \ events /\ e[1] = "stmt"
    BY <1>2 DEF News
  <1>4. ip[t] \in DOMAIN Code[script][t] /\ e = Trace(t)
    BY <1>3 DEF TracesOf
  <1>5. e[2] = ltid[t] /\ Code[script][t][ip[t]].line = LineAt(script, p)
    BY <1>2, <1>4 DEF Trace, Here
  <1>6. ip[t] \in Accesses(script, t)
    BY <1>4, <1>5 DEF Accesses, ThisCase
  <1> QED
    BY <1>4, <1>5, <1>6 DEF RacesApart

\* What a thread learns of an access it learns by a join, with no access to come.
LEMMA LearnedAccess ==
    ASSUME IndInv, RacesApart(script), KeptApart, NEW t \in Threads,
           NEW e \in Learned(t) \cap Race
    PROVE  /\ pc[t] = "run" /\ Here(t).op = "join"
           /\ ip[t] \in Joins(script, t)
           /\ ip[t] \in DOMAIN Code[script][t]
           /\ SilentFrom(script, t, ip[t])
           /\ \A n \in Accesses(script, t) : n < ip[t]
  <1>1. e \notin left.mutex /\ e \notin left.counter /\ e \notin left.once
    BY DEF KeptApart, LeftBehind
  <1>2. PICK child \in Joined(t) : e \in knows[child]
    BY <1>1 DEF Learned
  <1>3. /\ pc[t] = "run" /\ ip[t] \in DOMAIN Code[script][t] /\ Here(t).op = "join"
        /\ child \in Here(t).children
    BY <1>2 DEF Joined
  <1>4. child \in Threads
    BY <1>3, InstructionFields DEF Here, IndInv, TypeInv, TypeOK
  <1>5. Accesses(script, child) \cup Joins(script, child) # {}
    BY <1>2, <1>4 DEF KeptApart
  <1>6. ip[t] \in Joins(script, t) /\ child \in Code[script][t][ip[t]].children
    BY <1>3 DEF Joins, Here
  <1> QED
    BY <1>3, <1>5, <1>6 DEF RacesApart

\* A thread that can tell others knows of no access.
LEMMA NothingToTell ==
    ASSUME IndInv, RacesApart(script), KeptApart, NEW t \in Threads, Acts(t), TracesOf(t),
           ip[t] \in DOMAIN Code[script][t], Here(t).op \in {"yield", "release", "create"}
    PROVE  knows'[t] \cap Race = {}
  <1>1. ASSUME NEW i \in Nat, SilentFrom(script, t, i), ip[t] >= i PROVE FALSE
    BY <1>1 DEF SilentFrom, Here
  <1>2. ip[t] \in Nat /\ ip[t] >= ip[t]
    BY DEF IndInv, TypeInv, TypeOK
  <1>3. knows[t] \cap Race = {}
    <2> SUFFICES ASSUME NEW e \in knows[t] \cap Race PROVE FALSE
      OBVIOUS
    <2>1. PICK i \in Accesses(script, t) \cup Joins(script, t) : Beyond(t, i)
      BY DEF KeptApart
    <2>2. i \in Nat
      BY <2>1, InstructionFields DEF Accesses, Joins, IndInv, TypeInv, TypeOK
    <2> QED
      BY <1>1, <2>1, <2>2 DEF Beyond
  <1>4. Learned(t) \cap Race = {}
    BY LearnedAccess
  <1>5. News \cap Race = {}
    BY <1>1, <1>2, NewAccess
  <1> QED
    BY <1>3, <1>4, <1>5, NothingForgotten DEF Known

LEMMA PastStep ==
    ASSUME IndInv, ApartInv, NEW t \in Threads, Acts(t), TracesOf(t)
    PROVE  LeftBehind' \subseteq events' /\ \A u \in Threads : knows'[u] \subseteq events'
  <1>0. events \subseteq events'
    BY DEF TracesOf
  <1>1. Joined(t) \subseteq Threads
    BY InstructionFields DEF Joined, Here, IndInv, TypeInv, TypeOK
  <1>2. Learned(t) \subseteq events
    BY <1>1 DEF Learned, ApartInv, LeftBehind
  <1>3. Known(t) \cup News \subseteq events'
    BY <1>0, <1>2 DEF Known, News, ApartInv
  <1>4. \A u \in Threads : knows'[u] \subseteq events'
    BY <1>0, <1>3 DEF Acts, Learn, ApartInv
  <1>5. LeftBehind' \subseteq events'
    BY <1>0, <1>4 DEF Acts, Leave, ApartInv, LeftBehind
  <1> QED
    BY <1>4, <1>5

\* What is left for others, and what a created thread is given.
LEMMA LeftStep ==
    ASSUME IndInv, RacesApart(script), KeptApart, NEW t \in Threads, Acts(t), TracesOf(t)
    PROVE  LeftBehind' \cap Race = {}
  <1>1. pc[t] \in InCall => knows'[t] \cap Race = {}
    BY NothingToTell DEF IndInv, TypeInv, CallOK
  <1>2. left'.mutex = left.mutex \/ (pc[t] \in InCall /\ left'.mutex = knows'[t])
    BY GivesUpWithin DEF Acts, Leave, IndInv
  <1>3. left'.counter = left.counter \/ (pc[t] \in InCall /\ left'.counter = knows'[t])
    BY DEF Acts, Leave, InCall, Critical
  <1>4. left'.once = left.once \/ (pc[t] \in InCall /\ left'.once = knows'[t])
    BY DEF Acts, Leave, InCall
  <1> QED
    BY <1>1, <1>2, <1>3, <1>4 DEF KeptApart, LeftBehind

LEMMA GivenStep ==
    ASSUME IndInv, RacesApart(script), KeptApart, [Next]_vars,
           NEW t \in Threads, Acts(t), TracesOf(t), NEW u \in Threads, ~Born(u), Born(u)'
    PROVE  knows'[u] \cap Race = {}
  <1>1. Births
    BY BirthStep DEF IndInv
  <1>2. PICK creator \in Threads : At(creator, "create") /\ ip'[creator] = ip[creator] + 1
    BY <1>1 DEF Births
  <1>3. creator = t
    BY <1>2 DEF TracesOf, IndInv, TypeInv, TypeOK
  <1>4. knows'[t] \cap Race = {}
    BY <1>2, <1>3, NothingToTell DEF At
  <1>5. knows'[u] = knows'[t]
    BY DEF Acts, Learn, Born
  <1> QED
    BY <1>4, <1>5

\* What thread t knows when it has acted.
LEMMA ActorStep ==
    ASSUME IndInv, RacesApart(script), KeptApart, Orderly, Births,
           NEW t \in Threads, Acts(t), TracesOf(t), NEW e \in knows'[t] \cap Race
    PROVE  \E i \in Accesses(script, t) \cup Joins(script, t) :
             Beyond(t, i)' /\ (e[2] = ltid'[t] \/ \A n \in Accesses(script, t) : n < i)
  <1>0. /\ script \in Scripts /\ ltid'[t] = ltid[t] /\ Step(t)
        /\ \A i \in Accesses(script, t) \cup Joins(script, t) : i \in DOMAIN Code[script][t]
    BY OnlyTheBornAct DEF Births, Acts, Accesses, Joins, IndInv, TypeInv, TypeOK
  <1>1. ASSUME SilentFrom(script, t, ip[t]), ip[t] \in DOMAIN Code[script][t]
        PROVE  Beyond(t, ip[t])
    BY <1>1 DEF Beyond, IndInv, TypeInv, TypeOK
  <1>2. PICK i \in Accesses(script, t) \cup Joins(script, t) :
          Beyond(t, i) /\ (e[2] = ltid[t] \/ \A n \in Accesses(script, t) : n < i)
    <2>1. CASE e \in knows[t]
      BY <2>1 DEF KeptApart
    <2>2. CASE e \in Learned(t)
      BY <1>1, <2>2, LearnedAccess
    <2>3. CASE e \in News
      BY <1>1, <2>3, NewAccess
    <2> QED
      BY <2>1, <2>2, <2>3, NothingForgotten DEF Known
  <1>3. Beyond(t, i)'
    <2>1. PICK k : k = i
      OBVIOUS
    <2>2. Beyond(t, k)'
      BY <1>0, <1>2, <2>1, BeyondStays
    <2> QED
      BY <2>1, <2>2
  <1> QED
    BY <1>0, <1>2, <1>3

\* No access is known to the thread that executes the other one.
LEMMA OrderStep ==
    ASSUME IndInv, RacesApart(script), ApartInv, script' = script,
           NEW t \in Threads, Acts(t), TracesOf(t)
    PROVE  NothingOrdersRace'
  <1>0. KeptApart
    BY DEF ApartInv
  <1> SUFFICES ASSUME NEW p \in ThisCase.targets, NEW q \in ThisCase.targets,
                      <<ThisCase.happened[p], ThisCase.happened[q]>> \in before'
               PROVE  FALSE
    BY DEF NothingOrdersRace, HappensBefore, ThisCase
  <1> DEFINE e == ThisCase.happened[p]
             f == ThisCase.happened[q]
  <1>1. /\ e \in Race /\ f \in Race
        /\ e[2] = ThreadAt(script, p) /\ f[2] = ThreadAt(script, q)
    BY RaceFields DEF Race
  <1>2. e \in Known(t) /\ f \in News
    BY <1>0 DEF Acts, Order, KeptApart, NothingOrdersRace, HappensBefore
  <1>3. f[2] = ltid[t] /\ ip[t] \in Accesses(script, t) /\ ip[t] \in DOMAIN Code[script][t]
    BY <1>1, <1>2, NewAccess
  <1>4. ip[t] \in Nat /\ \A n \in DOMAIN Code[script][t] : n \in Nat
    BY InstructionFields DEF IndInv, TypeInv, TypeOK
  <1>5. CASE e \in knows[t]
    <2>1. PICK i \in Accesses(script, t) \cup Joins(script, t) :
            Beyond(t, i) /\ (e[2] = ltid[t] \/ \A n \in Accesses(script, t) : n < i)
      BY <1>0, <1>1, <1>5 DEF KeptApart
    <2>2. i \in Nat /\ ip[t] >= i
      BY <1>3, <1>4, <2>1 DEF Beyond, Accesses, Joins
    <2>3. e[2] = ltid[t]
      BY <1>3, <1>4, <2>1, <2>2
    <2>4. p = q
      BY <1>1, <1>3, <2>3 DEF RacesApart, ThisCase
    <2> QED
      BY <1>2, <1>5, <2>4 DEF News, ApartInv
  <1>6. CASE e \in Learned(t)
    <2>1. \A n \in Accesses(script, t) : n < ip[t]
      BY <1>0, <1>1, <1>6, LearnedAccess
    <2> QED
      BY <1>3, <1>4, <2>1
  <1> QED
    BY <1>2, <1>5, <1>6 DEF Known

LEMMA ApartStep == ReplayInv /\ ApartInv /\ [HBNext]_<<vars, hbVars>> => ApartInv'
  <1> SUFFICES ASSUME ReplayInv, ApartInv, [HBNext]_<<vars, hbVars>> PROVE ApartInv'
    OBVIOUS
  <1>0. /\ IndInv /\ [Next]_vars /\ Orderly /\ script' = script /\ Births
        /\ (\E t \in Threads : Acts(t)) \/ Quiet
    BY HBSteps, OrderlyStep, BirthStep DEF ReplayInv, IndInv, Orderly
  <1>1. /\ RacesApart(script)' = RacesApart(script) /\ Race' = Race
        /\ \A t : Accesses(script, t)' = Accesses(script, t)
        /\ \A t : Joins(script, t)' = Joins(script, t)
    BY <1>0 DEF RacesApart, Race, ThisCase, Accesses, Joins
  <1>2. ASSUME NEW t \in Threads, Acts(t) PROVE ApartInv'
    <2>1. TracesOf(t)
      BY <1>0, <1>2, StepTraces DEF Acts
    <2>2. LeftBehind' \subseteq events' /\ \A u \in Threads : knows'[u] \subseteq events'
      BY <1>0, <1>2, <2>1, PastStep
    <2>3. ASSUME RacesApart(script) PROVE KeptApart'
      <3>0. KeptApart
        BY <2>3 DEF ApartInv
      <3>1. LeftBehind' \cap Race = {}
        BY <1>0, <1>2, <2>1, <2>3, <3>0, LeftStep
      <3>2. ASSUME NEW u \in Threads, NEW e \in knows'[u] \cap Race
            PROVE  /\ Born(u)'
                   /\ \E i \in Accesses(script, u) \cup Joins(script, u) :
                        /\ Beyond(u, i)'
                        /\ e[2] = ltid'[u] \/ \A n \in Accesses(script, u) : n < i
        <4>1. CASE u = t
          BY <1>0, <1>2, <2>1, <2>3, <3>0, <3>2, <4>1, ActorStep, OnlyTheBornAct DEF Births, Acts
        <4>2. CASE u # t
          <5>1. Born(u) \/ ~Born(u)'
            BY <1>0, <1>2, <2>1, <2>3, <3>0, <3>2, GivenStep
          <5>2. e \in knows[u]
            BY <1>2, <3>2, <4>2, <5>1 DEF Acts, Learn, Born
          <5>3. Born(u) /\ ltid'[u] = ltid[u] /\ ip'[u] = ip[u]
            BY <1>0, <2>1, <3>0, <3>2, <4>2, <5>2 DEF KeptApart, Births, TracesOf
          <5>4. \A i : Beyond(u, i) => Beyond(u, i)'
            BY <1>0, <5>3 DEF Beyond, SilentFrom
          <5> QED
            BY <1>0, <3>0, <3>2, <5>2, <5>3, <5>4 DEF KeptApart, Births
        <4> QED
          BY <4>1, <4>2
      <3>3. NothingOrdersRace'
        BY <1>0, <1>2, <2>1, <2>3, OrderStep
      <3> QED
        BY <1>1, <3>1, <3>2, <3>3 DEF KeptApart
    <2> QED
      BY <1>1, <2>2, <2>3 DEF ApartInv
  <1>3. CASE Quiet
    <2>1. /\ UNCHANGED <<knows, left, before, events, ip, ltid, script>>
          /\ \A t \in Threads : Born(t)' = Born(t)
      BY <1>3 DEF Quiet, hbVars, Born
    <2>2. \A t, i : Beyond(t, i)' = Beyond(t, i)
      BY <2>1 DEF Beyond
    <2>3. LeftBehind' = LeftBehind /\ NothingOrdersRace' = NothingOrdersRace
      BY <2>1 DEF LeftBehind, NothingOrdersRace, HappensBefore, ThisCase
    <2>4. KeptApart => KeptApart'
      BY <1>1, <2>1, <2>2, <2>3 DEF KeptApart
    <2> QED
      BY <1>1, <2>1, <2>3, <2>4 DEF ApartInv
  <1> QED
    BY <1>0, <1>2, <1>3

\* Nothing orders the racing accesses, in no interleaving and for no number of
\* threads: what the instrumentation itself synchronises never lets one know of
\* the other, so it cannot hide the race from the sanitizer.  (README.md:19.)
THEOREM RaceStaysVisible ==
    HBSafeSpec => [](RacesApart(script) => NothingOrdersRace)
  <1>1. HBInit => ApartInv
    BY DEF HBInit, ApartInv, KeptApart, LeftBehind, NothingOrdersRace, HappensBefore
  <1>2. ApartInv => (RacesApart(script) => NothingOrdersRace)
    BY DEF ApartInv, KeptApart
  <1> QED
    BY <1>1, <1>2, ApartStep, ReplayInvariance, PTL DEF HBSafeSpec

=============================================================================
