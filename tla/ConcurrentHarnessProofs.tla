----------------------- MODULE ConcurrentHarnessProofs -----------------------
(***************************************************************************)
(* Proofs about ConcurrentHarness, for any number of threads, any slots    *)
(* and any instrumented programs.                                          *)
(***************************************************************************)
EXTENDS ConcurrentHarness, TLAPS

-----------------------------------------------------------------------------
(* Types.                                                                  *)

\* Which instruction a thread is at inside of a call, and on which thread.
CallOK ==
    \A t \in Threads :
      /\ pc[t] \in InCall \union {"judgeMatches", "judgeHolds"} =>
           ip[t] \in DOMAIN Code[script][t]
      /\ pc[t] \in InCall =>
           Here(t).op \in {"yield", "release"} /\ ltid[t] = Here(t).tid
      /\ pc[t] \in {"bcast", "test", "wait", "asleep", "wake"} =>
           Here(t).op = "yield"
      /\ pc[t] \in {"store", "signal"} => Here(t).op = "release"
      /\ pc[t] \in {"judgeMatches", "judgeHolds"} => Here(t).op = "assume"
      /\ pc[t] = "unborn" => ip[t] = 1

TypeInv == TypeOK /\ CallOK

LEMMA InstructionFields ==
    ASSUME NEW s \in Scripts, NEW t \in Threads, NEW i \in DOMAIN Code[s][t]
    PROVE  /\ Code[s][t][i].slot \in Slots
           /\ Code[s][t][i].slot \in Nat
           /\ Code[s][t][i].tid \in Int
           /\ Code[s][t][i].line \in Nat
           /\ Code[s][t][i].val \in Int
           /\ Code[s][t][i].yes \in Nat
           /\ Code[s][t][i].no \in Nat
           /\ Code[s][t][i].alts \in Seq(Alternative)
           /\ Code[s][t][i].children \subseteq Threads
           /\ i \in Nat \ {0}
  <1>1. Code[s][t] \in Seq(Instruction)
    BY CodeAssumption
  <1>2. Code[s][t][i] \in Instruction /\ i \in Nat \ {0}
    BY <1>1
  <1> QED
    BY <1>2, SlotsAssumption DEF Instruction

\* And those of a link of a chain.
LEMMA LinkFields ==
    ASSUME NEW s \in Scripts, NEW t \in Threads, NEW i \in DOMAIN Code[s][t],
           NEW c \in DOMAIN Code[s][t][i].alts
    PROVE  /\ Code[s][t][i].alts[c].slot \in Nat
           /\ Code[s][t][i].alts[c].tid \in Int
           /\ Code[s][t][i].alts[c].id \in Int
           /\ c \in 1..Len(Code[s][t][i].alts)
  <1>1. Code[s][t][i].alts \in Seq(Alternative)
    BY InstructionFields
  <1>2. Code[s][t][i].alts[c] \in Alternative
    BY <1>1
  <1>3. c \in 1..Len(Code[s][t][i].alts)
    BY <1>1
  <1> HIDE DEF Alternative
  <1>4. \A link \in Alternative : link.slot \in Nat /\ link.tid \in Int /\ link.id \in Int
    BY SlotsAssumption DEF Alternative
  <1> QED
    BY <1>2, <1>3, <1>4

LEMMA EventIntro ==
    ASSUME NEW kind \in {"stmt", "match", "miss", "create"}, NEW i \in Int, NEW n \in Nat
    PROVE  <<kind, i, n>> \in Event
  BY DEF Event

\* What a guard leaves in the history is well typed.
LEMMA ConsultedTyped ==
    ASSUME TypeInv, NEW t \in Threads, ip[t] \in DOMAIN Code[script][t]
    PROVE  Consulted(t) \subseteq Event
  <1>1. ltid[t] \in Int /\ Here(t).slot \in Nat
    BY InstructionFields DEF TypeInv, TypeOK, Here
  <1>2. <<IF Matches(t) \/ DueLinks(t) # {} THEN "match" ELSE "miss", ltid[t], Here(t).slot>>
          \in Event
    BY <1>1, EventIntro
  <1> QED
    BY <1>2 DEF Consulted

\* And so is what a statement leaves there.
LEMMA StatementTyped ==
    ASSUME TypeInv, NEW t \in Threads, ip[t] \in DOMAIN Code[script][t]
    PROVE  Executed(t) \subseteq Event
  <1>1. ltid[t] \in Int /\ Here(t).line \in Nat
    BY InstructionFields DEF TypeInv, TypeOK, Here
  <1>2. <<"stmt", ltid[t], Here(t).line>> \in Event
    BY <1>1, EventIntro
  <1> QED
    BY <1>2 DEF Executed

\* A pin assigns one of its values, or what the stub returns.
LEMMA PinValue ==
    ASSUME TypeInv, NEW t \in Threads, Pin(t)
    PROVE  \E value \in Int : mem' = [mem EXCEPT ![Here(t).var] = value]
  <1>1. script \in Scripts /\ ip[t] \in DOMAIN Code[script][t]
    BY DEF TypeInv, TypeOK, Pin, At
  <1>2. Here(t).val \in Int
    BY <1>1, InstructionFields DEF Here
  <1>3. \A c \in DueLinks(t) : Here(t).alts[c].id \in Int
    BY <1>1, LinkFields DEF DueLinks, Here
  <1>4. \/ mem' = [mem EXCEPT ![Here(t).var] = Here(t).val]
        \/ \E c \in DueLinks(t) : mem' = [mem EXCEPT ![Here(t).var] = Here(t).alts[c].id]
        \/ mem' = [mem EXCEPT ![Here(t).var] = 0]
    BY DEF Pin
  <1> QED
    BY <1>2, <1>3, <1>4

LEMMA TypeInit == Init => TypeInv
  <1> SUFFICES ASSUME Init PROVE TypeInv
    OBVIOUS
  <1>1. TypeOK
    <2>1. pc \in [Threads -> Labels] /\ ip \in [Threads -> Nat]
      BY DEF Init, Labels
    <2>2. ltid \in [Threads -> Int] /\ cursor \in [Threads -> Nat \ {0}]
      BY DEF Init, Unnumbered
    <2>3. mem \in [Vars -> Int] /\ finalSlot \in Int
      BY DEF Init
    <2> QED
      BY <2>1, <2>2, <2>3 DEF Init, TypeOK
  <1>2. CallOK
    BY DEF Init, CallOK, InCall, Critical
  <1> QED
    BY <1>1, <1>2 DEF TypeInv

LEMMA TypeStep == TypeInv /\ [Next]_vars => TypeInv'
  <1> SUFFICES ASSUME TypeInv, [Next]_vars PROVE TypeInv'
    OBVIOUS
  <1> USE DEF TypeInv, TypeOK, CallOK, Labels, InCall, Critical, Here, At, In,
              Goto, Resume, ResumeAt, Running, syncVars, outputVars, threadVars
  <1>1. ASSUME NEW t \in Threads, EnterCall(t) PROVE TypeInv'
    BY <1>1, SMTT(40) DEF EnterCall
  <1>2. ASSUME NEW t \in Threads, CallOnce(t) PROVE TypeInv'
    BY <1>2 DEF CallOnce
  <1>3. ASSUME NEW t \in Threads, Initialize(t) PROVE TypeInv'
    BY <1>3 DEF Initialize
  <1>4. ASSUME NEW t \in Threads, Lock(t) PROVE TypeInv'
    BY <1>4 DEF Lock
  <1>5. ASSUME NEW t \in Threads, Check(t) PROVE TypeInv'
    BY <1>5 DEF Check
  <1>6. ASSUME NEW t \in Threads, Announce(t) PROVE TypeInv'
    BY <1>6 DEF Announce, Wake
  <1>7. ASSUME NEW t \in Threads, Test(t) PROVE TypeInv'
    BY <1>7 DEF Test
  <1>8. ASSUME NEW t \in Threads, Wait(t) PROVE TypeInv'
    BY <1>8 DEF Wait
  <1>9. ASSUME NEW t \in Threads, SpuriousWakeup(t) PROVE TypeInv'
    BY <1>9 DEF SpuriousWakeup
  <1>10. ASSUME NEW t \in Threads, Reacquire(t) PROVE TypeInv'
    BY <1>10 DEF Reacquire
  <1>11. ASSUME NEW t \in Threads, Store(t) PROVE TypeInv'
    <2>1. Here(t).slot \in Nat
      BY <1>11, InstructionFields DEF Store
    <2> QED
      BY <1>11, <2>1 DEF Store
  <1>12. ASSUME NEW t \in Threads, Signal(t) PROVE TypeInv'
    BY <1>12 DEF Signal, Wake
  <1>13. ASSUME NEW t \in Threads, Unlock(t) PROVE TypeInv'
    BY <1>13 DEF Unlock
  <1>14. ASSUME NEW t \in Threads, AssumeFirstArgument(t) PROVE TypeInv'
    <2>1. ip[t] \in DOMAIN Code[script][t]
      BY <1>14 DEF AssumeFirstArgument
    <2>2. Consulted(t) \subseteq Event
      BY <2>1, ConsultedTyped
    <2> QED
      BY <1>14, <2>1, <2>2 DEF AssumeFirstArgument
  <1>15. ASSUME NEW t \in Threads, AssumeSecondArgument(t) PROVE TypeInv'
    <2>1. ip[t] \in DOMAIN Code[script][t]
      BY <1>15 DEF AssumeSecondArgument
    <2>2. Consulted(t) \subseteq Event
      BY <2>1, ConsultedTyped
    <2> QED
      BY <1>15, <2>1, <2>2 DEF AssumeSecondArgument
  <1>16. ASSUME NEW t \in Threads, Pin(t) PROVE TypeInv'
    <2>1. ip[t] \in DOMAIN Code[script][t]
      BY <1>16 DEF Pin
    <2>2. Consulted(t) \subseteq Event /\ Executed(t) \subseteq Event
      BY <2>1, ConsultedTyped, StatementTyped
    <2> QED
      <3>1. mem' \in [Vars -> Int]
        <4>1. PICK value \in Int : mem' = [mem EXCEPT ![Here(t).var] = value]
          BY <1>16, PinValue
        <4> QED
          BY <4>1
      <3>2. events' \subseteq Event
        BY <1>16, <2>2 DEF Pin
      <3>3. /\ pc[t] = "run" /\ Goto(t, "run") /\ ip' = [ip EXCEPT ![t] = ip[t] + 1]
            /\ UNCHANGED <<script, ltid, cursor, syncVars, finalSlot, outputVars>>
        BY <1>16 DEF Pin
      <3>4. TypeOK'
        BY <3>1, <3>2, <3>3
      <3>5. CallOK'
        BY <3>3
      <3> QED
        BY <3>4, <3>5
  <1>17. ASSUME NEW t \in Threads, SetFinalSlot(t) PROVE TypeInv'
    BY <1>17, InstructionFields DEF SetFinalSlot
  <1>18. ASSUME NEW t \in Threads, Statement(t) PROVE TypeInv'
    <2>1. ip[t] \in DOMAIN Code[script][t]
      BY <1>18 DEF Statement
    <2>2. Executed(t) \subseteq Event
      BY <2>1, StatementTyped
    <2>3. Here(t).val \in Int
      BY <2>1, InstructionFields
    <2> QED
      <3>1. mem' \in [Vars -> Int]
        BY <1>18, <2>3 DEF Statement
      <3>2. events' \subseteq Event
        BY <1>18, <2>2 DEF Statement
      <3>3. TypeOK'
        BY <1>18, <3>1, <3>2 DEF Statement
      <3>4. CallOK'
        BY <1>18 DEF Statement
      <3> QED
        BY <3>3, <3>4
  <1>19. ASSUME NEW t \in Threads, Branch(t) PROVE TypeInv'
    <2>1. ip[t] \in DOMAIN Code[script][t]
      BY <1>19 DEF Branch
    <2>2. Here(t).yes \in Nat /\ Here(t).no \in Nat
      BY <2>1, InstructionFields
    <2>3. Executed(t) \subseteq Event
      BY <2>1, StatementTyped
    <2> QED
      BY <1>19, <2>2, <2>3 DEF Branch
  <1>20. ASSUME NEW t \in Threads, TryAlternative(t) PROVE TypeInv'
    BY <1>20 DEF TryAlternative
  <1>21. ASSUME NEW t \in Threads, Create(t) PROVE TypeInv'
    <2>1. ip[t] \in DOMAIN Code[script][t]
      BY <1>21 DEF Create
    <2>2. Executed(t) \subseteq Event
      BY <2>1, StatementTyped
    <2>3. PICK child \in Here(t).children :
            /\ pc[child] = "unborn"
            /\ pc' = [pc EXCEPT ![child] = "proxy"]
            /\ ltid' = [ltid EXCEPT ![child] = NewId(t)]
      BY <1>21 DEF Create
    <2>4. NewId(t) \in Int
      <3>1. Here(t).alts \in Seq(Alternative)
        BY <2>1, InstructionFields
      <3>2. cursor[t] <= Len(Here(t).alts) => cursor[t] \in DOMAIN Here(t).alts
        BY <3>1
      <3>3. cursor[t] <= Len(Here(t).alts) => Here(t).alts[cursor[t]] \in Alternative
        BY <3>1, <3>2
      <3> QED
        BY <3>3 DEF NewId, Unnumbered, Alternative
    <2>5. child \in Threads
      BY <2>1, InstructionFields
    <2> QED
      <3>1. events' \subseteq Event
        <4>1. Numbered(t) \subseteq Event
          BY <2>4, EventIntro DEF Numbered
        <4> QED
          BY <1>21, <2>2, <4>1 DEF Create
      <3>2. ltid' \in [Threads -> Int] /\ pc' \in [Threads -> Labels]
        BY <2>3, <2>4, <2>5
      <3>3. ip' \in [Threads -> Nat] /\ cursor' \in [Threads -> Nat \ {0}]
        BY <1>21 DEF Create
      <3>4. TypeOK'
        BY <1>21, <3>1, <3>2, <3>3 DEF Create
      <3>5. CallOK'
        BY <1>21, <2>3 DEF Create
      <3> QED
        BY <3>4, <3>5
  <1>22. ASSUME NEW t \in Threads, ThreadProxy(t) PROVE TypeInv'
    BY <1>22 DEF ThreadProxy
  <1>23. ASSUME NEW t \in Threads, Join(t) PROVE TypeInv'
    <2>1. Executed(t) \subseteq Event
      BY <1>23, StatementTyped DEF Join
    <2> QED
      BY <1>23, <2>1 DEF Join
  <1>24. ASSUME NEW t \in Threads, ReachError(t) PROVE TypeInv'
    <2>1. Executed(t) \subseteq Event
      BY <1>24, StatementTyped DEF ReachError
    <2> QED
      BY <1>24, <2>1 DEF ReachError
  <1>25. ASSUME NEW t \in Threads, Report(t) PROVE TypeInv'
    BY <1>25 DEF Report
  <1>26. ASSUME NEW t \in Threads, ExitWithError(t) PROVE TypeInv'
    BY <1>26 DEF ExitWithError
  <1>27. ASSUME NEW t \in Threads, Finish(t) PROVE TypeInv'
    BY <1>27 DEF Finish
  <1>28. CASE ProcessEnds
    BY <1>28 DEF ProcessEnds
  <1>29. CASE UNCHANGED vars
    BY <1>29 DEF vars
  <1> QED
    BY <1>1, <1>2, <1>3, <1>4, <1>5, <1>6, <1>7, <1>8, <1>9, <1>10, <1>11,
       <1>12, <1>13, <1>14, <1>15, <1>16, <1>17, <1>18, <1>19, <1>20, <1>21,
       <1>22, <1>23, <1>24, <1>25, <1>26, <1>27, <1>28, <1>29
    DEF Next, Step, Exited

\* Every variable keeps its type, and a thread inside of yield or release is
\* at a call meant for it, whatever the programs and the threads do.
THEOREM TypeCorrect == SafeSpec => []TypeInv
  <1>1. Init => TypeInv
    BY TypeInit
  <1>2. TypeInv /\ [Next]_vars => TypeInv'
    BY TypeStep
  <1> QED
    BY <1>1, <1>2, PTL DEF SafeSpec

\* The types that the run of TLC checks.
THEOREM TypesHold == SafeSpec => []TypeOK
  <1>1. TypeInv => TypeOK
    BY DEF TypeInv
  <1> QED
    BY <1>1, TypeCorrect, PTL

-----------------------------------------------------------------------------
(* The mutex and what it protects.                                         *)

MutexOK == \A t \in Threads : pc[t] \in Critical <=> owner = t

OnceOK ==
    /\ \A t \in Threads : pc[t] = "init" => once = "running"
    /\ OneInitialization

\* What a thread has read of the counter still holds: only the owner of the
\* mutex changes it.  And release returns when its segment is over.
CounterOK ==
    \A t \in Threads :
      /\ pc[t] = "store" => counter <= Here(t).slot
      /\ pc[t] = "wait" => counter < Here(t).slot
      /\ pc[t] \in {"signal", "unlock"} /\ Here(t).op = "release" => counter > Here(t).slot

SyncInv == MutexOK /\ OnceOK /\ CounterOK /\ YieldReturnsDue /\ NoLostWakeup

IndInv == TypeInv /\ SyncInv

\* A step outside of the calls, in which a thread may at most enter one.
Outside ==
    /\ UNCHANGED <<script, syncVars>>
    /\ \A u \in Threads :
         \/ pc'[u] = pc[u] /\ ip'[u] = ip[u]
         \/ pc[u] \notin InCall /\ pc'[u] \notin InCall \ {"once"}

LEMMA OutsideKeepsSync == SyncInv /\ Outside => SyncInv'
  <1> SUFFICES ASSUME SyncInv, Outside PROVE SyncInv'
    OBVIOUS
  <1> USE DEF SyncInv, Outside, InCall, Critical, syncVars, Here
  <1>1. MutexOK'
    BY DEF MutexOK
  <1>2. OnceOK'
    BY DEF OnceOK, OneInitialization
  <1>3. CounterOK'
    BY DEF CounterOK
  <1>4. YieldReturnsDue'
    BY DEF YieldReturnsDue
  <1>5. NoLostWakeup'
    BY DEF NoLostWakeup
  <1> QED
    BY <1>1, <1>2, <1>3, <1>4, <1>5

LEMMA SyncInit == Init => SyncInv
  BY ThreadsAssumption
  DEF Init, SyncInv, MutexOK, OnceOK, OneInitialization, CounterOK,
      YieldReturnsDue, NoLostWakeup, InCall, Critical

LEMMA SyncStep == IndInv /\ [Next]_vars => SyncInv'
  <1> SUFFICES ASSUME IndInv, [Next]_vars PROVE SyncInv'
    OBVIOUS
  <1> USE DEF At, In, Goto, Resume, ResumeAt, syncVars, outputVars, threadVars,
              InCall, Critical
  <1>t. pc \in [Threads -> Labels] /\ ip \in [Threads -> Nat]
    BY DEF IndInv, TypeInv, TypeOK
  <1>s. SyncInv
    BY DEF IndInv
  \* A thread in a call is at an instruction whose slot is a number.
  <1>h. \A u \in Threads : pc[u] \in InCall => Here(u).slot \in Nat /\ counter \in Nat
    BY InstructionFields DEF IndInv, TypeInv, TypeOK, CallOK, Here
  <1>c. CallOK
    BY DEF IndInv, TypeInv
  <1>o. once \in {"fresh", "running", "ready"}
    BY DEF IndInv, TypeInv, TypeOK
  <1>1. ASSUME NEW t \in Threads, EnterCall(t) PROVE SyncInv'
    <2>1. Outside
      BY <1>1, <1>t DEF EnterCall, Outside
    <2> QED
      BY <1>s, <2>1, OutsideKeepsSync
  <1>2. ASSUME NEW t \in Threads, CallOnce(t) PROVE SyncInv'
    <2>1. MutexOK'
      BY <1>2, <1>t, <1>s
      DEF SyncInv, MutexOK, CallOnce
    <2>2. OnceOK'
      BY <1>2, <1>t, <1>s, <1>o
      DEF SyncInv, OnceOK, OneInitialization, CallOnce
    <2>3. CounterOK'
      BY <1>2, <1>t, <1>s
      DEF SyncInv, CounterOK, Here, CallOnce
    <2>4. YieldReturnsDue'
      BY <1>2, <1>t, <1>s
      DEF SyncInv, YieldReturnsDue, Here, CallOnce
    <2>5. NoLostWakeup'
      BY <1>2, <1>t, <1>s
      DEF SyncInv, NoLostWakeup, Here, CallOnce
    <2> QED
      BY <2>1, <2>2, <2>3, <2>4, <2>5 DEF SyncInv
  <1>3. ASSUME NEW t \in Threads, Initialize(t) PROVE SyncInv'
    <2>1. MutexOK'
      BY <1>3, <1>t, <1>s
      DEF SyncInv, MutexOK, Initialize
    <2>2. OnceOK'
      BY <1>3, <1>t, <1>s
      DEF SyncInv, OnceOK, OneInitialization, Initialize
    <2>3. CounterOK'
      BY <1>3, <1>t, <1>s
      DEF SyncInv, CounterOK, Here, Initialize
    <2>4. YieldReturnsDue'
      BY <1>3, <1>t, <1>s
      DEF SyncInv, YieldReturnsDue, Here, Initialize
    <2>5. NoLostWakeup'
      BY <1>3, <1>t, <1>s
      DEF SyncInv, NoLostWakeup, Here, Initialize
    <2> QED
      BY <2>1, <2>2, <2>3, <2>4, <2>5 DEF SyncInv
  <1>4. ASSUME NEW t \in Threads, Lock(t) PROVE SyncInv'
    <2>1. MutexOK'
      BY <1>4, <1>t, <1>s, ThreadsAssumption
      DEF SyncInv, MutexOK, Lock
    <2>2. OnceOK'
      BY <1>4, <1>t, <1>s
      DEF SyncInv, OnceOK, OneInitialization, Lock
    <2>3. CounterOK'
      BY <1>4, <1>t, <1>s
      DEF SyncInv, CounterOK, Here, Lock
    <2>4. YieldReturnsDue'
      BY <1>4, <1>t, <1>s
      DEF SyncInv, YieldReturnsDue, Here, Lock
    <2>5. NoLostWakeup'
      BY <1>4, <1>t, <1>s
      DEF SyncInv, NoLostWakeup, Here, Lock
    <2> QED
      BY <2>1, <2>2, <2>3, <2>4, <2>5 DEF SyncInv
  <1>5. ASSUME NEW t \in Threads, Check(t) PROVE SyncInv'
    <2>1. MutexOK'
      BY <1>5, <1>t, <1>s
      DEF SyncInv, MutexOK, Check, YieldGoesOn, ReleaseIsLate
    <2>2. OnceOK'
      BY <1>5, <1>t, <1>s
      DEF SyncInv, OnceOK, OneInitialization, Check, YieldGoesOn, ReleaseIsLate
    <2>3. CounterOK'
      BY <1>5, <1>t, <1>s, <1>h, <1>c
      DEF SyncInv, CounterOK, Here, CallOK, Check, YieldGoesOn, ReleaseIsLate
    <2>4. YieldReturnsDue'
      BY <1>5, <1>t, <1>s, <1>h, <1>c
      DEF SyncInv, YieldReturnsDue, Here, CallOK, Check, YieldGoesOn, ReleaseIsLate
    <2>5. NoLostWakeup'
      BY <1>5, <1>t, <1>s, <1>h, <1>c
      DEF SyncInv, NoLostWakeup, Here, CallOK, Check, YieldGoesOn, ReleaseIsLate
    <2> QED
      BY <2>1, <2>2, <2>3, <2>4, <2>5 DEF SyncInv
  <1>6. ASSUME NEW t \in Threads, Announce(t) PROVE SyncInv'
    <2>1. MutexOK'
      BY <1>6, <1>t, <1>s
      DEF SyncInv, MutexOK, Announce, Wake
    <2>2. OnceOK'
      BY <1>6, <1>t, <1>s
      DEF SyncInv, OnceOK, OneInitialization, Announce, Wake
    <2>3. CounterOK'
      BY <1>6, <1>t, <1>s
      DEF SyncInv, CounterOK, Here, Announce, Wake
    <2>4. YieldReturnsDue'
      BY <1>6, <1>t, <1>s
      DEF SyncInv, YieldReturnsDue, Here, Announce, Wake
    <2>5. NoLostWakeup'
      BY <1>6, <1>t, <1>s
      DEF SyncInv, NoLostWakeup, Here, Announce, Wake
    <2> QED
      BY <2>1, <2>2, <2>3, <2>4, <2>5 DEF SyncInv
  <1>7. ASSUME NEW t \in Threads, Test(t) PROVE SyncInv'
    <2>1. MutexOK'
      BY <1>7, <1>t, <1>s
      DEF SyncInv, MutexOK, Test
    <2>2. OnceOK'
      BY <1>7, <1>t, <1>s
      DEF SyncInv, OnceOK, OneInitialization, Test
    <2>3. CounterOK'
      BY <1>7, <1>t, <1>s, <1>h, <1>c
      DEF SyncInv, CounterOK, Here, CallOK, Test
    <2>4. YieldReturnsDue'
      BY <1>7, <1>t, <1>s, <1>h, <1>c
      DEF SyncInv, YieldReturnsDue, Here, CallOK, Test
    <2>5. NoLostWakeup'
      BY <1>7, <1>t, <1>s, <1>h, <1>c
      DEF SyncInv, NoLostWakeup, Here, CallOK, Test
    <2> QED
      BY <2>1, <2>2, <2>3, <2>4, <2>5 DEF SyncInv
  <1>8. ASSUME NEW t \in Threads, Wait(t) PROVE SyncInv'
    <2>1. MutexOK'
      BY <1>8, <1>t, <1>s, ThreadsAssumption
      DEF SyncInv, MutexOK, Wait
    <2>2. OnceOK'
      BY <1>8, <1>t, <1>s
      DEF SyncInv, OnceOK, OneInitialization, Wait
    <2>3. CounterOK'
      BY <1>8, <1>t, <1>s, <1>h
      DEF SyncInv, CounterOK, Here, MutexOK, Wait
    <2>4. YieldReturnsDue'
      BY <1>8, <1>t, <1>s, <1>h
      DEF SyncInv, YieldReturnsDue, Here, MutexOK, CounterOK, Wait
    <2>5. NoLostWakeup'
      BY <1>8, <1>t, <1>s, <1>h
      DEF SyncInv, NoLostWakeup, Here, MutexOK, CounterOK, Wait
    <2> QED
      BY <2>1, <2>2, <2>3, <2>4, <2>5 DEF SyncInv
  <1>9. ASSUME NEW t \in Threads, SpuriousWakeup(t) PROVE SyncInv'
    <2>1. MutexOK'
      BY <1>9, <1>t, <1>s
      DEF SyncInv, MutexOK, SpuriousWakeup
    <2>2. OnceOK'
      BY <1>9, <1>t, <1>s
      DEF SyncInv, OnceOK, OneInitialization, SpuriousWakeup
    <2>3. CounterOK'
      BY <1>9, <1>t, <1>s
      DEF SyncInv, CounterOK, Here, SpuriousWakeup
    <2>4. YieldReturnsDue'
      BY <1>9, <1>t, <1>s
      DEF SyncInv, YieldReturnsDue, Here, SpuriousWakeup
    <2>5. NoLostWakeup'
      BY <1>9, <1>t, <1>s
      DEF SyncInv, NoLostWakeup, Here, SpuriousWakeup
    <2> QED
      BY <2>1, <2>2, <2>3, <2>4, <2>5 DEF SyncInv
  <1>10. ASSUME NEW t \in Threads, Reacquire(t) PROVE SyncInv'
    <2>1. MutexOK'
      BY <1>10, <1>t, <1>s, ThreadsAssumption
      DEF SyncInv, MutexOK, Reacquire
    <2>2. OnceOK'
      BY <1>10, <1>t, <1>s
      DEF SyncInv, OnceOK, OneInitialization, Reacquire
    <2>3. CounterOK'
      BY <1>10, <1>t, <1>s
      DEF SyncInv, CounterOK, Here, Reacquire
    <2>4. YieldReturnsDue'
      BY <1>10, <1>t, <1>s
      DEF SyncInv, YieldReturnsDue, Here, Reacquire
    <2>5. NoLostWakeup'
      BY <1>10, <1>t, <1>s
      DEF SyncInv, NoLostWakeup, Here, Reacquire
    <2> QED
      BY <2>1, <2>2, <2>3, <2>4, <2>5 DEF SyncInv
  <1>11. ASSUME NEW t \in Threads, Store(t) PROVE SyncInv'
    <2>1. MutexOK'
      BY <1>11, <1>t, <1>s
      DEF SyncInv, MutexOK, Store
    <2>2. OnceOK'
      BY <1>11, <1>t, <1>s
      DEF SyncInv, OnceOK, OneInitialization, Store
    <2>3. CounterOK'
      BY <1>11, <1>t, <1>s, <1>h, <1>c
      DEF SyncInv, CounterOK, Here, CallOK, MutexOK, Store
    <2>4. YieldReturnsDue'
      BY <1>11, <1>t, <1>s, <1>h, <1>c
      DEF SyncInv, YieldReturnsDue, Here, CallOK, MutexOK, CounterOK, Store
    <2>5. NoLostWakeup'
      BY <1>11, <1>t, <1>s, <1>h, <1>c
      DEF SyncInv, NoLostWakeup, Here, CallOK, MutexOK, CounterOK, Store
    <2> QED
      BY <2>1, <2>2, <2>3, <2>4, <2>5 DEF SyncInv
  <1>12. ASSUME NEW t \in Threads, Signal(t) PROVE SyncInv'
    <2>1. MutexOK'
      BY <1>12, <1>t, <1>s
      DEF SyncInv, MutexOK, Signal, Wake
    <2>2. OnceOK'
      BY <1>12, <1>t, <1>s
      DEF SyncInv, OnceOK, OneInitialization, Signal, Wake
    <2>3. CounterOK'
      BY <1>12, <1>t, <1>s
      DEF SyncInv, CounterOK, Here, Signal, Wake
    <2>4. YieldReturnsDue'
      BY <1>12, <1>t, <1>s, <1>c
      DEF SyncInv, YieldReturnsDue, Here, CallOK, Signal, Wake
    <2>5. NoLostWakeup'
      BY <1>12, <1>t, <1>s
      DEF SyncInv, NoLostWakeup, Here, MutexOK, Signal, Wake
    <2> QED
      BY <2>1, <2>2, <2>3, <2>4, <2>5 DEF SyncInv
  <1>13. ASSUME NEW t \in Threads, Unlock(t) PROVE SyncInv'
    <2>1. MutexOK'
      BY <1>13, <1>t, <1>s, ThreadsAssumption
      DEF SyncInv, MutexOK, Unlock
    <2>2. OnceOK'
      BY <1>13, <1>t, <1>s
      DEF SyncInv, OnceOK, OneInitialization, Unlock
    <2>3. CounterOK'
      BY <1>13, <1>t, <1>s
      DEF SyncInv, CounterOK, Here, MutexOK, Unlock
    <2>4. YieldReturnsDue'
      BY <1>13, <1>t, <1>s
      DEF SyncInv, YieldReturnsDue, Here, MutexOK, Unlock
    <2>5. NoLostWakeup'
      BY <1>13, <1>t, <1>s
      DEF SyncInv, NoLostWakeup, Here, MutexOK, Unlock
    <2> QED
      BY <2>1, <2>2, <2>3, <2>4, <2>5 DEF SyncInv
  <1>14. ASSUME NEW t \in Threads, AssumeFirstArgument(t) PROVE SyncInv'
    <2>1. Outside
      BY <1>14, <1>t DEF AssumeFirstArgument, Outside
    <2> QED
      BY <1>s, <2>1, OutsideKeepsSync
  <1>15. ASSUME NEW t \in Threads, AssumeSecondArgument(t) PROVE SyncInv'
    <2>1. Outside
      BY <1>15, <1>t DEF AssumeSecondArgument, Outside
    <2> QED
      BY <1>s, <2>1, OutsideKeepsSync
  <1>16. ASSUME NEW t \in Threads, Pin(t) PROVE SyncInv'
    <2>1. Outside
      BY <1>16, <1>t DEF Pin, Outside
    <2> QED
      BY <1>s, <2>1, OutsideKeepsSync
  <1>17. ASSUME NEW t \in Threads, SetFinalSlot(t) PROVE SyncInv'
    <2>1. Outside
      BY <1>17, <1>t DEF SetFinalSlot, Outside
    <2> QED
      BY <1>s, <2>1, OutsideKeepsSync
  <1>18. ASSUME NEW t \in Threads, Statement(t) PROVE SyncInv'
    <2>1. Outside
      BY <1>18, <1>t DEF Statement, Outside
    <2> QED
      BY <1>s, <2>1, OutsideKeepsSync
  <1>19. ASSUME NEW t \in Threads, Branch(t) PROVE SyncInv'
    <2>1. Outside
      BY <1>19, <1>t DEF Branch, Outside
    <2> QED
      BY <1>s, <2>1, OutsideKeepsSync
  <1>20. ASSUME NEW t \in Threads, TryAlternative(t) PROVE SyncInv'
    <2>1. Outside
      BY <1>20, <1>t DEF TryAlternative, Outside
    <2> QED
      BY <1>s, <2>1, OutsideKeepsSync
  <1>21. ASSUME NEW t \in Threads, Create(t) PROVE SyncInv'
    <2>1. Outside
      BY <1>21, <1>t DEF Create, Outside
    <2> QED
      BY <1>s, <2>1, OutsideKeepsSync
  <1>22. ASSUME NEW t \in Threads, ThreadProxy(t) PROVE SyncInv'
    <2>1. Outside
      BY <1>22, <1>t DEF ThreadProxy, Outside
    <2> QED
      BY <1>s, <2>1, OutsideKeepsSync
  <1>23. ASSUME NEW t \in Threads, Join(t) PROVE SyncInv'
    <2>1. Outside
      BY <1>23, <1>t DEF Join, Outside
    <2> QED
      BY <1>s, <2>1, OutsideKeepsSync
  <1>24. ASSUME NEW t \in Threads, ReachError(t) PROVE SyncInv'
    <2>1. Outside
      BY <1>24, <1>t DEF ReachError, Outside
    <2> QED
      BY <1>s, <2>1, OutsideKeepsSync
  <1>25. ASSUME NEW t \in Threads, Report(t) PROVE SyncInv'
    <2>1. Outside
      BY <1>25, <1>t DEF Report, Outside
    <2> QED
      BY <1>s, <2>1, OutsideKeepsSync
  <1>26. ASSUME NEW t \in Threads, ExitWithError(t) PROVE SyncInv'
    <2>1. Outside
      BY <1>26, <1>t DEF ExitWithError, Outside
    <2> QED
      BY <1>s, <2>1, OutsideKeepsSync
  <1>27. ASSUME NEW t \in Threads, Finish(t) PROVE SyncInv'
    <2>1. Outside
      BY <1>27, <1>t DEF Finish, Outside
    <2> QED
      BY <1>s, <2>1, OutsideKeepsSync
  <1>28. CASE ProcessEnds
    BY <1>28, <1>s, OutsideKeepsSync DEF ProcessEnds, Outside
  <1>29. CASE UNCHANGED vars
    BY <1>29, <1>s, OutsideKeepsSync DEF vars, Outside
  <1> QED
    BY <1>1, <1>2, <1>3, <1>4, <1>5, <1>6, <1>7, <1>8, <1>9, <1>10, <1>11,
       <1>12, <1>13, <1>14, <1>15, <1>16, <1>17, <1>18, <1>19, <1>20, <1>21,
       <1>22, <1>23, <1>24, <1>25, <1>26, <1>27, <1>28, <1>29
    DEF Next, Step, Exited

LEMMA Invariance == SafeSpec => []IndInv
  <1>1. Init => IndInv
    BY TypeInit, SyncInit DEF IndInv
  <1>2. IndInv /\ [Next]_vars => IndInv'
    BY TypeStep, SyncStep DEF IndInv
  <1> QED
    BY <1>1, <1>2, PTL DEF SafeSpec

\* No thread is left asleep with its segment due: the mutex held from the
\* check to the sleep, and from the store to the broadcast, is enough, however
\* many threads wait and for whatever slots.
THEOREM WakeupsNotLost == SafeSpec => []NoLostWakeup
  <1>1. IndInv => NoLostWakeup
    BY DEF IndInv, SyncInv
  <1> QED
    BY <1>1, Invariance, PTL

\* No thread leaves yield before its segment, by the early return or woken.
THEOREM YieldsReturnDue == SafeSpec => []YieldReturnsDue
  <1>1. IndInv => YieldReturnsDue
    BY DEF IndInv, SyncInv
  <1> QED
    BY <1>1, Invariance, PTL

\* The mutex is initialised once, and before it is first locked.
THEOREM InitializedOnce == SafeSpec => []OneInitialization
  <1>1. IndInv => OneInitialization
    BY DEF IndInv, SyncInv, OnceOK
  <1> QED
    BY <1>1, Invariance, PTL

-----------------------------------------------------------------------------
(* The segment counter.                                                    *)

LEMMA OnlyStoreCounts ==
    ASSUME [Next]_vars PROVE UNCHANGED counter \/ \E t \in Threads : Store(t)
  BY DEF Next, Step, Exited, vars, syncVars, EnterCall, CallOnce, Initialize,
         Lock, Check, Announce, Test, Wait, SpuriousWakeup, Reacquire, Signal,
         Unlock, AssumeFirstArgument, AssumeSecondArgument, Pin, SetFinalSlot,
         Statement, Branch, TryAlternative, Create, ThreadProxy, Join,
         ReachError, Report, ExitWithError, Finish, ProcessEnds

\* The counter never moves back: a release that finds it past its own slot
\* leaves it alone, and no other release comes between check and store.
THEOREM CounterNeverMovesBack == SafeSpec => CounterMonotone
  <1>1. IndInv /\ [Next]_vars => counter' >= counter
    <2> SUFFICES ASSUME IndInv, [Next]_vars PROVE counter' >= counter
      OBVIOUS
    <2>1. counter \in Nat
      BY DEF IndInv, TypeInv, TypeOK
    <2>2. ASSUME NEW t \in Threads, Store(t) PROVE counter' >= counter
      <3>1. pc[t] = "store" /\ counter' = Here(t).slot + 1
        BY <2>2 DEF Store, In
      <3>2. counter <= Here(t).slot
        BY <3>1 DEF IndInv, SyncInv, CounterOK
      <3>3. Here(t).slot \in Nat
        BY <3>1, InstructionFields
        DEF IndInv, TypeInv, TypeOK, CallOK, Here, InCall, Critical
      <3> QED
        BY <2>1, <3>1, <3>2, <3>3
    <2> QED
      BY <2>1, <2>2, OnlyStoreCounts
  <1> QED
    BY <1>1, Invariance, PTL DEF SafeSpec, CounterMonotone

-----------------------------------------------------------------------------
(* The calls implement SegmentGate.                                        *)

\* No thread enters or leaves a call.
KeepsWaiting ==
    /\ UNCHANGED script
    /\ \A u \in Threads :
         \/ ip'[u] = ip[u] /\ (pc'[u] \in InCall <=> pc[u] \in InCall)
         \/ pc'[u] \notin InCall /\ pc[u] \notin InCall

LEMMA StillWaiting == KeepsWaiting => UNCHANGED Waiting
  BY DEF KeepsWaiting, Waiting, Here

LEMMA GateInit == Init => Gate!Init
  BY DEF Init, Gate!Init, Waiting, InCall, Critical, Running

\* Every step of the program is a step of the gate, or none of its concern.
LEMMA GateStep == IndInv /\ [Next]_vars => [Gate!Next]_(Gate!gateVars)
  <1> SUFFICES ASSUME IndInv, [Next]_vars PROVE [Gate!Next]_(Gate!gateVars)
    OBVIOUS
  <1> USE DEF At, In, Goto, Resume, ResumeAt, syncVars, outputVars, threadVars,
              InCall, Critical
  <1>t. pc \in [Threads -> Labels] /\ ip \in [Threads -> Nat] /\ counter \in Nat
    BY DEF IndInv, TypeInv, TypeOK
  <1>c. CallOK
    BY DEF IndInv, TypeInv
  <1>h. \A u \in Threads : ip[u] \in DOMAIN Code[script][u] => Here(u).slot \in Slots
    BY InstructionFields DEF IndInv, TypeInv, TypeOK, Here
  \* A stutter, and the end of the process.
  <1>u. ASSUME KeepsWaiting, UNCHANGED <<counter, exitCode>>
        PROVE  UNCHANGED Gate!gateVars
    BY <1>u, StillWaiting DEF Gate!gateVars
  <1>x. ASSUME KeepsWaiting, UNCHANGED counter, exitCode = Running, exitCode' # Running
        PROVE  Gate!Halt
    BY <1>x, StillWaiting DEF Gate!Halt
  <1>1. ASSUME NEW t \in Threads, EnterCall(t)
        PROVE  Gate!Next \/ UNCHANGED Gate!gateVars
    <2>1. CASE ltid[t] # Here(t).tid \/ Here(t).op = "release"
      <3>1. Here(t).op = "release" \/ pc'[t] \notin InCall
        BY <1>1, <1>t, <2>1 DEF EnterCall
      <3>2. Waiting' = Waiting
        BY <1>1, <1>t, <2>1, <3>1 DEF EnterCall, Waiting, Here
      <3> QED
        BY <1>1, <3>2 DEF EnterCall, Gate!gateVars
    <2>2. CASE ltid[t] = Here(t).tid /\ Here(t).op = "yield"
      <3>1. Waiting[t] = -1
        BY <1>1 DEF EnterCall, Waiting
      <3>2. Waiting' = [Waiting EXCEPT ![t] = Here(t).slot]
        BY <1>1, <1>t, <2>2 DEF EnterCall, Waiting, Here
      <3>3. Gate!Arrive(t, Here(t).slot) /\ Here(t).slot \in Slots
        BY <1>1, <1>h, <3>1, <3>2 DEF EnterCall, Gate!Arrive
      <3> QED
        BY <3>3 DEF Gate!Next
    <2> QED
      BY <1>1, <2>1, <2>2 DEF EnterCall
  <1>2. ASSUME NEW t \in Threads, Store(t) PROVE Gate!Next
    <2>1. Waiting' = Waiting
      BY <1>2, <1>t, StillWaiting DEF Store, KeepsWaiting
    <2>2. counter <= Here(t).slot
      BY <1>2 DEF Store, IndInv, SyncInv, CounterOK
    <2>3. Here(t).slot \in Slots
      BY <1>2, <1>c, <1>h DEF Store, CallOK
    <2>4. Gate!Advance(Here(t).slot)
      BY <1>2, <2>1, <2>2 DEF Store, Gate!Advance
    <2> QED
      BY <2>3, <2>4 DEF Gate!Next
  <1>3. ASSUME NEW t \in Threads, Unlock(t)
        PROVE  Gate!Next \/ UNCHANGED Gate!gateVars
    <2>0. Here(t).op \in {"yield", "release"} /\ Here(t).slot \in Slots
      BY <1>3, <1>c, <1>h DEF Unlock, CallOK
    <2>1. CASE Here(t).op = "release"
      <3>1. Waiting' = Waiting
        BY <1>3, <1>t, <2>1 DEF Unlock, Waiting, Here
      <3> QED
        BY <1>3, <3>1 DEF Unlock, Gate!gateVars
    <2>2. CASE Here(t).op = "yield"
      <3>1. Waiting[t] = Here(t).slot
        BY <1>3, <2>2 DEF Unlock, Waiting
      <3>2. Waiting' = [Waiting EXCEPT ![t] = -1]
        BY <1>3, <1>t, <2>2 DEF Unlock, Waiting, Here
      <3>3. counter >= Waiting[t] /\ Waiting[t] # -1
        BY <1>3, <2>0, <2>2, <3>1, SlotsAssumption
        DEF Unlock, IndInv, SyncInv, YieldReturnsDue
      <3>4. Gate!Pass(t)
        BY <1>3, <3>2, <3>3 DEF Unlock, Gate!Pass
      <3> QED
        BY <3>4 DEF Gate!Next
    <2> QED
      BY <2>0, <2>1, <2>2
  \* Steps inside of a call, which the thread does not leave.
  <1>4. ASSUME NEW t \in Threads, CallOnce(t) PROVE UNCHANGED Gate!gateVars
    BY <1>4, <1>t, <1>u DEF CallOnce, KeepsWaiting
  <1>5. ASSUME NEW t \in Threads, Initialize(t) PROVE UNCHANGED Gate!gateVars
    BY <1>5, <1>t, <1>u DEF Initialize, KeepsWaiting
  <1>6. ASSUME NEW t \in Threads, Lock(t) PROVE UNCHANGED Gate!gateVars
    BY <1>6, <1>t, <1>u DEF Lock, KeepsWaiting
  <1>7. ASSUME NEW t \in Threads, Check(t) PROVE UNCHANGED Gate!gateVars
    BY <1>7, <1>t, <1>u DEF Check, KeepsWaiting
  <1>8. ASSUME NEW t \in Threads, Announce(t) PROVE UNCHANGED Gate!gateVars
    BY <1>8, <1>t, <1>u DEF Announce, Wake, KeepsWaiting
  <1>9. ASSUME NEW t \in Threads, Test(t) PROVE UNCHANGED Gate!gateVars
    BY <1>9, <1>t, <1>u DEF Test, KeepsWaiting
  <1>10. ASSUME NEW t \in Threads, Wait(t) PROVE UNCHANGED Gate!gateVars
    BY <1>10, <1>t, <1>u DEF Wait, KeepsWaiting
  <1>11. ASSUME NEW t \in Threads, SpuriousWakeup(t) PROVE UNCHANGED Gate!gateVars
    BY <1>11, <1>t, <1>u DEF SpuriousWakeup, KeepsWaiting
  <1>12. ASSUME NEW t \in Threads, Reacquire(t) PROVE UNCHANGED Gate!gateVars
    BY <1>12, <1>t, <1>u DEF Reacquire, KeepsWaiting
  <1>13. ASSUME NEW t \in Threads, Signal(t) PROVE UNCHANGED Gate!gateVars
    BY <1>13, <1>t, <1>u DEF Signal, Wake, KeepsWaiting
  \* Steps of the program itself.
  <1>14. ASSUME NEW t \in Threads, AssumeFirstArgument(t) PROVE UNCHANGED Gate!gateVars
    BY <1>14, <1>t, <1>u DEF AssumeFirstArgument, KeepsWaiting
  <1>15. ASSUME NEW t \in Threads, Pin(t) PROVE UNCHANGED Gate!gateVars
    BY <1>15, <1>t, <1>u DEF Pin, KeepsWaiting
  <1>16. ASSUME NEW t \in Threads, SetFinalSlot(t) PROVE UNCHANGED Gate!gateVars
    BY <1>16, <1>t, <1>u DEF SetFinalSlot, KeepsWaiting
  <1>17. ASSUME NEW t \in Threads, Statement(t) PROVE UNCHANGED Gate!gateVars
    BY <1>17, <1>t, <1>u DEF Statement, KeepsWaiting
  <1>18. ASSUME NEW t \in Threads, Branch(t) PROVE UNCHANGED Gate!gateVars
    BY <1>18, <1>t, <1>u DEF Branch, KeepsWaiting
  <1>19. ASSUME NEW t \in Threads, TryAlternative(t) PROVE UNCHANGED Gate!gateVars
    BY <1>19, <1>t, <1>u DEF TryAlternative, KeepsWaiting
  <1>20. ASSUME NEW t \in Threads, Create(t) PROVE UNCHANGED Gate!gateVars
    BY <1>20, <1>t, <1>u DEF Create, KeepsWaiting
  <1>21. ASSUME NEW t \in Threads, ThreadProxy(t) PROVE UNCHANGED Gate!gateVars
    BY <1>21, <1>t, <1>u DEF ThreadProxy, KeepsWaiting
  <1>22. ASSUME NEW t \in Threads, Join(t) PROVE UNCHANGED Gate!gateVars
    BY <1>22, <1>t, <1>u DEF Join, KeepsWaiting
  <1>23. ASSUME NEW t \in Threads, ReachError(t) PROVE UNCHANGED Gate!gateVars
    BY <1>23, <1>t, <1>u DEF ReachError, KeepsWaiting
  <1>24. ASSUME NEW t \in Threads, Report(t) PROVE UNCHANGED Gate!gateVars
    BY <1>24, <1>t, <1>u DEF Report, KeepsWaiting
  <1>25. ASSUME NEW t \in Threads, Finish(t) PROVE UNCHANGED Gate!gateVars
    BY <1>25, <1>t, <1>u DEF Finish, KeepsWaiting
  \* The ways the process ends.
  <1>26. ASSUME NEW t \in Threads, AssumeSecondArgument(t)
        PROVE  Gate!Halt \/ UNCHANGED Gate!gateVars
    <2>1. KeepsWaiting /\ UNCHANGED counter
      BY <1>26, <1>t DEF AssumeSecondArgument, KeepsWaiting
    <2>2. UNCHANGED exitCode \/ (exitCode = Running /\ exitCode' # Running)
      BY <1>26 DEF AssumeSecondArgument, Running
    <2> QED
      BY <2>1, <2>2, <1>u, <1>x
  <1>27. ASSUME NEW t \in Threads, ExitWithError(t) PROVE Gate!Halt
    BY <1>27, <1>x DEF ExitWithError, KeepsWaiting, Running
  <1>28. CASE ProcessEnds
    BY <1>28, <1>x DEF ProcessEnds, KeepsWaiting, Running, Gate!Next
  <1>29. CASE UNCHANGED vars
    BY <1>29, <1>u DEF vars, KeepsWaiting
  <1> QED
    BY <1>1, <1>2, <1>3, <1>4, <1>5, <1>6, <1>7, <1>8, <1>9, <1>10, <1>11,
       <1>12, <1>13, <1>14, <1>15, <1>16, <1>17, <1>18, <1>19, <1>20, <1>21,
       <1>22, <1>23, <1>24, <1>25, <1>26, <1>27, <1>28, <1>29
    DEF Next, Step, Exited, Gate!Next

\* yield and release, with their mutex, condition variable and early returns,
\* are the gate: nothing else about them can be seen from the program.
THEOREM ImplementsGateTheorem == SafeSpec => ImplementsGateSafely
  <1>1. Init => Gate!Init
    BY GateInit
  <1>2. IndInv /\ [Next]_vars => [Gate!Next]_(Gate!gateVars)
    BY GateStep
  <1> QED
    BY <1>1, <1>2, Invariance, PTL
    DEF SafeSpec, ImplementsGateSafely, Gate!SafeSpec

-----------------------------------------------------------------------------
(* Segments are passed on one at a time.                                   *)

\* The counter behind a call that is meant for a thread.
Due(instruction) ==
    /\ instruction.op = "yield" => counter >= instruction.slot
    /\ instruction.op = "release" => counter > instruction.slot

\* Where a yield is the only way to, the segment is due; where a release is,
\* the segment is over.
BehindOK ==
    \A t \in Threads : \A d \in DOMAIN Code[script][t] : \A e \in Nat :
      /\ OnlyWay(script, t, d, e)
      /\ ip[t] \in (d + 1)..e
      /\ ltid[t] = Code[script][t][d].tid
      => Due(Code[script][t][d])

\* The three things that can happen to a thread's place in its program: it
\* stays, and only a thread at its start is numbered; it goes on, but from a
\* call meant for it only when the call lets it; it follows a branch.
Stays(u) == ip'[u] = ip[u] /\ (ltid'[u] = ltid[u] \/ ip[u] = 1)
GoesOn(u) ==
    /\ ltid'[u] = ltid[u]
    /\ ip'[u] = ip[u] + 1
    /\ ltid[u] = Here(u).tid /\ Here(u).op \in {"yield", "release"} =>
         pc[u] = "unlock" /\ Due(Here(u))
Branches(u) ==
    /\ ltid'[u] = ltid[u]
    /\ ip[u] \in DOMAIN Code[script][u]
    /\ Here(u).op = "branch"
    /\ ip'[u] \in {Here(u).yes, Here(u).no}

Orderly ==
    /\ script' = script
    /\ counter' >= counter
    /\ \A u \in Threads : Stays(u) \/ GoesOn(u) \/ Branches(u)

\* A thread gets to what has one way to it over that way.
LEMMA OverTheWay ==
    ASSUME TypeInv, Orderly, NEW t \in Threads, NEW d \in DOMAIN Code[script][t],
           NEW e \in Nat, OnlyWay(script, t, d, e), ip'[t] \in (d + 1)..e
    PROVE  Stays(t) \/ ip[t] \in (d + 1)..e \/ (ip[t] = d /\ ~Stays(t))
  <1>0. d \in Nat /\ ip[t] \in Nat
    BY InstructionFields DEF TypeInv, TypeOK
  <1>1. CASE GoesOn(t)
    BY <1>0, <1>1 DEF GoesOn
  <1>2. CASE Branches(t)
    <2>1. ip[t] \notin d..e => ip'[t] \notin (d + 1)..e
      BY <1>2 DEF Branches, OnlyWay, Here
    <2> QED
      BY <1>0, <2>1
  <1> QED
    BY <1>1, <1>2 DEF Orderly

LEMMA OrderlyKeepsBehind == TypeInv /\ TypeInv' /\ BehindOK /\ Orderly => BehindOK'
  <1> SUFFICES ASSUME TypeInv, TypeInv', BehindOK, Orderly,
                      NEW t \in Threads, NEW d \in DOMAIN Code[script][t],
                      NEW e \in Nat, OnlyWay(script, t, d, e),
                      ip'[t] \in (d + 1)..e,
                      ltid'[t] = Code[script][t][d].tid
               PROVE  /\ Code[script][t][d].op = "yield" =>
                           counter' >= Code[script][t][d].slot
                      /\ Code[script][t][d].op = "release" =>
                           counter' > Code[script][t][d].slot
    BY DEF Orderly, BehindOK, Due
  <1>0. /\ counter \in Nat /\ counter' \in Nat /\ counter' >= counter
        /\ d \in Nat \ {0} /\ ip[t] \in Nat
        /\ Code[script][t][d].slot \in Nat
    BY InstructionFields DEF TypeInv, TypeOK, Orderly
  <1>q. SUFFICES Due(Code[script][t][d])
        \/ Code[script][t][d].op \notin {"yield", "release"}
    BY <1>0 DEF Due
  <1>1. CASE Stays(t)
    BY <1>0, <1>1 DEF Stays, BehindOK
  <1>2. CASE ip[t] \in (d + 1)..e /\ ~Stays(t)
    <2>1. ltid'[t] = ltid[t]
      BY <1>2 DEF Orderly, GoesOn, Branches
    <2> QED
      BY <1>2, <2>1 DEF BehindOK
  <1>3. CASE ip[t] = d /\ ~Stays(t)
    <2>1. CASE GoesOn(t)
      BY <1>3, <2>1 DEF GoesOn, Here
    <2>2. CASE Branches(t)
      BY <1>3, <2>2 DEF Branches, Here
    <2> QED
      BY <1>3, <2>1, <2>2 DEF Orderly
  <1> QED
    BY <1>1, <1>2, <1>3, OverTheWay

LEMMA OrderlyStep == IndInv /\ [Next]_vars => Orderly
  <1> SUFFICES ASSUME IndInv, [Next]_vars PROVE Orderly
    OBVIOUS
  <1> USE DEF At, In, Goto, Resume, ResumeAt, syncVars, threadVars
  <1>t. ip \in [Threads -> Nat] /\ ltid \in [Threads -> Int] /\ counter \in Nat
    BY DEF IndInv, TypeInv, TypeOK
  <1>c. CallOK
    BY DEF IndInv, TypeInv
  \* A step that changes neither the place nor the id of any thread.
  <1>q. ASSUME UNCHANGED <<script, ip, ltid>>, counter' >= counter PROVE Orderly
    BY <1>q DEF Orderly, Stays
  <1>1. ASSUME NEW t \in Threads, EnterCall(t) PROVE Orderly
    BY <1>1, <1>t DEF EnterCall, Orderly, Stays, GoesOn, Due
  <1>2. ASSUME NEW t \in Threads, Store(t) PROVE Orderly
    <2>1. counter <= Here(t).slot
      BY <1>2 DEF Store, IndInv, SyncInv, CounterOK
    <2>2. Here(t).slot \in Nat
      BY <1>2, <1>c, <1>t, InstructionFields
      DEF Store, CallOK, Here, InCall, Critical, IndInv, TypeInv, TypeOK
    <2> QED
      BY <1>2, <1>q, <1>t, <2>1, <2>2 DEF Store
  <1>3. ASSUME NEW t \in Threads, Unlock(t) PROVE Orderly
    <2>1. Due(Here(t))
      BY <1>3 DEF Unlock, IndInv, SyncInv, YieldReturnsDue, CounterOK, Due
    <2> QED
      BY <1>3, <1>t, <2>1 DEF Unlock, Orderly, Stays, GoesOn, Due
  <1>4. ASSUME NEW t \in Threads, AssumeSecondArgument(t) PROVE Orderly
    <2>1. Here(t).op = "assume"
      BY <1>4, <1>c DEF AssumeSecondArgument, CallOK
    <2> QED
      BY <1>4, <1>t, <2>1 DEF AssumeSecondArgument, Orderly, Stays, GoesOn, Due
  <1>5. ASSUME NEW t \in Threads, Branch(t) PROVE Orderly
    BY <1>5, <1>t DEF Branch, Orderly, Stays, Branches
  <1>6. ASSUME NEW t \in Threads, Create(t) PROVE Orderly
    <2>1. PICK child \in Here(t).children :
             pc[child] = "unborn" /\ ltid' = [ltid EXCEPT ![child] = NewId(t)]
      BY <1>6 DEF Create
    <2>2. child \in Threads
      BY <1>6, <1>t, InstructionFields DEF Create, Here, IndInv, TypeInv, TypeOK
    <2>3. ip[child] = 1 /\ child # t
      BY <1>6, <1>c, <2>1, <2>2 DEF Create, CallOK
    <2> QED
      BY <1>6, <1>t, <2>1, <2>3 DEF Create, Orderly, Stays, GoesOn, Due
  <1>7. ASSUME NEW t \in Threads, AssumeFirstArgument(t) PROVE Orderly
    BY <1>7, <1>t DEF AssumeFirstArgument, Orderly, Stays, GoesOn, Due
  <1>8. ASSUME NEW t \in Threads, Pin(t) PROVE Orderly
    BY <1>8, <1>t DEF Pin, Orderly, Stays, GoesOn, Due
  <1>9. ASSUME NEW t \in Threads, SetFinalSlot(t) PROVE Orderly
    BY <1>9, <1>t DEF SetFinalSlot, Orderly, Stays, GoesOn, Due
  <1>10. ASSUME NEW t \in Threads, Statement(t) PROVE Orderly
    BY <1>10, <1>t DEF Statement, Orderly, Stays, GoesOn, Due
  <1>11. ASSUME NEW t \in Threads, Join(t) PROVE Orderly
    BY <1>11, <1>t DEF Join, Orderly, Stays, GoesOn, Due
  <1>12. ASSUME NEW t \in Threads, ReachError(t) PROVE Orderly
    BY <1>12, <1>t DEF ReachError, Orderly, Stays, GoesOn, Due
  <1>13. ASSUME NEW t \in Threads, CallOnce(t) PROVE Orderly
    BY <1>13, <1>t, <1>q DEF CallOnce
  <1>14. ASSUME NEW t \in Threads, Initialize(t) PROVE Orderly
    BY <1>14, <1>t, <1>q DEF Initialize
  <1>15. ASSUME NEW t \in Threads, Lock(t) PROVE Orderly
    BY <1>15, <1>t, <1>q DEF Lock
  <1>16. ASSUME NEW t \in Threads, Check(t) PROVE Orderly
    BY <1>16, <1>t, <1>q DEF Check
  <1>17. ASSUME NEW t \in Threads, Announce(t) PROVE Orderly
    BY <1>17, <1>t, <1>q DEF Announce
  <1>18. ASSUME NEW t \in Threads, Test(t) PROVE Orderly
    BY <1>18, <1>t, <1>q DEF Test
  <1>19. ASSUME NEW t \in Threads, Wait(t) PROVE Orderly
    BY <1>19, <1>t, <1>q DEF Wait
  <1>20. ASSUME NEW t \in Threads, SpuriousWakeup(t) PROVE Orderly
    BY <1>20, <1>t, <1>q DEF SpuriousWakeup
  <1>21. ASSUME NEW t \in Threads, Reacquire(t) PROVE Orderly
    BY <1>21, <1>t, <1>q DEF Reacquire
  <1>22. ASSUME NEW t \in Threads, Signal(t) PROVE Orderly
    BY <1>22, <1>t, <1>q DEF Signal
  <1>23. ASSUME NEW t \in Threads, TryAlternative(t) PROVE Orderly
    BY <1>23, <1>t, <1>q DEF TryAlternative
  <1>24. ASSUME NEW t \in Threads, ThreadProxy(t) PROVE Orderly
    BY <1>24, <1>t, <1>q DEF ThreadProxy
  <1>25. ASSUME NEW t \in Threads, Report(t) PROVE Orderly
    BY <1>25, <1>t, <1>q DEF Report
  <1>26. ASSUME NEW t \in Threads, ExitWithError(t) PROVE Orderly
    BY <1>26, <1>t, <1>q DEF ExitWithError
  <1>27. ASSUME NEW t \in Threads, Finish(t) PROVE Orderly
    BY <1>27, <1>t, <1>q DEF Finish
  <1>28. CASE ProcessEnds
    BY <1>28, <1>t, <1>q DEF ProcessEnds
  <1>29. CASE UNCHANGED vars
    BY <1>29, <1>t, <1>q DEF vars
  <1> QED
    BY <1>1, <1>2, <1>3, <1>4, <1>5, <1>6, <1>7, <1>8, <1>9, <1>10, <1>11,
       <1>12, <1>13, <1>14, <1>15, <1>16, <1>17, <1>18, <1>19, <1>20, <1>21,
       <1>22, <1>23, <1>24, <1>25, <1>26, <1>27, <1>28, <1>29
    DEF Next, Step, Exited

LEMMA BehindInvariant == SafeSpec => []BehindOK
  <1>1. Init => BehindOK
    BY InstructionFields DEF Init, BehindOK
  <1>2. IndInv /\ IndInv' /\ BehindOK /\ [Next]_vars => BehindOK'
    BY OrderlyStep, OrderlyKeepsBehind DEF IndInv
  <1> QED
    BY <1>1, <1>2, Invariance, PTL DEF SafeSpec

\* A thread that has come behind a call for it finds the call done.
LEMMA CallPassed ==
    ASSUME IndInv, BehindOK, NEW t \in Threads, ip[t] \in DOMAIN Code[script][t],
           NEW d \in DOMAIN Code[script][t], LeadsTo(script, t, d, ip[t]),
           Code[script][t][d].tid = ltid[t]
    PROVE  Due(Code[script][t][d])
  <1>1. PICK e \in ip[t]..Len(Code[script][t]) : OnlyWay(script, t, d, e)
    BY DEF LeadsTo
  <1>2. ip[t] \in Nat /\ d \in Nat /\ Len(Code[script][t]) \in Nat
    BY CodeAssumption, InstructionFields DEF IndInv, TypeInv, TypeOK
  <1>3. e \in Nat /\ ip[t] \in (d + 1)..e
    BY <1>1, <1>2 DEF LeadsTo
  <1> QED
    BY <1>1, <1>3 DEF BehindOK

\* A thread that has come behind the yield for it finds its segment due.
LEMMA YieldPassed ==
    ASSUME IndInv, BehindOK, NEW t \in Threads, ip[t] \in DOMAIN Code[script][t],
           NEW slot, BehindYield(script, t, ip[t], slot, ltid[t])
    PROVE  counter >= slot
  BY CallPassed DEF BehindYield, IsYield, Due

\* In a program whose releases all stand behind their yields, the counter
\* takes every value: no release passes on a segment that has not been reached.
THEOREM SegmentsNotSkipped == SafeSpec => NoSegmentSkipped
  <1>1. IndInv /\ BehindOK /\ [Next]_vars =>
          (Disciplined(script) => counter' \in {counter, counter + 1})
    <2> SUFFICES ASSUME IndInv, BehindOK, Disciplined(script),
                        NEW t \in Threads, Store(t)
                 PROVE  counter' \in {counter, counter + 1}
      BY OnlyStoreCounts
    <2>1. /\ pc[t] = "store"
          /\ counter' = Here(t).slot + 1
      BY DEF Store, In
    <2>2. /\ ip[t] \in DOMAIN Code[script][t]
          /\ Here(t).op = "release"
          /\ ltid[t] = Here(t).tid
      BY <2>1 DEF IndInv, TypeInv, CallOK, InCall, Critical
    <2>3. counter <= Here(t).slot
      BY <2>1 DEF IndInv, SyncInv, CounterOK
    <2>4. counter >= Here(t).slot
      <3>1. BehindYield(script, t, ip[t], Here(t).slot, Here(t).tid)
        BY <2>2 DEF Disciplined, Here
      <3> QED
        BY <2>2, <3>1, YieldPassed
    <2>5. Here(t).slot \in Nat /\ counter \in Nat
      BY <2>2, InstructionFields DEF Here, IndInv, TypeInv, TypeOK
    <2> QED
      BY <2>1, <2>3, <2>4, <2>5
  <1> QED
    BY <1>1, Invariance, BehindInvariant, PTL DEF SafeSpec, NoSegmentSkipped

=============================================================================
