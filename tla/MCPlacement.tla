----------------------------- MODULE MCPlacement -----------------------------
(***************************************************************************)
(* Where the calls stand in the programs of MCReplay: what the theorems    *)
(* about Replay and HappensBefore ask of a program, evaluated apart from   *)
(* the run that executes the programs, so that a call in the wrong place   *)
(* shows there as what it does to an execution.                            *)
(***************************************************************************)
EXTENDS MCHarness

Replayed(scripts, cases) ==
    INSTANCE MCReplay WITH Scripts <- scripts, Cases <- cases, Slots <- 0..6,
                           Code <- [s \in scripts |-> cases[s].code],
                           knows <- {}, left <- {}, before <- {}

ReplayScripts == Replayed({}, <<>>)!MCScripts
ReplayCases == Replayed(ReplayScripts, <<>>)!All
Races == Replayed({}, <<>>)!RaceScripts

\* The programs that are replayed are as the theorems ask for, but for these.
\* At a block, and at an input of GraphML, the turn ends before the statement,
\* and so the value comes late; one input that is read in two segments has a
\* chain of two values.  The spawner and the looped program come
\* by one call in several rounds, and the looped one in one segment.
ASSUME TurnsAssumption ==
    \A s \in ReplayScripts \ Races :
        /\ Replayed(ReplayScripts, ReplayCases)!TakesTurns(s)
        /\ s \notin {"graphml", "reread"} => Replayed(ReplayScripts, ReplayCases)!GuardsInTurn(s)
        /\ s \notin {"block", "graphml"} => Replayed(ReplayScripts, ReplayCases)!CountsTurns(s)
        /\ Replayed(ReplayScripts, ReplayCases)!NumbersApart(s)
        /\ s \notin {"spawner", "looped"} =>
             /\ Replayed(ReplayScripts, ReplayCases)!NumbersOnce(s)
             /\ ReplayCases[s].inTime =>
                  Replayed(ReplayScripts, ReplayCases)!CreatesInTurn(s)

\* The accesses of a race stand where the theorems about them ask for.
ASSUME RacesAssumption ==
    \A s \in Races :
        /\ Replayed(ReplayScripts, ReplayCases)!RacesInTurn(s)
        /\ Replayed(ReplayScripts, ReplayCases)!NumbersOnce(s)
        /\ Replayed(ReplayScripts, ReplayCases)!RacesApart(s)

=============================================================================
