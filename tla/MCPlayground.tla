---------------------------- MODULE MCPlayground ----------------------------
(***************************************************************************)
(* One program of each kind, two properties, three actions of the user.    *)
(***************************************************************************)
EXTENDS Playground, TLC

CONSTANTS temp, example, bench, sv, unreach, race

MCPrograms == {temp, example, bench, sv}
MCSpecs == {unreach, race}
MCSpecOf == example :> race

=============================================================================
