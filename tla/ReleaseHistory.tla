--------------------------- MODULE ReleaseHistory ---------------------------
(***************************************************************************)
(* What the release action promises to the readers of the archive: the     *)
(* versions they see were each made by one run of the action, whole, and   *)
(* do not change.  ZenodoRelease implements it.                            *)
(***************************************************************************)
EXTENDS Naturals

CONSTANT Depositions

VARIABLES
    run,     \* the run of the action that is on
    version  \* what readers find in a deposition, if they find it

Unpublished == [public |-> FALSE, metadata |-> 0, archives |-> {}]
MadeBy(r) == [public |-> TRUE, metadata |-> r, archives |-> {r}]

\* Before the first run there is one version, made by hand.
Init ==
    /\ run = 1
    /\ \E first \in Depositions :
         version = [d \in Depositions |-> IF d = first THEN MadeBy(0) ELSE Unpublished]

Publish ==
    /\ \A d \in Depositions : version[d] # MadeBy(run)
    /\ \E d \in Depositions :
         /\ version[d] = Unpublished
         /\ version' = [version EXCEPT ![d] = MadeBy(run)]
    /\ UNCHANGED run

NextRun ==
    /\ run' = run + 1
    /\ UNCHANGED version

Next == Publish \/ NextRun

Spec == Init /\ [][Next]_<<run, version>>

=============================================================================
