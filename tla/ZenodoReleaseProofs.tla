------------------------- MODULE ZenodoReleaseProofs -------------------------
(***************************************************************************)
(* Theorems about ZenodoRelease, for every number of runs and of failing   *)
(* requests.                                                               *)
(***************************************************************************)
EXTENDS ZenodoRelease, TLAPS

Deposition == [state : {"none", "draft", "published", "deleted"},
               metadata : Runs, files : SUBSET Files]

\* TypeOK holds in every state.
LEMMA TypeInit == Init => TypeOK
  BY ReleaseAssumption DEF Init, TypeOK, Runs, Files, File

LEMMA TypeStep == TypeOK /\ [Next]_vars => TypeOK'
<1> SUFFICES ASSUME TypeOK, [Next]_vars PROVE TypeOK'
  OBVIOUS
<1> USE ReleaseAssumption
<1>0. listed' \in SUBSET Depositions
  BY DEF Next, Again, Request, vars, TypeOK
<1> USE <1>0
<1>1. run \in 0..MaxRuns /\ File(Archive, run) \in Files
  BY DEF TypeOK, Runs, Files, File
<1>2. CASE Start
  BY <1>2 DEF Start, TypeOK, Untouched, Answered, Goto, Fails, Abort
<1>3. CASE ListDrafts
  BY <1>3 DEF ListDrafts, TypeOK, Untouched, Answered, Goto, Fails, Abort, Drafts
<1>4. CASE DeleteDraft
  BY <1>4 DEF DeleteDraft, TypeOK, Untouched, Answered, Goto, Fails, Becomes
<1>5. CASE CleanedUp
  BY <1>5 DEF CleanedUp, TypeOK, Untouched, Goto
<1>6. CASE NewVersion
  BY <1>6 DEF NewVersion, TypeOK, Untouched, Answered, Failing, Fails, Abort, CopyTo
<1>7. CASE NewVersionRefused
  BY <1>7 DEF NewVersionRefused, TypeOK, Untouched, Abort
<1>8. CASE FetchDraft
  BY <1>8 DEF FetchDraft, TypeOK, Untouched, Answered, Goto, Fails, Abort
<1>9. CASE UpdateMetadata
  <2>1. {f.name : f \in deposition[held].files} \in SUBSET Names
    BY DEF TypeOK, Files
  <2> QED
    BY <1>1, <1>9, <2>1
    DEF UpdateMetadata, TypeOK, Untouched, Answered, Goto, Failing, Fails, Abort, PutMetadata, Runs
<1>10. CASE DeleteExistingFile
  BY <1>1, <1>10
  DEF DeleteExistingFile, TypeOK, Untouched, Answered, Goto, Fails, DeleteFile, WithoutFile, Runs
<1>11. CASE FilesDeleted
  BY <1>11 DEF FilesDeleted, TypeOK, Untouched, Goto
<1>12. CASE UploadFile
  BY <1>1, <1>12
  DEF UploadFile, TypeOK, Untouched, Answered, Goto, Failing, Fails, Abort, PutFile, WithoutFile
<1>13. CASE Publish
  BY <1>13 DEF Publish, TypeOK, Untouched, Answered, Goto, Failing, Fails, Abort, Becomes
<1>14. CASE Cancel
  BY <1>14 DEF Cancel, TypeOK, Untouched, Fails, Abort
<1>15. CASE Rerun
  BY <1>15 DEF Rerun, TypeOK, Runs
<1>16. CASE UNCHANGED vars
  BY <1>16 DEF vars, client, TypeOK
<1> QED
  BY <1>2, <1>3, <1>4, <1>5, <1>6, <1>7, <1>8, <1>9, <1>10, <1>11, <1>12, <1>13, <1>14, <1>15, <1>16
  DEF Next, Again, Request

\* TypeOK, for every number of runs and failures: what the client holds are
\* names and depositions of the kind its next request needs.
THEOREM ReleaseTypes == Spec => []TypeOK
  BY TypeInit, TypeStep, PTL DEF Spec

-----------------------------------------------------------------------------
(* What a run knows of the service.                                        *)

LEMMA InvInit == Init => ReleaseInv
  BY ReleaseAssumption DEF Init, ReleaseInv, OfThisRun, Made, Ended, HoldsDraft

\* A run that is not over has not touched what is published.
LEMMA InvStep == TypeOK /\ ReleaseInv /\ [Next]_vars => ReleaseInv'
<1> SUFFICES ASSUME TypeOK, ReleaseInv, [Next]_vars PROVE ReleaseInv'
  OBVIOUS
<1> USE ReleaseAssumption DEF Ended, HoldsDraft
<1>1. run \in Nat /\ \A d \in Depositions : deposition[d].metadata \in Nat
  BY DEF TypeOK, Runs
<1>2. CASE Start
  BY <1>2 DEF Start, ReleaseInv, OfThisRun, Made, Untouched, Goto, Fails, Abort
<1>3. CASE ListDrafts
  BY <1>3 DEF ListDrafts, ReleaseInv, OfThisRun, Made, Untouched, Goto, Fails, Abort, Drafts
<1>4. CASE DeleteDraft
  BY <1>4 DEF DeleteDraft, TypeOK, ReleaseInv, OfThisRun, Made, Untouched, Goto, Becomes
<1>5. CASE CleanedUp
  BY <1>5 DEF CleanedUp, ReleaseInv, OfThisRun, Made, Untouched, Goto
<1>6. CASE NewVersion
  <2>1. ASSUME NEW d \in Depositions, CopyTo(d), UNCHANGED run, phase' \notin {"clean", "files"},
               phase' \in {"fetch", "failed"}, phase' = "fetch" => held' = d
        PROVE  ReleaseInv'
    BY <1>1, <1>6, <2>1 DEF NewVersion, TypeOK, ReleaseInv, OfThisRun, Made, CopyTo
  <2>2. ASSUME Untouched, Abort
        PROVE  ReleaseInv'
    BY <2>2 DEF ReleaseInv, OfThisRun, Made, Untouched, Abort
  <2> QED
    BY <1>6, <2>1, <2>2 DEF NewVersion, Failing, Abort
<1>7. CASE NewVersionRefused
  BY <1>7 DEF NewVersionRefused, ReleaseInv, OfThisRun, Made, Untouched, Abort
<1>8. CASE FetchDraft
  BY <1>8 DEF FetchDraft, ReleaseInv, OfThisRun, Made, Untouched, Goto, Fails, Abort
<1>9. CASE UpdateMetadata
  BY <1>1, <1>9 DEF UpdateMetadata, TypeOK, ReleaseInv, OfThisRun, Made, Untouched, Goto,
     Failing, Abort, PutMetadata
<1>10. CASE DeleteExistingFile
  BY <1>1, <1>10 DEF DeleteExistingFile, TypeOK, ReleaseInv, OfThisRun, Made, Untouched, Goto,
     DeleteFile
<1>11. CASE FilesDeleted
  BY <1>11 DEF FilesDeleted, ReleaseInv, OfThisRun, Made, Untouched, Goto
<1>12. CASE UploadFile
  <2>1. PutFile(held, Archive) => Archives(held)' = {run}
    <3> SUFFICES ASSUME PutFile(held, Archive) PROVE Archives(held)' = {run}
      OBVIOUS
    <3>1. deposition'[held].files
            = WithoutFile(deposition[held].files, Archive) \cup {File(Archive, run)}
      BY DEF PutFile, TypeOK
    <3>2. UNCHANGED held
      BY <1>12 DEF UploadFile, Goto, Failing, Abort
    <3>3. {g \in deposition'[held].files : g.name = Archive} = {File(Archive, run)}
      BY <3>1 DEF WithoutFile, File
    <3>4. {f.from : f \in {File(Archive, run)}} = {run}
      BY DEF File
    <3> QED
      BY <3>2, <3>3, <3>4 DEF Archives
  <2> QED
    BY <1>1, <1>12, <2>1 DEF UploadFile, TypeOK, ReleaseInv, OfThisRun, Made, Untouched, Goto,
       Failing, Abort, PutFile
<1>13. CASE Publish
  BY <1>1, <1>13 DEF Publish, TypeOK, ReleaseInv, OfThisRun, Made, Untouched, Goto, Failing,
     Abort, Becomes
<1>14. CASE Cancel
  BY <1>14 DEF Cancel, ReleaseInv, OfThisRun, Made, Untouched, Abort
<1>15. CASE Rerun
  BY <1>1, <1>15 DEF Rerun, ReleaseInv, OfThisRun, Made
<1>16. CASE UNCHANGED vars
  BY <1>16 DEF vars, client, ReleaseInv, OfThisRun, Made, Archives
<1> QED
  BY <1>2, <1>3, <1>4, <1>5, <1>6, <1>7, <1>8, <1>9, <1>10, <1>11, <1>12, <1>13, <1>14, <1>15, <1>16
  DEF Next, Again, Request

THEOREM ReleaseInvHolds == Spec => [](TypeOK /\ ReleaseInv)
  BY TypeInit, TypeStep, InvInit, InvStep, PTL DEF Spec

-----------------------------------------------------------------------------
(* The release action implements ReleaseHistory.                           *)

History_version == [d \in Depositions |-> Visible(d)]

\* Nothing that readers see changes.
Unseen ==
    \A d \in Depositions :
        \/ deposition'[d] = deposition[d]
        \/ deposition[d].state # "published" /\ deposition'[d].state # "published"

LEMMA UnseenUnchanged == Unseen => UNCHANGED History_version
<1> SUFFICES ASSUME Unseen, NEW d \in Depositions PROVE Visible(d)' = Visible(d)
  BY DEF History_version
<1>1. CASE deposition'[d] = deposition[d]
  BY <1>1 DEF Visible, Archives
<1>2. CASE deposition[d].state # "published" /\ deposition'[d].state # "published"
  BY <1>2 DEF Visible
<1> QED
  BY <1>1, <1>2 DEF Unseen

\* Every request but the last one, a run that is cut off, and the next run.
LEMMA OtherSteps ==
    ASSUME TypeOK, ReleaseInv, [Next]_vars, ~Publish
    PROVE  Unseen
<1> USE DEF Ended, HoldsDraft
<1>1. CASE Untouched
  BY <1>1 DEF Untouched, Unseen
<1>2. CASE DeleteDraft
  BY <1>2 DEF DeleteDraft, TypeOK, ReleaseInv, OfThisRun, Untouched, Becomes, Unseen
<1>3. CASE NewVersion
  <2>1. ASSUME NEW d \in Depositions, CopyTo(d) PROVE Unseen
    BY <2>1 DEF CopyTo, TypeOK, Unseen
  <2> QED
    BY <1>1, <1>3, <2>1 DEF NewVersion, Failing
<1>4. CASE UpdateMetadata
  BY <1>1, <1>4 DEF UpdateMetadata, TypeOK, ReleaseInv, Made, Failing, PutMetadata, Unseen
<1>5. CASE DeleteExistingFile
  BY <1>1, <1>5 DEF DeleteExistingFile, TypeOK, ReleaseInv, Made, DeleteFile, Unseen
<1>6. CASE UploadFile
  BY <1>1, <1>6 DEF UploadFile, TypeOK, ReleaseInv, Made, Failing, PutFile, Unseen
<1> QED
  BY <1>1, <1>2, <1>3, <1>4, <1>5, <1>6
  DEF Next, Again, Request, Start, ListDrafts, CleanedUp, NewVersionRefused, FetchDraft, FilesDeleted,
      Cancel, Rerun, vars, Untouched

LEMMA HistoryInit == Init => History!Init
<1> SUFFICES ASSUME Init PROVE History!Init
  OBVIOUS
<1> USE ReleaseAssumption
<1>1. ASSUME NEW d \in Depositions
      PROVE  Visible(d) = IF d = First THEN History!MadeBy(0) ELSE History!Unpublished
  <2>1. {f.from : f \in {g \in {File(name, 0) : name \in Names} : g.name = Archive}} = {0}
    <3>1. {g \in {File(name, 0) : name \in Names} : g.name = Archive} = {File(Archive, 0)}
      BY DEF File
    <3>2. {f.from : f \in {File(Archive, 0)}} = {0}
      BY DEF File
    <3> QED
      BY <3>1, <3>2
  <2>2. /\ deposition[d].files = {File(name, 0) : name \in Names}
        /\ deposition[d].metadata = 0
        /\ deposition[d].state = "published" <=> d = First
    BY DEF Init
  <2>3. Archives(d) = {0}
    BY <2>1, <2>2 DEF Archives
  <2> QED
    BY <2>2, <2>3 DEF Visible, History!MadeBy, History!Unpublished
<1> QED
  BY <1>1 DEF Init, History!Init

\* The last request makes the version that is held visible, whole.
LEMMA PublishStep ==
    ASSUME TypeOK, ReleaseInv, Publish
    PROVE  History!Publish \/ (Unseen /\ UNCHANGED run)
<1> USE DEF Ended, HoldsDraft
<1>1. CASE Untouched
  BY <1>1 DEF Publish, Goto, Failing, Abort, Untouched, Unseen
<1>2. CASE Becomes(held, "published")
  <2>1. phase = "publish" /\ held \in Depositions /\ UNCHANGED <<run, held>> /\ run \in Nat
    BY DEF Publish, Goto, Failing, Abort, TypeOK, Runs
  <2>2. Visible(held) = History!Unpublished
    BY <2>1 DEF ReleaseInv, Made, Visible, History!Unpublished
  <2>3. Visible(held)' = History!MadeBy(run)
    BY <1>2, <2>1 DEF ReleaseInv, Made, Becomes, TypeOK, Visible, Archives, History!MadeBy
  <2>4. \A d \in Depositions : Visible(d) # History!MadeBy(run)
    <3> SUFFICES ASSUME NEW d \in Depositions, Visible(d) = History!MadeBy(run) PROVE FALSE
      OBVIOUS
    <3>1. deposition[d].state = "published" /\ deposition[d].metadata = run
      BY DEF Visible, History!MadeBy
    <3> QED
      BY <2>1, <3>1 DEF ReleaseInv, OfThisRun
  <2>5. \A d \in Depositions : d # held => Visible(d)' = Visible(d)
    BY <1>2, <2>1 DEF Becomes, TypeOK, Visible, Archives
  <2>6. History_version' = [History_version EXCEPT ![held] = History!MadeBy(run)]
    BY <2>1, <2>3, <2>5 DEF History_version
  <2> QED
    BY <2>1, <2>2, <2>4, <2>6 DEF History!Publish, History_version
<1> QED
  BY <1>1, <1>2 DEF Publish, Failing

\* Every step is a step of ReleaseHistory or none: whatever fails, readers see
\* only whole versions, one per run at most, that do not change.
THEOREM ReleaseImplementsHistory == Spec => ImplementsHistory
<1>1. TypeOK /\ ReleaseInv /\ [Next]_vars => [History!Next]_<<run, History_version>>
  <2> SUFFICES ASSUME TypeOK, ReleaseInv, [Next]_vars
               PROVE  [History!Next]_<<run, History_version>>
    OBVIOUS
  <2>1. CASE Publish
    BY <2>1, PublishStep, UnseenUnchanged DEF History!Next
  <2>2. CASE ~Publish
    <3>1. UNCHANGED History_version
      BY <2>2, OtherSteps, UnseenUnchanged
    <3>2. run' = run \/ run' = run + 1
      BY DEF Next, Again, Request, Start, ListDrafts, DeleteDraft, CleanedUp, NewVersion,
         NewVersionRefused, FetchDraft, UpdateMetadata, DeleteExistingFile, FilesDeleted,
         UploadFile, Publish, Cancel, Rerun, Goto, Failing, Abort, vars, client
    <3> QED
      BY <3>1, <3>2 DEF History!Next, History!NextRun, History_version
  <2> QED
    BY <2>1, <2>2
<1> QED
  BY <1>1, HistoryInit, ReleaseInvHolds, PTL DEF Spec, ImplementsHistory, History!Spec, History_version

-----------------------------------------------------------------------------
(* What the exit code and the warnings say.                                *)

\* Exit code 0 is only reached behind an answered publish.
THEOREM SuccessesPublished == Spec => []SuccessIsPublished
<1>1. Init => SuccessIsPublished
  BY DEF Init, SuccessIsPublished
<1>2. TypeOK /\ ReleaseInv /\ SuccessIsPublished /\ [Next]_vars => SuccessIsPublished'
  <2> SUFFICES ASSUME TypeOK, ReleaseInv, SuccessIsPublished, [Next]_vars,
                      phase' = "released"
               PROVE  SuccessIsPublished'
    BY DEF SuccessIsPublished
  <2>1. CASE Publish
    BY <2>1 DEF Publish, Failing, Abort, Goto, Becomes, TypeOK, ReleaseInv, Made, HoldsDraft,
       SuccessIsPublished
  <2>2. CASE UNCHANGED vars
    BY <2>2 DEF vars, client, SuccessIsPublished
  <2> QED
    BY <2>1, <2>2 DEF Next, Again, Request, Start, ListDrafts, DeleteDraft, CleanedUp, NewVersion,
       NewVersionRefused, FetchDraft, UpdateMetadata, DeleteExistingFile, FilesDeleted,
       UploadFile, Cancel, Rerun, Goto, Failing, Abort
<1> QED
  BY <1>1, <1>2, ReleaseInvHolds, PTL DEF Spec

LEMMA OldFilesInit == Init => OldFilesGoing /\ OldFilesOnlyWarned
  BY DEF Init, OldFilesGoing, OldFilesOnlyWarned

LEMMA GoingStep ==
    TypeOK /\ OldFilesGoing /\ [Next]_vars => OldFilesGoing'
<1> SUFFICES ASSUME TypeOK, OldFilesGoing, [Next]_vars,
                    phase' \in {"files", "upload", "publish"}, run' \notin warned'
             PROVE  OldFilesGoing'
  BY DEF OldFilesGoing
<1>1. CASE UpdateMetadata
  BY <1>1 DEF UpdateMetadata, PutMetadata, Goto, Failing, Abort, TypeOK, OldFilesGoing
<1>2. CASE DeleteExistingFile
  BY <1>2 DEF DeleteExistingFile, DeleteFile, WithoutFile, Goto, TypeOK, OldFilesGoing
<1>3. CASE FilesDeleted
  BY <1>3 DEF FilesDeleted, Untouched, Goto, OldFilesGoing
<1>4. CASE UploadFile
  BY <1>4 DEF UploadFile, PutFile, WithoutFile, Goto, Failing, Abort, TypeOK, OldFilesGoing
<1>5. CASE UNCHANGED vars
  BY <1>5 DEF vars, client, OldFilesGoing
<1> QED
  BY <1>1, <1>2, <1>3, <1>4, <1>5 DEF Next, Again, Request, Start, ListDrafts, DeleteDraft, CleanedUp,
     NewVersion, NewVersionRefused, FetchDraft, Publish, Cancel, Rerun, Goto, Failing, Abort

LEMMA OnlyWarnedStep ==
    TypeOK /\ ReleaseInv /\ OldFilesGoing /\ OldFilesOnlyWarned /\ [Next]_vars
        => OldFilesOnlyWarned'
<1> SUFFICES ASSUME TypeOK, ReleaseInv, OldFilesGoing, OldFilesOnlyWarned, [Next]_vars
             PROVE  OldFilesOnlyWarned'
  OBVIOUS
<1>1. warned \subseteq warned'
  BY DEF Next, Again, Request, Start, ListDrafts, DeleteDraft, CleanedUp, NewVersion,
     NewVersionRefused, FetchDraft, UpdateMetadata, DeleteExistingFile, FilesDeleted,
     UploadFile, Publish, Cancel, Rerun, Failing, Abort, vars
<1>2. CASE Unseen
  BY <1>1, <1>2 DEF Unseen, OldFilesOnlyWarned
<1>3. CASE Publish /\ Becomes(held, "published")
  BY <1>1, <1>3 DEF Publish, Becomes, Goto, Failing, Abort, TypeOK, ReleaseInv, Made, HoldsDraft,
     OldFilesGoing, OldFilesOnlyWarned
<1>4. CASE Publish /\ Untouched
  BY <1>2, <1>4 DEF Untouched, Unseen
<1> QED
  BY <1>2, <1>3, <1>4, OtherSteps DEF Publish, Failing

\* A published file of an earlier version was warned of by the run that
\* published it, for any number of files.
THEOREM OldFilesWarned == Spec => []OldFilesOnlyWarned
  BY OldFilesInit, GoingStep, OnlyWarnedStep, ReleaseInvHolds, PTL DEF Spec

=============================================================================
