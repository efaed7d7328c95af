---------------------------- MODULE ZenodoRelease ----------------------------
(***************************************************************************)
(* zenodo_release.py, run after run: the requests one run makes, any of    *)
(* which may fail, before or after the service has done what it asked for, *)
(* and the deposition that is left behind for the next run.  Zenodo itself *)
(* is external: what the requests do there is read off their use.  Runs    *)
(* do not overlap: the workflow has one concurrency group, in which a      *)
(* later run cancels an earlier one.                                       *)
(***************************************************************************)
EXTENDS Naturals, FiniteSets

CONSTANTS
    Depositions,  \* the depositions there can be
    First,        \* the one published before the first run
    Limbo,        \* one that may have been left behind as a draft
    Names,        \* names of files
    Archive,      \* the name of the file that a run uploads
    MaxRuns,      \* a bound for the runs of the action
    MaxFailures   \* a bound for the requests that fail

ASSUME ReleaseAssumption ==
    /\ First \in Depositions /\ Limbo \in Depositions /\ First # Limbo
    /\ Archive \in Names
    /\ MaxRuns \in Nat \ {0} /\ MaxFailures \in Nat

VARIABLES
    run,         \* the number of this run
    phase,       \* the request that it makes next, or how it ended
    todo,        \* the drafts, or names of files, that are still to be deleted
    held,        \* the deposition that newversion has returned
    deposition,  \* the service: its depositions
    listed,      \* the service: the depositions that match the query of a run
    failures,    \* how many requests have failed
    warned       \* the runs that went on after a file could not be deleted

client == <<run, phase, todo, held>>
vars == <<client, deposition, listed, failures, warned>>

Runs == 0..MaxRuns
File(name, r) == [name |-> name, from |-> r]
Files == [name : Names, from : Runs]

TypeOK ==
    /\ run \in Runs
    /\ phase \in {"start", "list", "clean", "newversion", "fetch", "metadata",
                  "files", "upload", "publish", "released", "failed"}
    /\ phase = "clean" => todo \in SUBSET Depositions
    /\ phase = "files" => todo \in SUBSET Names
    /\ held \in Depositions
    /\ deposition \in [Depositions -> [state : {"none", "draft", "published", "deleted"},
                                       metadata : Runs, files : SUBSET Files]]
    /\ listed \in SUBSET Depositions
    /\ failures \in 0..MaxFailures
    /\ warned \in SUBSET Runs

-----------------------------------------------------------------------------
(* The service.                                                            *)

Drafts == {d \in Depositions : deposition[d].state = "draft"}
Untouched == UNCHANGED deposition
Becomes(d, state) == deposition' = [deposition EXCEPT ![d].state = state]

\* A new version begins as a copy of a published one, unless a draft of one is
\* open already.
CopyTo(d) ==
    /\ deposition[d].state = "none"
    /\ \E p \in Depositions :
         /\ deposition[p].state = "published"
         /\ deposition' = [deposition EXCEPT ![d] = [deposition[p] EXCEPT !.state = "draft"]]

PutMetadata(d) == deposition' = [deposition EXCEPT ![d].metadata = run]
WithoutFile(files, name) == {f \in files : f.name # name}
DeleteFile(d, name) ==
    deposition' = [deposition EXCEPT ![d].files = WithoutFile(@, name)]
PutFile(d, name) ==
    deposition' = [deposition EXCEPT ![d].files = WithoutFile(@, name) \cup {File(name, run)}]

-----------------------------------------------------------------------------
(* The outcomes of a request: it is answered, or it fails without effect,  *)
(* or its answer is lost and the client sees a failure as well.            *)

Answered == UNCHANGED failures
Fails == failures < MaxFailures /\ failures' = failures + 1

\* An exception that nothing handles before main does.
Abort == phase' = "failed" /\ UNCHANGED <<run, todo, held, warned>>

\* A request that the run does not go on without.
Failing(effect) == Fails /\ (effect \/ Untouched) /\ Abort

Goto(next) == phase' = next /\ UNCHANGED <<run, held>>
-----------------------------------------------------------------------------
(* The run.                                                                *)

\* The two files exist, or not.
Start ==
    /\ phase = "start"
    /\ Untouched
    /\ \/ Answered /\ Goto("list") /\ UNCHANGED <<todo, warned>>
       \/ Fails /\ Abort

\* Mutant: --cleanup-drafts is not passed.
ListNoDrafts ==
    /\ phase = "list"
    /\ todo' = {} /\ Goto("clean") /\ Untouched /\ UNCHANGED <<failures, warned>>

\* With --cleanup-drafts, which the action always passes.  The query is for the
\* conceptrecid record_id, the drafts of the answer are those not submitted.
ListDrafts ==
    /\ phase = "list"
    /\ Untouched
    /\ \/ Answered /\ todo' = Drafts \cap listed /\ Goto("clean") /\ UNCHANGED warned
       \/ Fails /\ Abort

\* A draft that cannot be deleted is only warned of.
DeleteDraft ==
    /\ phase = "clean"
    /\ \E d \in todo :
         /\ todo' = todo \ {d}
         /\ \/ Answered /\ Becomes(d, "deleted")
            \/ Fails /\ (Becomes(d, "deleted") \/ Untouched)
    /\ Goto("clean") /\ UNCHANGED warned

CleanedUp ==
    /\ phase = "clean" /\ todo = {}
    /\ Goto("newversion") /\ Untouched /\ UNCHANGED <<todo, failures, warned>>

NewVersion ==
    /\ phase = "newversion" /\ Drafts = {}
    /\ \E d \in Depositions :
         \/ /\ Answered /\ CopyTo(d)
            /\ held' = d /\ phase' = "fetch" /\ UNCHANGED <<run, todo, warned>>
         \/ Failing(CopyTo(d))

\* The service refuses while there is a draft.
NewVersionRefused ==
    /\ phase = "newversion" /\ Drafts # {}
    /\ Abort /\ Untouched /\ UNCHANGED failures

FetchDraft ==
    /\ phase = "fetch"
    /\ Untouched
    /\ \/ Answered /\ Goto("metadata") /\ UNCHANGED <<todo, warned>>
       \/ Fails /\ Abort

\* Mutant: goes through the records of the files instead of their names.
UpdateMetadataOfRecords ==
    /\ phase = "metadata"
    /\ Answered /\ PutMetadata(held)
    /\ todo' = deposition[held].files
    /\ Goto("files") /\ UNCHANGED warned

\* The answer lists the files that delete_existing_files goes through.
UpdateMetadata ==
    /\ phase = "metadata"
    /\ \/ /\ Answered /\ PutMetadata(held)
          /\ todo' = {f.name : f \in deposition[held].files}
          /\ Goto("files") /\ UNCHANGED warned
       \/ Failing(PutMetadata(held))

\* A file that cannot be deleted is only warned of.
DeleteExistingFile ==
    /\ phase = "files"
    /\ \E name \in todo :
         /\ todo' = todo \ {name}
         /\ \/ Answered /\ DeleteFile(held, name) /\ UNCHANGED warned
            \/ /\ Fails /\ warned' = warned \cup {run}
               /\ (DeleteFile(held, name) \/ Untouched)
    /\ Goto("files")

\* Mutant: leaves the loop early.
FilesDeletedEarly ==
    /\ phase = "files"
    /\ Goto("upload") /\ Untouched /\ UNCHANGED <<todo, failures, warned>>

FilesDeleted ==
    /\ phase = "files" /\ todo = {}
    /\ Goto("upload") /\ Untouched /\ UNCHANGED <<todo, failures, warned>>

\* Mutant: a failing upload is only warned of, like a failing deletion.
UploadFileWarning ==
    /\ phase = "upload"
    /\ \/ Answered /\ PutFile(held, Archive)
       \/ Fails /\ Untouched
    /\ Goto("publish") /\ UNCHANGED <<todo, warned>>

UploadFile ==
    /\ phase = "upload"
    /\ \/ /\ Answered /\ PutFile(held, Archive)
          /\ Goto("publish") /\ UNCHANGED <<todo, warned>>
       \/ Failing(PutFile(held, Archive))

\* Mutant: so is a failing publish.
PublishWarning ==
    /\ phase = "publish"
    /\ \/ Answered /\ Becomes(held, "published")
       \/ Fails /\ Untouched
    /\ Goto("released") /\ UNCHANGED <<todo, warned>>

Publish ==
    /\ phase = "publish"
    /\ \/ /\ Answered /\ Becomes(held, "published")
          /\ Goto("released") /\ UNCHANGED <<todo, warned>>
       \/ Failing(Becomes(held, "published"))

\* The run is cancelled between two requests.
Cancel ==
    /\ phase \notin {"released", "failed"}
    /\ Fails /\ Abort /\ Untouched

\* The workflow is started once more.
Rerun ==
    /\ phase \in {"released", "failed"} /\ run < MaxRuns
    /\ run' = run + 1 /\ phase' = "start"
    /\ UNCHANGED <<todo, held, deposition, failures, warned>>

\* record_id is the previous version's, which newversion takes it for; the
\* query takes it for that of all versions together.  What is listed for it is
\* the service's affair: the drafts of the record, or none.
Init ==
    /\ run = 1 /\ phase = "start" /\ todo = {} /\ held = First
    /\ listed \in {{}, Depositions}
    /\ failures = 0 /\ warned = {}
    /\ \E left \in {"none", "draft"} :
         deposition = [d \in Depositions |->
             [state |-> IF d = First THEN "published" ELSE IF d = Limbo THEN left ELSE "none",
              metadata |-> 0, files |-> {File(name, 0) : name \in Names}]]

Request ==
    /\ \/ Start \/ ListDrafts \/ DeleteDraft \/ CleanedUp \/ NewVersion \/ NewVersionRefused
       \/ FetchDraft \/ UpdateMetadata \/ DeleteExistingFile \/ FilesDeleted
       \/ UploadFile \/ Publish
    /\ UNCHANGED listed

Again == Rerun /\ UNCHANGED listed

Next == Request \/ Again \/ (Cancel /\ UNCHANGED listed)

\* A run goes on (requests are answered or fail), and a failed one is repeated.
Fairness == WF_vars(Request) /\ WF_vars(Again)
Spec == Init /\ [][Next]_vars
FairSpec == Spec /\ Fairness

-----------------------------------------------------------------------------
(* What a run knows of the service.                                        *)

Ended == {"released", "failed"}
HoldsDraft == {"fetch", "metadata", "files", "upload", "publish"}

\* What readers see of a deposition.
Archives(d) == {f.from : f \in {g \in deposition[d].files : g.name = Archive}}
Visible(d) ==
    IF deposition[d].state = "published"
    THEN [public |-> TRUE, metadata |-> deposition[d].metadata, archives |-> Archives(d)]
    ELSE [public |-> FALSE, metadata |-> 0, archives |-> {}]

\* Only this run has set its number, its version is not public before the run
\* has ended, and the drafts to be deleted are drafts.
OfThisRun ==
    /\ \A d \in Depositions : deposition[d].metadata <= run
    /\ phase \notin Ended =>
         \A d \in Depositions :
            deposition[d].state = "published" => deposition[d].metadata < run
    /\ phase = "clean" => \A d \in todo : deposition[d].state = "draft"

\* How much of the version that is held has been made.
Made ==
    /\ phase \in HoldsDraft => deposition[held].state = "draft"
    /\ phase \in {"files", "upload", "publish"} => deposition[held].metadata = run
    /\ phase = "publish" => Archives(held) = {run}

ReleaseInv == OfThisRun /\ Made

\* Unless it was warned of, what is left of the old files is still to be deleted.
OldFilesGoing ==
    run \notin warned =>
      /\ phase = "files" => \A f \in deposition[held].files : f.name \in todo
      /\ phase = "upload" => deposition[held].files = {}
      /\ phase = "publish" => deposition[held].files = {File(Archive, run)}

-----------------------------------------------------------------------------
(* Properties.                                                             *)

\* Whatever requests fail and wherever a run is cut off, readers only ever see
\* versions that one run has made, metadata and archive, once per run, and a
\* version that they see stays as it is.  (publish comes after every request
\* that makes the version, and each of those ends the run if it fails.)
History == INSTANCE ReleaseHistory WITH
             version <- [d \in Depositions |-> Visible(d)]
ImplementsHistory == History!Spec

\* A run that reports success has published its version.  (zenodo_release.py:224
\* prints it behind every request of the run.)
SuccessIsPublished ==
    phase = "released" =>
      \E d \in Depositions : deposition[d].state = "published" /\ deposition[d].metadata = run

\* A file of an earlier version is published again only by a run that went on
\* after it could not be deleted (zenodo_release.py:142).
OldFilesOnlyWarned ==
    \A d \in Depositions :
        deposition[d].state = "published" /\ deposition[d].metadata \notin warned \cup {0} =>
          deposition[d].files = {File(Archive, deposition[d].metadata)}

\* If the query for the record lists its drafts, a run that is cut off leaves
\* nothing behind that keeps every later one from publishing: one of them does.
\* If it lists none, a draft that was left behind keeps all of them from it.
\* (cleanup_existing_drafts: "Clean up any existing draft versions that might be
\* in limbo"; the query of zenodo_release.py:49.)
ReleasedInTheEnd ==
    /\ MaxFailures < MaxRuns /\ listed = Depositions => <>(phase = "released")
    /\ listed = {} /\ Drafts # {} => [](phase # "released")

=============================================================================
