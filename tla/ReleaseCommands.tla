--------------------------- MODULE ReleaseCommands ---------------------------
(***************************************************************************)
(* The commands on one release.  All but `create` look it up by its tag    *)
(* first (ReleaseFetch), and go on with what they found: upload assets     *)
(* (ReleaseUpload, which has `create` too), delete or edit (ReleaseChange) *)
(* or download it (ReleaseDownload).  Other users create, publish and      *)
(* delete the release of that tag meanwhile.                               *)
(***************************************************************************)
EXTENDS ReleaseUpload, Sequences

CONSTANT MaxChanges  \* bound on the changes that other users make to the release

ASSUME ChangesAssumption == MaxChanges \in Nat

VARIABLES
    stage,  \* "fetch", then the part of the command: "upload", "change" or "download"; "ended"
    verb,   \* "create", "upload", "download" or a verb of ReleaseChange
    id, lookup, draftID, results, fetchCancelled, fetchPc, fetchRes, absent, movedOn, changes, \* of ReleaseFetch
    asset, tag, opts, changePc, changeRes, found, seen,                                        \* of ReleaseChange
    file, flag, loadPc, loadRes, load, before, again                                           \* of ReleaseDownload

Lookup == INSTANCE ReleaseFetch WITH pc <- fetchPc, res <- fetchRes, cancelled <- fetchCancelled
Modify == INSTANCE ReleaseChange WITH pc <- changePc, res <- changeRes
Loading == INSTANCE ReleaseDownload WITH pc <- loadPc, res <- loadRes, job <- load

uploading == <<cmd, files, content, pc, existing, job, tries, cancelled, removed, excuse>>
fetching  == <<id, lookup, draftID, results, fetchCancelled, fetchPc, fetchRes, absent, movedOn, changes>>
modifying == <<asset, tag, opts, changePc, changeRes, found, seen>>
loading   == <<file, flag, loadPc, loadRes, load, before, again>>
allVars == <<stage, verb, rel, uploading, fetching, modifying, loading, faults>>

-----------------------------------------------------------------------------
\* FetchRelease, while others change the release of the tag.  A new one has no
\* assets, and publishing it makes its tag.
Fetching(A) == stage = "fetch" /\ A /\ UNCHANGED <<stage, verb, rel, uploading, modifying, loading>>
OthersChange ==
    /\ stage \in {"fetch", "change"} /\ rel' \in {"none", "draft", "published"}
    /\ Lookup!Others
    /\ IF verb \notin Modify!Verbs THEN UNCHANGED <<asset, tag>>
       ELSE /\ asset' \in {IF rel' = "none" THEN 0 ELSE asset, IF rel' # "none" THEN id' ELSE 0}
            /\ tag' = (tag \/ rel' = "published")
    /\ UNCHANGED <<stage, verb, uploading, opts, changePc, changeRes, found, seen, loading>>

\* The command goes on with the release that was found.  What it needs no longer is
\* forgotten.  A release that is gone by then fails an upload or a download.  Which
\* assets the release has matters only from then on.
Forget ==
    /\ draftID' = 0 /\ absent' = FALSE /\ movedOn' = FALSE /\ fetchCancelled' = TRUE
    /\ fetchRes' = [answer |-> "release", id |-> 1]
    /\ UNCHANGED <<lookup, results, fetchPc>>
Answered(a) == stage = "fetch" /\ fetchPc = "returned" /\ (a <=> fetchRes.answer = "release")
StillThere == rel # "none" /\ id = fetchRes.id
NotFound ==
    /\ Answered(FALSE) /\ stage' = "ended"
    /\ UNCHANGED <<verb, rel, uploading, fetching, modifying, loading, faults>>
ToUpload ==
    /\ Answered(TRUE) /\ verb = "upload"
    /\ \/ StillThere /\ stage' = "upload" /\ cmd' \in {"upload", "clobber"}
          /\ files' \in SUBSET Assets \ {{}} /\ content' \in [Assets -> {"none", "old"}]
       \/ ~StillThere /\ stage' = "ended" /\ UNCHANGED <<cmd, files, content>>
    /\ Forget /\ changes' = 0 /\ id' = 1
    /\ UNCHANGED <<verb, rel, pc, existing, job, tries, cancelled, removed, excuse, modifying, loading, faults>>
ToChange ==
    /\ Answered(TRUE) /\ verb \in Modify!Verbs
    /\ Modify!Begin(fetchRes.id) /\ stage' = "change"
    /\ Forget /\ UNCHANGED <<id, changes, uploading, loading>>
ToDownload ==
    /\ Answered(TRUE) /\ verb = "download"
    /\ \/ StillThere /\ Loading!Begin /\ stage' = "download"
       \/ ~StillThere /\ stage' = "ended" /\ UNCHANGED <<loading, faults>>
    /\ Forget /\ changes' = 0 /\ id' = 1
    /\ UNCHANGED <<verb, rel, uploading, modifying>>

-----------------------------------------------------------------------------
Uploading(A) == stage = "upload" /\ A /\ UNCHANGED <<stage, verb, fetching, modifying, loading>>
Changing(A) == stage = "change" /\ A /\ UNCHANGED <<stage, uploading, fetching, loading>>
Downloading(A) == stage = "download" /\ A /\ UNCHANGED <<stage, verb, rel, uploading, fetching, modifying>>
End ==
    /\ \/ stage = "upload" /\ pc \in Ended
       \/ stage = "change" /\ changePc = "done"
       \/ stage = "download" /\ loadPc = "done" /\ (loadRes = "ok" \/ again)
    /\ stage' = "ended"
    /\ UNCHANGED <<verb, rel, uploading, fetching, modifying, loading, faults>>

\* Each command begins as its module says, an upload when the release is found.
NoFiles == file = [a \in Assets |-> "none"] /\ flag = "none"
NoUpload ==
    /\ cmd = "upload" /\ files = {} /\ pc = "fetch" /\ existing = {} /\ removed = {}
    /\ job = [a \in Assets |-> "queued"] /\ tries = [a \in Assets |-> 0]
    /\ content = [a \in Assets |-> "none"] /\ cancelled = FALSE /\ excuse = FALSE
CommandsInit ==
    /\ verb \in {"create", "upload", "download"} \cup Modify!Verbs
    /\ IF verb = "create" THEN Init /\ pc # "fetch" ELSE NoUpload
    /\ Lookup!Init
    /\ IF verb \in Modify!Verbs THEN asset \in {0, IF rel = "none" THEN 0 ELSE id} /\ tag = (rel = "published")
                               ELSE asset = 0 /\ opts = {} /\ tag = FALSE
    /\ verb # "download" => NoFiles
    /\ Modify!Init /\ Loading!Init
    /\ stage = IF verb = "create" THEN "upload" ELSE "fetch"

CommandsNext ==
    \/ Fetching(Lookup!Fetch \/ Lookup!FetchRelease) \/ OthersChange
    \/ NotFound \/ ToUpload \/ ToChange \/ ToDownload \/ End
    \/ Uploading(Next) \/ Changing(Modify!Next) \/ Downloading(Loading!Next)

\* gh runs until it is killed, and every request is answered or fails.
CommandsFairness ==
    /\ WF_allVars(Fetching(Lookup!Fetch)) /\ WF_allVars(Fetching(Lookup!FetchRelease))
    /\ WF_allVars(NotFound \/ ToUpload \/ ToChange \/ ToDownload \/ End)
    /\ WF_allVars(Uploading(Command)) /\ \A a \in Assets : WF_allVars(Uploading(Group(a)))
    /\ WF_allVars(Changing(Modify!Next))
    /\ WF_allVars(Downloading(Loading!Collect)) /\ WF_allVars(Downloading(Loading!Begin))
    /\ \A a \in Assets : WF_allVars(Downloading(Loading!Download(a)))
CommandsSpec == CommandsInit /\ [][CommandsNext]_allVars /\ CommandsFairness

-----------------------------------------------------------------------------
\* Properties, with those of ReleaseUpload.

\* Every command comes to an end, whatever its lookup and its requests come to.
CommandEnds == <>(stage = "ended" \/ (stage = "download" /\ loadPc = "done"))

\* FetchRelease answers with what the tag or a failure accounts for, and leaves
\* no goroutine behind (stated in ReleaseFetch).
AnswerHonest == Lookup!AnswerHonest

\* delete, delete-asset and edit change the release that the user was asked about,
\* and no other that has taken its tag meanwhile; and a tag is deleted only
\* when asked for, and after a release of that tag.
OnlyTheFound == [][
    stage = "change" /\ changes' = changes =>
      /\ rel' # rel \/ asset' # asset => id = found
      /\ tag /\ ~tag' => "cleanup_tag" \in opts /\ (rel = "none" \/ id # found)
    ]_allVars

\* A download that reports success has the whole of each asset in its file, but
\* for files that --skip-existing found there; and only with --clobber is a file
\* touched that was there when the command began, whichever worker comes to
\* it and whatever others write meanwhile (destinationWriter, downloadAssets).
FilesRight == [][
    stage = "download" =>
      /\ loadRes' = "ok" => \A a \in Assets : file'[a] = "whole" \/ (flag = "skip" /\ load[a] = "skipped")
      /\ loadPc = "run" /\ flag # "clobber" => \A a \in before : file'[a] = file[a]
    ]_allVars
=============================================================================
