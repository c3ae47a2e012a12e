--------------------------- MODULE ReleaseUpload ---------------------------
(***************************************************************************)
(* How `gh release create` and `gh release upload` put files on a release  *)
(* (pkg/cmd/release/create, pkg/cmd/release/upload and ConcurrentUpload in *)
(* pkg/cmd/release/shared/upload.go).                                      *)
(*                                                                         *)
(* `create` with files saves the release as a draft, uploads, publishes,   *)
(* and deletes the draft when anything fails.  `upload --clobber` deletes  *)
(* each asset it replaces just before it uploads the new one.  The uploads *)
(* run in an errgroup of Workers goroutines: the first error cancels the   *)
(* context of all of them.  Any request may fail with or without having    *)
(* taken effect, another user may change the release's assets, and gh may  *)
(* be killed.                                                              *)
(***************************************************************************)
EXTENDS Naturals, FiniteSets

CONSTANTS
    Assets,     \* asset names
    Workers,    \* opts.Concurrency
    MaxTries,   \* attempts at one upload (the code: 1 and 3 retries)
    MaxFaults   \* bound on failing requests, kills and other users' changes

ASSUME UploadAssumption ==
    /\ IsFiniteSet(Assets)
    /\ Workers \in Nat \ {0} /\ MaxTries \in Nat \ {0} /\ MaxFaults \in Nat

VARIABLES
    cmd,        \* the command: create, create --draft, upload, upload --clobber
    files,      \* the assets it is to upload
    rel,        \* the release on the server
    content,    \* its assets: none, old, other (another user's) or new (ours)
    pc,         \* where the command is
    existing,   \* the files whose ExistingURL is set
    job,        \* the goroutine of each file
    tries,      \* its attempts so far
    cancelled,  \* whether the errgroup has cancelled its context
    removed,    \* history: old assets this command has deleted
    excuse,     \* history: a create answered with an error, or a failed cleanup
    faults

vars == <<cmd, files, rel, content, pc, existing, job, tries, cancelled, removed, excuse, faults>>
server == <<rel, content, removed>>
group  == <<existing, job, tries, cancelled>>
given  == <<cmd, files>>

-----------------------------------------------------------------------------
Commands == {"create", "draft", "upload", "clobber"}
Active   == {"deleting", "ready", "uploading"}       \* holds a slot of the group
Flying   == {"deleting", "uploading"}                \* a request is under way
Jobs     == Active \cup {"queued", "started", "done", "failed"}
Running  == {"check", "create", "fetch", "upload", "publish", "cleanup"}
Ended    == {"ok", "failed", "killed"}

TypeOK ==
    /\ cmd \in Commands
    /\ files \subseteq Assets /\ existing \subseteq files /\ removed \subseteq existing
    /\ rel \in {"none", "draft", "published", "deleted"}
    /\ content \in [Assets -> {"none", "old", "other", "new"}]
    /\ pc \in Running \cup Ended
    /\ job \in [Assets -> Jobs]
    /\ tries \in [Assets -> 0..MaxTries]
    /\ cancelled \in BOOLEAN /\ excuse \in BOOLEAN
    /\ faults \in 0..MaxFaults

Slots == {a \in Assets : job[a] \in Active \cup {"started"}}

Fault == faults < MaxFaults /\ faults' = faults + 1
Goto(label) == pc' = label

\* The server's side of an upload and of the deletion of a replaced asset:
\* a name is taken once, and an asset's URL does not name its successors.
Stored(a)  == IF content[a] = "none" THEN [content EXCEPT ![a] = "new"] ELSE content
Removed(a) == IF content[a] = "old"  THEN [content EXCEPT ![a] = "none"] ELSE content
Deletes(a) == removed' = IF content'[a] = content[a] THEN removed ELSE removed \cup {a}

-----------------------------------------------------------------------------
\* create: with files, and unless --draft, look for a published release of
\* that tag first (`create` starts at "create" otherwise).
CheckExisting ==
    /\ pc = "check"
    /\ Goto("create") \/ Goto("failed")
    /\ UNCHANGED <<given, server, group, excuse, faults>>

\* draftWhileUploading: a release with files is published after the upload.
SavedAsAsked == IF cmd = "draft" THEN "draft" ELSE "published"
SavedAs == IF cmd = "draft" \/ files # {} THEN "draft" ELSE "published"

CreateRelease ==
    /\ pc = "create"
    /\ \/ /\ rel' = SavedAs
          /\ Goto(IF files = {} THEN "ok" ELSE "upload")
          /\ UNCHANGED <<excuse, faults>>
       \/ /\ Fault
          /\ rel' \in {rel, SavedAs}
          /\ excuse' = TRUE
          /\ Goto("failed")
    /\ UNCHANGED <<given, content, removed, group>>

\* upload: fetch the release, and refuse to replace assets without --clobber.
FetchAssets ==
    LET there == {a \in files : content[a] # "none"}
    IN  /\ pc = "fetch"
        /\ IF there # {} /\ cmd # "clobber"
           THEN Goto("failed") /\ UNCHANGED existing
           ELSE Goto("upload") /\ existing' = there
        /\ UNCHANGED <<given, server, job, tries, cancelled, excuse, faults>>

-----------------------------------------------------------------------------
\* ConcurrentUpload.  g.Go waits for a slot and starts the goroutine, whether
\* or not the context has been cancelled.
StartJob(a) ==
    /\ pc = "upload"
    /\ job[a] = "queued" /\ a \in files
    /\ Cardinality(Slots) < Workers
    /\ job' = [job EXCEPT ![a] = "started"]
    /\ UNCHANGED <<given, server, pc, existing, tries, cancelled, excuse, faults>>

\* A goroutine that returns an error cancels the others before its slot is free.
FailJob(a) == job' = [job EXCEPT ![a] = "failed"] /\ cancelled' = TRUE /\ UNCHANGED tries
To(a, state) == job' = [job EXCEPT ![a] = state] /\ UNCHANGED <<tries, cancelled>>

\* uploadWithDelete: nothing is sent under a cancelled context.
BeginAnyway(a) == To(a, IF a \in existing THEN "deleting" ELSE "ready")
Begin(a) ==
    IF cancelled THEN FailJob(a)
    ELSE To(a, IF a \in existing THEN "deleting" ELSE "ready")
RunJob(a) ==
    /\ pc = "upload" /\ job[a] = "started"
    /\ Begin(a)
    /\ UNCHANGED <<given, server, pc, existing, excuse, faults>>

\* deleteAsset: not retried.
Delete(a) ==
    \/ content[a] = "old" /\ content' = Removed(a) /\ To(a, "ready") /\ UNCHANGED faults
    \/ content[a] # "old" /\ FailJob(a) /\ UNCHANGED <<content, faults>>
    \/ content' \in {content, Removed(a)} /\ FailJob(a) /\ Fault
    \/ content' \in {content, Removed(a)} /\ FailJob(a) /\ cancelled /\ UNCHANGED faults
DeleteAsset(a) ==
    /\ pc = "upload" /\ job[a] = "deleting"
    /\ Delete(a) /\ Deletes(a)
    /\ UNCHANGED <<given, rel, pc, existing, excuse>>

\* backoff.Retry around uploadAsset: the next attempt, or the end of them.
GiveUpNever(a) == UNCHANGED <<job, tries, cancelled>>
GiveUp(a) == FailJob(a)
Attempt(a) ==
    /\ pc = "upload" /\ job[a] = "ready"
    /\ \/ ~cancelled /\ job' = [job EXCEPT ![a] = "uploading"]
                     /\ tries' = [tries EXCEPT ![a] = @ + 1] /\ UNCHANGED cancelled
       \/ cancelled /\ GiveUp(a)
    /\ UNCHANGED <<given, server, pc, existing, excuse, faults>>

Exhausted(a) == cancelled \/ tries[a] = MaxTries
RetryOrFail(a) == IF Exhausted(a) THEN FailJob(a) ELSE To(a, "ready")

\* The server does not take a second asset of the same name (422).
TakenNameIsFine(a) == content[a] # "none" /\ To(a, "done") /\ UNCHANGED <<content, faults>>
TakenName(a) == content[a] # "none" /\ FailJob(a) /\ UNCHANGED <<content, faults>>

\* uploadAsset: network errors and 5xx answers are retried (shouldRetry), any
\* other failure, an answer that cannot be decoded included, is permanent.
Upload(a) ==
    \/ content[a] = "none" /\ content' = Stored(a) /\ To(a, "done") /\ UNCHANGED faults
    \/ TakenName(a)
    \/ content' \in {content, Stored(a)} /\ Fault /\ (RetryOrFail(a) \/ FailJob(a))
    \/ content' \in {content, Stored(a)} /\ FailJob(a) /\ cancelled /\ UNCHANGED faults
UploadAsset(a) ==
    /\ pc = "upload" /\ job[a] = "uploading"
    /\ Upload(a)
    /\ UNCHANGED <<given, rel, removed, pc, existing, excuse>>

\* g.Wait returns when every goroutine has; the command goes on from there.
FirstReturned ==
    (\A a \in files : job[a] = "done") \/ (\E a \in files : job[a] = "failed")
AllReturned == \A a \in files : job[a] \in {"done", "failed"}
WithoutCleanup == Goto("failed")
Fails == IF cmd = "create" THEN Goto("cleanup") ELSE Goto("failed")
Wait ==
    /\ pc = "upload"
    /\ AllReturned
    /\ IF \E a \in files : job[a] = "failed" THEN Fails
       ELSE Goto(IF cmd = "create" THEN "publish" ELSE "ok")
    /\ UNCHANGED <<given, server, group, excuse, faults>>

-----------------------------------------------------------------------------
PublishRelease ==
    /\ pc = "publish"
    /\ \/ rel' = "published" /\ Goto("ok") /\ UNCHANGED faults
       \/ rel' \in {"draft", "published"} /\ Fault /\ Fails
    /\ UNCHANGED <<given, content, removed, group, excuse>>

\* cleanupDraftRelease
DeleteRelease ==
    /\ pc = "cleanup"
    /\ \/ rel' = "deleted" /\ UNCHANGED <<excuse, faults>>
       \/ rel' \in {rel, "deleted"} /\ Fault /\ excuse' = TRUE
    /\ content' = IF rel' = "deleted" THEN [a \in Assets |-> "none"] ELSE content
    /\ Goto("failed")
    /\ UNCHANGED <<given, removed, group>>

\* gh is killed; the requests under way may or may not take effect.
Kill ==
    /\ pc \in Running
    /\ Fault
    /\ \E S \in SUBSET {a \in Assets : job[a] \in Flying} :
         /\ content' = [a \in Assets |-> IF a \notin S THEN content[a]
                          ELSE IF job[a] = "deleting" THEN Removed(a)[a] ELSE Stored(a)[a]]
         /\ removed' = removed \cup {a \in S : job[a] = "deleting" /\ content[a] = "old"}
    /\ Goto("killed")
    /\ UNCHANGED <<given, rel, group, excuse>>

\* Another user works on the same release.
OtherUser(a) ==
    /\ rel \in {"draft", "published"} /\ pc \in Running
    /\ Fault
    /\ \/ content[a] = "none" /\ content' = [content EXCEPT ![a] = "other"]
       \/ content[a] \in {"old", "other"} /\ content' = [content EXCEPT ![a] = "none"]
    /\ UNCHANGED <<given, rel, removed, pc, group, excuse>>

-----------------------------------------------------------------------------
Starts(c, f) ==
    IF c \in {"upload", "clobber"} THEN "fetch"
    ELSE IF c = "create" /\ f # {} THEN "check" ELSE "create"

Init ==
    /\ cmd \in Commands
    /\ files \in SUBSET Assets
    /\ pc = Starts(cmd, files)
    /\ IF pc = "fetch"
       THEN /\ rel \in {"draft", "published"} /\ files # {}
            /\ content \in [Assets -> {"none", "old"}]
       ELSE rel = "none" /\ content = [a \in Assets |-> "none"]
    /\ existing = {} /\ removed = {}
    /\ job = [a \in Assets |-> "queued"]
    /\ tries = [a \in Assets |-> 0]
    /\ cancelled = FALSE /\ excuse = FALSE
    /\ faults = 0

Group(a) == StartJob(a) \/ RunJob(a) \/ DeleteAsset(a) \/ Attempt(a) \/ UploadAsset(a)
Command == CheckExisting \/ CreateRelease \/ FetchAssets \/ Wait \/ PublishRelease \/ DeleteRelease

Next == Command \/ (\E a \in Assets : Group(a) \/ OtherUser(a)) \/ Kill

Spec == Init /\ [][Next]_vars

-----------------------------------------------------------------------------
\* Properties.

\* Users never see a release that `create` published without all its files:
\* that is what the draft is for (create.go).
PublishedComplete ==
    cmd = "create" /\ rel = "published" => \A a \in files : content[a] = "new"

\* A failed `create` leaves nothing behind, unless the server created the
\* release and answered with an error, or the cleanup itself failed.
NothingLeftBehind ==
    cmd = "create" /\ pc = "failed" /\ ~excuse => rel \in {"none", "deleted"}

\* A command that reports success has stored every file it was given, and
\* the release is public exactly if that was asked for.
SuccessMeansDone ==
    pc = "ok" =>
        /\ \A a \in files : content[a] = "new"
        /\ cmd \in {"create", "draft"} => rel = SavedAsAsked

\* However `upload --clobber` ends, and whoever else is at work, no more
\* assets are deleted without a replacement than there are workers.
LostAssets == {a \in removed : content[a] = "none"}
LossBounded == cmd = "clobber" => Cardinality(LostAssets) <= Workers

\* The release is published or deleted only when no upload is under way: the
\* group is joined, not abandoned, on the first error.
Joined == pc \notin {"upload", "killed"} => Slots = {}
=============================================================================
