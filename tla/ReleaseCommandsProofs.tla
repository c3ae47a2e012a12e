------------------------ MODULE ReleaseCommandsProofs ------------------------
(***************************************************************************)
(* For any number of files, workers, attempts and faults, and whatever     *)
(* others do to the release meanwhile: what `release create` publishes is  *)
(* complete, what it fails to publish is cleaned up, `release upload       *)
(* --clobber` loses at most as many assets as it has workers, the lookup   *)
(* that the other commands begin with answers honestly, `delete` and       *)
(* `edit` change only the release that it found, and `download` leaves     *)
(* whole files and those of the user alone.                                *)
(*                                                                         *)
(* The first part is about the upload by itself (IInv, an invariant of     *)
(* ReleaseUpload), where the argument about lost assets is: as long as the *)
(* context is not cancelled, an asset whose deletion has been sent and     *)
(* whose replacement is not stored belongs to a goroutine that holds a     *)
(* slot; once it is cancelled no further deletion is sent, so that set     *)
(* only shrinks.  The second part is about the commands: CInv has IInv and *)
(* an invariant for each of the other parts.                               *)
(***************************************************************************)
EXTENDS ReleaseCommands, FiniteSetTheorems, TLAPS

\* Where the release is, by where the command is.
RelInv ==
    /\ pc \in {"check", "publish", "cleanup"} => cmd = "create"
    /\ pc = "create" => cmd \in {"create", "draft"}
    /\ pc = "fetch" => cmd \in {"upload", "clobber"}
    /\ pc \in {"check", "create"} => rel = "none"
    /\ cmd = "create" /\ pc \in {"upload", "publish"} => rel = "draft"
    /\ cmd = "draft" /\ pc = "upload" => rel = "draft"
    /\ rel = "deleted" => pc = "failed" /\ cmd = "create"
    /\ cmd = "create" /\ rel = "published" => \A a \in files : job[a] = "done"
    /\ pc = "ok" /\ cmd \in {"create", "draft"} => rel = SavedAsAsked

JobInv ==
    /\ rel # "deleted" => \A a \in Assets : job[a] = "done" => content[a] = "new"
    /\ \A a \in Assets : job[a] = "failed" => cancelled
    /\ pc \in {"publish", "ok"} => \A a \in files : job[a] = "done"
    /\ pc \in {"check", "create", "fetch"} => \A a \in Assets : job[a] = "queued"
    /\ \A a \in Assets \ files : job[a] = "queued"
    /\ pc \in {"check", "create", "fetch"} => removed = {}
    /\ cmd # "clobber" => existing = {}

\* An attempt is only made while there is one left.
TriesInv ==
    \A a \in Assets :
        /\ job[a] = "ready" => tries[a] < MaxTries
        /\ job[a] \in {"queued", "started", "deleting"} => tries[a] = 0
        /\ job[a] = "deleting" => a \in existing

\* Assets whose deletion has been sent and whose replacement is not stored.
AtRisk == {a \in Assets : (a \in removed \/ job[a] = "deleting") /\ job[a] # "done"}

LossInv ==
    /\ Cardinality(Slots) <= Workers
    /\ ~cancelled => AtRisk \subseteq Slots
    /\ Cardinality(AtRisk) <= Workers
    /\ \A a \in removed : job[a] \notin {"queued", "started"}

IInv == TypeOK /\ RelInv /\ JobInv /\ TriesInv /\ LossInv /\ Joined /\ NothingLeftBehind

-----------------------------------------------------------------------------
LEMMA Finite ==
    ASSUME UploadAssumption
    PROVE  IsFiniteSet(Slots) /\ IsFiniteSet(AtRisk) /\ IsFiniteSet(Slots') /\ IsFiniteSet(AtRisk')
<1>1. Slots \subseteq Assets /\ AtRisk \subseteq Assets /\ Slots' \subseteq Assets /\ AtRisk' \subseteq Assets
  BY DEF Slots, AtRisk
<1> QED BY <1>1, FS_Subset DEF UploadAssumption

\* A step that takes no slot and sends no deletion under a cancelled context.
LEMMA LossKept ==
    ASSUME UploadAssumption, LossInv,
           Slots' \subseteq Slots,
           AtRisk' \subseteq AtRisk \/ AtRisk' \subseteq Slots',
           ~cancelled' => AtRisk' \subseteq Slots',
           \A a \in removed' : job'[a] \notin {"queued", "started"}
    PROVE  LossInv'
<1> DEFINE S == Slots  S1 == Slots'  A == AtRisk  A1 == AtRisk'
<1>1. IsFiniteSet(S) /\ IsFiniteSet(A) /\ IsFiniteSet(S1)
  BY Finite
<1>2. Cardinality(S) <= Workers /\ Cardinality(A) <= Workers
  BY DEF LossInv
<1>3. Cardinality(S1) <= Workers
  <2>1. Cardinality(S1) <= Cardinality(S)
    BY <1>1, FS_Subset
  <2>2. Cardinality(S) \in Nat /\ Cardinality(S1) \in Nat
    BY <1>1, FS_CardinalityType
  <2> QED BY <2>1, <2>2, <1>2 DEF UploadAssumption
<1>4. Cardinality(A1) <= Workers
  <2>1. CASE A1 \subseteq A
    <3>1. Cardinality(A1) <= Cardinality(A) /\ IsFiniteSet(A1)
      BY <1>1, <2>1, FS_Subset
    <3>2. Cardinality(A) \in Nat /\ Cardinality(A1) \in Nat
      BY <1>1, <3>1, FS_CardinalityType
    <3> QED BY <3>1, <3>2, <1>2 DEF UploadAssumption
  <2>2. CASE A1 \subseteq S1
    <3>1. Cardinality(A1) <= Cardinality(S1) /\ IsFiniteSet(A1)
      BY <1>1, <2>2, FS_Subset
    <3>2. Cardinality(S1) \in Nat /\ Cardinality(A1) \in Nat
      BY <1>1, <3>1, FS_CardinalityType
    <3> QED BY <3>1, <3>2, <1>3 DEF UploadAssumption
  <2> QED BY <2>1, <2>2
<1> QED BY <1>3, <1>4 DEF LossInv

\* A step that leaves the goroutines and the deleted assets alone.
LEMMA LossUnchanged ==
    ASSUME LossInv, UNCHANGED <<job, cancelled, removed>>
    PROVE  LossInv'
BY DEF LossInv, Slots, AtRisk

-----------------------------------------------------------------------------
LEMMA InitIInv == ASSUME UploadAssumption, Init PROVE IInv
<1>0. faults \in 0..MaxFaults /\ tries \in [Assets -> 0..MaxTries] /\ content \in [Assets -> {"none", "old", "other", "new"}]
  BY DEF Init, UploadAssumption
<1>1. TypeOK
  BY <1>0 DEF Init, Starts, TypeOK, Commands, Running, Ended, Jobs, Active
<1>4. RelInv /\ JobInv /\ TriesInv /\ NothingLeftBehind
  BY DEF UploadAssumption, TriesInv, Init, Starts, RelInv, JobInv, NothingLeftBehind, Commands
<1>2. Slots = {} /\ AtRisk = {}
  BY DEF Init, Slots, AtRisk, Active
<1>3. LossInv /\ Joined
  BY <1>2, FS_EmptySet DEF Init, LossInv, Joined, UploadAssumption
<1> QED BY <1>1, <1>4, <1>3 DEF IInv

LEMMA CheckExistingPreserves ==
    ASSUME UploadAssumption, IInv, CheckExisting
    PROVE  IInv'
<1> USE DEF IInv, Fault, Goto, given, group, server
<1>1. TypeOK'
  <2>1. faults' \in 0..MaxFaults
    BY DEF TypeOK, UploadAssumption, CheckExisting
  <2>2. content' \in [Assets -> {"none", "old", "other", "new"}] /\ rel' \in {"none", "draft", "published", "deleted"}
    BY DEF TypeOK, SavedAs, CheckExisting
  <2>3. pc' \in Running \cup Ended /\ excuse' \in BOOLEAN /\ existing' \subseteq files /\ removed' \subseteq existing'
    BY DEF TypeOK, JobInv, Running, Ended, CheckExisting
  <2> QED BY <2>1, <2>2, <2>3 DEF TypeOK, CheckExisting
<1>2. RelInv' /\ NothingLeftBehind'
  BY DEF TypeOK, RelInv, JobInv, NothingLeftBehind, SavedAs, SavedAsAsked, Active, Jobs, Commands, CheckExisting
<1>3. JobInv'
  BY DEF TypeOK, RelInv, JobInv, Active, Jobs, Commands, CheckExisting
<1>6. TriesInv'
  BY DEF TypeOK, JobInv, TriesInv, UploadAssumption, CheckExisting
<1>4. Joined'
  BY DEF TypeOK, RelInv, JobInv, Joined, Slots, Active, Jobs, Running, Ended, Commands, CheckExisting
<1>5. LossInv'
  BY LossUnchanged DEF CheckExisting
<1> QED BY <1>1, <1>2, <1>3, <1>4, <1>5, <1>6

LEMMA CreateReleasePreserves ==
    ASSUME UploadAssumption, IInv, CreateRelease
    PROVE  IInv'
<1> USE DEF IInv, Fault, Goto, given, group, server
<1>1. TypeOK'
  <2>1. faults' \in 0..MaxFaults
    BY DEF TypeOK, UploadAssumption, CreateRelease
  <2>2. content' \in [Assets -> {"none", "old", "other", "new"}] /\ rel' \in {"none", "draft", "published", "deleted"}
    BY DEF TypeOK, SavedAs, CreateRelease
  <2>3. pc' \in Running \cup Ended /\ excuse' \in BOOLEAN /\ existing' \subseteq files /\ removed' \subseteq existing'
    BY DEF TypeOK, JobInv, Running, Ended, CreateRelease
  <2> QED BY <2>1, <2>2, <2>3 DEF TypeOK, CreateRelease
<1>2. RelInv' /\ NothingLeftBehind'
  BY DEF TypeOK, RelInv, JobInv, NothingLeftBehind, SavedAs, SavedAsAsked, Active, Jobs, Commands, CreateRelease
<1>3. JobInv'
  BY DEF TypeOK, RelInv, JobInv, Active, Jobs, Commands, CreateRelease
<1>6. TriesInv'
  BY DEF TypeOK, JobInv, TriesInv, UploadAssumption, CreateRelease
<1>4. Joined'
  BY DEF TypeOK, RelInv, JobInv, Joined, Slots, Active, Jobs, Running, Ended, Commands, CreateRelease
<1>5. LossInv'
  BY LossUnchanged DEF CreateRelease
<1> QED BY <1>1, <1>2, <1>3, <1>4, <1>5, <1>6

LEMMA FetchAssetsPreserves ==
    ASSUME UploadAssumption, IInv, FetchAssets
    PROVE  IInv'
<1> USE DEF IInv, Fault, Goto, given, group, server
<1>1. TypeOK'
  <2>1. faults' \in 0..MaxFaults
    BY DEF TypeOK, UploadAssumption, FetchAssets
  <2>2. content' \in [Assets -> {"none", "old", "other", "new"}] /\ rel' \in {"none", "draft", "published", "deleted"}
    BY DEF TypeOK, SavedAs, FetchAssets
  <2>3. pc' \in Running \cup Ended /\ excuse' \in BOOLEAN /\ existing' \subseteq files /\ removed' \subseteq existing'
    BY DEF TypeOK, JobInv, Running, Ended, FetchAssets
  <2> QED BY <2>1, <2>2, <2>3 DEF TypeOK, FetchAssets
<1>2. RelInv' /\ NothingLeftBehind'
  BY DEF TypeOK, RelInv, JobInv, NothingLeftBehind, SavedAs, SavedAsAsked, Active, Jobs, Commands, FetchAssets
<1>3. JobInv'
  BY DEF TypeOK, RelInv, JobInv, Active, Jobs, Commands, FetchAssets
<1>6. TriesInv'
  BY DEF TypeOK, JobInv, TriesInv, UploadAssumption, FetchAssets
<1>4. Joined'
  BY DEF TypeOK, RelInv, JobInv, Joined, Slots, Active, Jobs, Running, Ended, Commands, FetchAssets
<1>5. LossInv'
  BY LossUnchanged DEF FetchAssets
<1> QED BY <1>1, <1>2, <1>3, <1>4, <1>5, <1>6

LEMMA WaitPreserves ==
    ASSUME UploadAssumption, IInv, Wait
    PROVE  IInv'
<1> USE DEF IInv, Fault, Goto, given, group, server
<1>1. TypeOK'
  <2>1. faults' \in 0..MaxFaults
    BY DEF TypeOK, UploadAssumption, Wait, AllReturned, Fails
  <2>2. content' \in [Assets -> {"none", "old", "other", "new"}] /\ rel' \in {"none", "draft", "published", "deleted"}
    BY DEF TypeOK, SavedAs, Wait, AllReturned, Fails
  <2>3. pc' \in Running \cup Ended /\ excuse' \in BOOLEAN /\ existing' \subseteq files /\ removed' \subseteq existing'
    BY DEF TypeOK, JobInv, Running, Ended, Wait, AllReturned, Fails
  <2> QED BY <2>1, <2>2, <2>3 DEF TypeOK, Wait, AllReturned, Fails
<1>2. RelInv' /\ NothingLeftBehind'
  BY DEF TypeOK, RelInv, JobInv, NothingLeftBehind, SavedAs, SavedAsAsked, Active, Jobs, Commands, Wait, AllReturned, Fails
<1>3. JobInv'
  BY DEF TypeOK, RelInv, JobInv, Active, Jobs, Commands, Wait, AllReturned, Fails
<1>6. TriesInv'
  BY DEF TypeOK, JobInv, TriesInv, UploadAssumption, Wait, AllReturned, Fails
<1>4. Joined'
  BY DEF TypeOK, RelInv, JobInv, Joined, Slots, Active, Jobs, Running, Ended, Commands, Wait, AllReturned, Fails
<1>5. LossInv'
  BY LossUnchanged DEF Wait
<1> QED BY <1>1, <1>2, <1>3, <1>4, <1>5, <1>6

LEMMA PublishReleasePreserves ==
    ASSUME UploadAssumption, IInv, PublishRelease
    PROVE  IInv'
<1> USE DEF IInv, Fault, Goto, given, group, server
<1>1. TypeOK'
  <2>1. faults' \in 0..MaxFaults
    BY DEF TypeOK, UploadAssumption, PublishRelease, Fails
  <2>2. content' \in [Assets -> {"none", "old", "other", "new"}] /\ rel' \in {"none", "draft", "published", "deleted"}
    BY DEF TypeOK, SavedAs, PublishRelease, Fails
  <2>3. pc' \in Running \cup Ended /\ excuse' \in BOOLEAN /\ existing' \subseteq files /\ removed' \subseteq existing'
    BY DEF TypeOK, JobInv, Running, Ended, PublishRelease, Fails
  <2> QED BY <2>1, <2>2, <2>3 DEF TypeOK, PublishRelease, Fails
<1>2. RelInv' /\ NothingLeftBehind'
  BY DEF TypeOK, RelInv, JobInv, NothingLeftBehind, SavedAs, SavedAsAsked, Active, Jobs, Commands, PublishRelease, Fails
<1>3. JobInv'
  BY DEF TypeOK, RelInv, JobInv, Active, Jobs, Commands, PublishRelease, Fails
<1>6. TriesInv'
  BY DEF TypeOK, JobInv, TriesInv, UploadAssumption, PublishRelease, Fails
<1>4. Joined'
  BY DEF TypeOK, RelInv, JobInv, Joined, Slots, Active, Jobs, Running, Ended, Commands, PublishRelease, Fails
<1>5. LossInv'
  BY LossUnchanged DEF PublishRelease
<1> QED BY <1>1, <1>2, <1>3, <1>4, <1>5, <1>6

LEMMA DeleteReleasePreserves ==
    ASSUME UploadAssumption, IInv, DeleteRelease
    PROVE  IInv'
<1> USE DEF IInv, Fault, Goto, given, group, server
<1>1. TypeOK'
  <2>1. faults' \in 0..MaxFaults
    BY DEF TypeOK, UploadAssumption, DeleteRelease
  <2>2. content' \in [Assets -> {"none", "old", "other", "new"}] /\ rel' \in {"none", "draft", "published", "deleted"}
    BY DEF TypeOK, SavedAs, DeleteRelease
  <2>3. pc' \in Running \cup Ended /\ excuse' \in BOOLEAN /\ existing' \subseteq files /\ removed' \subseteq existing'
    BY DEF TypeOK, JobInv, Running, Ended, DeleteRelease
  <2> QED BY <2>1, <2>2, <2>3 DEF TypeOK, DeleteRelease
<1>2. RelInv' /\ NothingLeftBehind'
  BY DEF TypeOK, RelInv, JobInv, NothingLeftBehind, SavedAs, SavedAsAsked, Active, Jobs, Commands, DeleteRelease
<1>3. JobInv'
  BY DEF TypeOK, RelInv, JobInv, Active, Jobs, Commands, DeleteRelease
<1>6. TriesInv'
  BY DEF TypeOK, JobInv, TriesInv, UploadAssumption, DeleteRelease
<1>4. Joined'
  BY DEF TypeOK, RelInv, JobInv, Joined, Slots, Active, Jobs, Running, Ended, Commands, DeleteRelease
<1>5. LossInv'
  BY LossUnchanged DEF DeleteRelease
<1> QED BY <1>1, <1>2, <1>3, <1>4, <1>5, <1>6

LEMMA OtherUserPreserves ==
    ASSUME UploadAssumption, IInv, NEW a \in Assets, OtherUser(a)
    PROVE  IInv'
<1> USE DEF IInv, Fault, Goto, given, group, server
<1>1. TypeOK'
  <2>1. faults' \in 0..MaxFaults
    BY DEF TypeOK, UploadAssumption, OtherUser
  <2>2. content' \in [Assets -> {"none", "old", "other", "new"}] /\ rel' \in {"none", "draft", "published", "deleted"}
    BY DEF TypeOK, SavedAs, OtherUser
  <2>3. pc' \in Running \cup Ended /\ excuse' \in BOOLEAN /\ existing' \subseteq files /\ removed' \subseteq existing'
    BY DEF TypeOK, JobInv, Running, Ended, OtherUser
  <2> QED BY <2>1, <2>2, <2>3 DEF TypeOK, OtherUser
<1>2. RelInv' /\ NothingLeftBehind'
  BY DEF TypeOK, RelInv, JobInv, NothingLeftBehind, SavedAs, SavedAsAsked, Active, Jobs, Commands, OtherUser
<1>3. JobInv'
  BY DEF TypeOK, RelInv, JobInv, Active, Jobs, Commands, OtherUser
<1>6. TriesInv'
  BY DEF TypeOK, JobInv, TriesInv, UploadAssumption, OtherUser
<1>4. Joined'
  BY DEF TypeOK, RelInv, JobInv, Joined, Slots, Active, Jobs, Running, Ended, Commands, OtherUser
<1>5. LossInv'
  BY LossUnchanged DEF OtherUser
<1> QED BY <1>1, <1>2, <1>3, <1>4, <1>5, <1>6

LEMMA StartJobPreserves ==
    ASSUME UploadAssumption, IInv, NEW a \in Assets, StartJob(a)
    PROVE  IInv'
<1> USE DEF IInv, Fault, Goto, given, group, server
<1>1. TypeOK'
  <2>1. faults' \in 0..MaxFaults
    BY DEF TypeOK, UploadAssumption, StartJob
  <2>2. content' \in [Assets -> {"none", "old", "other", "new"}]
    BY DEF TypeOK, StartJob
  <2>3. job' \in [Assets -> Jobs] /\ cancelled' \in BOOLEAN
    BY DEF TypeOK, Jobs, Active, StartJob
  <2>4. tries' \in [Assets -> 0..MaxTries]
    BY DEF TypeOK, StartJob
  <2>5. removed' \subseteq existing'
    BY DEF TypeOK, JobInv, StartJob
  <2> QED BY <2>1, <2>2, <2>3, <2>4, <2>5 DEF TypeOK, StartJob
<1>2. RelInv' /\ NothingLeftBehind'
  BY DEF TypeOK, RelInv, JobInv, NothingLeftBehind, SavedAsAsked, StartJob
<1>3. JobInv'
  BY DEF TypeOK, RelInv, JobInv, StartJob
<1>6. TriesInv'
  BY DEF TypeOK, JobInv, TriesInv, UploadAssumption, StartJob
<1>4. Joined'
  BY DEF Joined, StartJob
<1>5. LossInv'
  <2>1. Slots' = Slots \cup {a} /\ a \notin Slots /\ AtRisk' = AtRisk
    BY DEF TypeOK, Slots, Active, AtRisk, LossInv, StartJob
  <2>2. Cardinality(Slots)' = Cardinality(Slots) + 1 /\ Cardinality(Slots) \in Nat
    BY <2>1, Finite, FS_AddElement, FS_CardinalityType
  <2>3. Cardinality(Slots)' <= Workers
    BY <2>2 DEF StartJob, UploadAssumption
  <2>4. Cardinality(AtRisk)' <= Workers
    BY <2>1 DEF LossInv
  <2>5. ~cancelled' => AtRisk' \subseteq Slots'
    BY <2>1 DEF LossInv, StartJob
  <2>6. \A x \in removed' : job'[x] \notin {"queued", "started"}
    BY DEF TypeOK, LossInv, StartJob
  <2> QED BY <2>3, <2>4, <2>5, <2>6 DEF LossInv
<1> QED BY <1>1, <1>2, <1>3, <1>4, <1>5, <1>6

LEMMA RunJobPreserves ==
    ASSUME UploadAssumption, IInv, NEW a \in Assets, RunJob(a)
    PROVE  IInv'
<1> USE DEF IInv, Fault, Goto, given, group, server
<1>1. TypeOK'
  <2>1. faults' \in 0..MaxFaults
    BY DEF TypeOK, UploadAssumption, RunJob, Begin, FailJob, To
  <2>2. content' \in [Assets -> {"none", "old", "other", "new"}]
    BY DEF TypeOK, RunJob, Begin, FailJob, To
  <2>3. job' \in [Assets -> Jobs] /\ cancelled' \in BOOLEAN
    BY DEF TypeOK, Jobs, Active, RunJob, Begin, FailJob, To
  <2>4. tries' \in [Assets -> 0..MaxTries]
    BY DEF TypeOK, RunJob, Begin, FailJob, To
  <2>5. removed' \subseteq existing'
    BY DEF TypeOK, JobInv, RunJob, Begin, FailJob, To
  <2> QED BY <2>1, <2>2, <2>3, <2>4, <2>5 DEF TypeOK, RunJob, Begin, FailJob, To
<1>2. RelInv' /\ NothingLeftBehind'
  BY DEF TypeOK, RelInv, JobInv, NothingLeftBehind, SavedAsAsked, RunJob, Begin, FailJob, To
<1>3. JobInv'
  BY DEF TypeOK, RelInv, JobInv, RunJob, Begin, FailJob, To
<1>6. TriesInv'
  BY DEF TypeOK, JobInv, TriesInv, UploadAssumption, RunJob, Begin, FailJob, To
<1>4. Joined'
  BY DEF Joined, RunJob, Begin, FailJob, To
<1>5. LossInv'
  <2>1. Slots' \subseteq Slots
    BY DEF TypeOK, Slots, Active, RunJob, Begin, FailJob, To
  <2>2. ~cancelled' => AtRisk' \subseteq Slots'
    BY DEF TypeOK, AtRisk, LossInv, JobInv, Slots, Active, RunJob, Begin, FailJob, To
  <2>3. AtRisk' \subseteq AtRisk \/ AtRisk' \subseteq Slots'
    <3>1. CASE cancelled
      BY <3>1 DEF TypeOK, AtRisk, RunJob, Begin, FailJob, To
    <3>2. CASE ~cancelled
      BY <3>2, <2>2 DEF TypeOK, RunJob, Begin, FailJob, To
    <3> QED BY <3>1, <3>2
  <2>4. \A x \in removed' : job'[x] \notin {"queued", "started"}
    BY DEF TypeOK, LossInv, RunJob, Begin, FailJob, To
  <2> QED BY <2>1, <2>2, <2>3, <2>4, LossKept
<1> QED BY <1>1, <1>2, <1>3, <1>4, <1>5, <1>6

LEMMA DeleteAssetPreserves ==
    ASSUME UploadAssumption, IInv, NEW a \in Assets, DeleteAsset(a)
    PROVE  IInv'
<1> USE DEF IInv, Fault, Goto, given, group, server
<1>1. TypeOK'
  <2>1. faults' \in 0..MaxFaults
    BY DEF TypeOK, UploadAssumption, DeleteAsset, Delete, Deletes, Removed, FailJob, To
  <2>2. content' \in [Assets -> {"none", "old", "other", "new"}]
    BY DEF TypeOK, DeleteAsset, Delete, Deletes, Removed, FailJob, To
  <2>3. job' \in [Assets -> Jobs] /\ cancelled' \in BOOLEAN
    BY DEF TypeOK, Jobs, Active, DeleteAsset, Delete, Deletes, Removed, FailJob, To
  <2>4. tries' \in [Assets -> 0..MaxTries]
    BY DEF TypeOK, DeleteAsset, Delete, Deletes, Removed, FailJob, To
  <2>5. removed' \subseteq existing'
    BY DEF TypeOK, JobInv, TriesInv, DeleteAsset, Delete, Deletes, Removed, FailJob, To
  <2> QED BY <2>1, <2>2, <2>3, <2>4, <2>5 DEF TypeOK, DeleteAsset, Delete, Deletes, Removed, FailJob, To
<1>2. RelInv' /\ NothingLeftBehind'
  BY DEF TypeOK, RelInv, JobInv, NothingLeftBehind, SavedAsAsked, DeleteAsset, Delete, Deletes, Removed, FailJob, To
<1>3. JobInv'
  BY DEF TypeOK, RelInv, JobInv, DeleteAsset, Delete, Deletes, Removed, FailJob, To
<1>6. TriesInv'
  BY DEF TypeOK, JobInv, TriesInv, UploadAssumption, DeleteAsset, Delete, Deletes, Removed, FailJob, To
<1>4. Joined'
  BY DEF Joined, DeleteAsset, Delete, Deletes, Removed, FailJob, To
<1>5. LossInv'
  <2>1. Slots' \subseteq Slots
    BY DEF TypeOK, Slots, Active, DeleteAsset, Delete, Deletes, Removed, FailJob, To
  <2>2. AtRisk' \subseteq AtRisk
    BY DEF TypeOK, AtRisk, JobInv, DeleteAsset, Delete, Deletes, Removed, FailJob, To
  <2>3. ~cancelled' => AtRisk' \subseteq Slots'
    BY DEF TypeOK, AtRisk, LossInv, JobInv, Slots, Active, DeleteAsset, Delete, Deletes, Removed, FailJob, To
  <2>4. \A x \in removed' : job'[x] \notin {"queued", "started"}
    BY DEF TypeOK, LossInv, JobInv, DeleteAsset, Delete, Deletes, Removed, FailJob, To
  <2> QED BY <2>1, <2>2, <2>3, <2>4, LossKept
<1> QED BY <1>1, <1>2, <1>3, <1>4, <1>5, <1>6

LEMMA AttemptPreserves ==
    ASSUME UploadAssumption, IInv, NEW a \in Assets, Attempt(a)
    PROVE  IInv'
<1> USE DEF IInv, Fault, Goto, given, group, server
<1>1. TypeOK'
  <2>1. faults' \in 0..MaxFaults
    BY DEF TypeOK, UploadAssumption, Attempt, GiveUp, FailJob
  <2>2. content' \in [Assets -> {"none", "old", "other", "new"}]
    BY DEF TypeOK, Attempt, GiveUp, FailJob
  <2>3. job' \in [Assets -> Jobs] /\ cancelled' \in BOOLEAN
    BY DEF TypeOK, Jobs, Active, Attempt, GiveUp, FailJob
  <2>4. tries' \in [Assets -> 0..MaxTries]
    <3>1. CASE ~cancelled
      BY <3>1 DEF TypeOK, TriesInv, UploadAssumption, Attempt, GiveUp, FailJob
    <3>2. CASE cancelled
      BY <3>2 DEF TypeOK, Attempt, GiveUp, FailJob
    <3> QED BY <3>1, <3>2 DEF TypeOK
  <2>5. removed' \subseteq existing'
    BY DEF TypeOK, JobInv, Attempt, GiveUp, FailJob
  <2> QED BY <2>1, <2>2, <2>3, <2>4, <2>5 DEF TypeOK, Attempt, GiveUp, FailJob
<1>2. RelInv' /\ NothingLeftBehind'
  BY DEF TypeOK, RelInv, JobInv, NothingLeftBehind, SavedAsAsked, Attempt, GiveUp, FailJob
<1>3. JobInv'
  BY DEF TypeOK, RelInv, JobInv, Attempt, GiveUp, FailJob
<1>6. TriesInv'
  BY DEF TypeOK, JobInv, TriesInv, UploadAssumption, Attempt, GiveUp, FailJob
<1>4. Joined'
  BY DEF Joined, Attempt, GiveUp, FailJob
<1>5. LossInv'
  <2>1. Slots' \subseteq Slots
    BY DEF TypeOK, Slots, Active, Attempt, GiveUp, FailJob
  <2>2. AtRisk' \subseteq AtRisk
    BY DEF TypeOK, AtRisk, JobInv, Attempt, GiveUp, FailJob
  <2>3. ~cancelled' => AtRisk' \subseteq Slots'
    BY DEF TypeOK, AtRisk, LossInv, JobInv, Slots, Active, Attempt, GiveUp, FailJob
  <2>4. \A x \in removed' : job'[x] \notin {"queued", "started"}
    BY DEF TypeOK, LossInv, JobInv, Attempt, GiveUp, FailJob
  <2> QED BY <2>1, <2>2, <2>3, <2>4, LossKept
<1> QED BY <1>1, <1>2, <1>3, <1>4, <1>5, <1>6

LEMMA UploadAssetPreserves ==
    ASSUME UploadAssumption, IInv, NEW a \in Assets, UploadAsset(a)
    PROVE  IInv'
<1> USE DEF IInv, Fault, Goto, given, group, server
<1>1. TypeOK'
  <2>1. faults' \in 0..MaxFaults
    BY DEF TypeOK, UploadAssumption, UploadAsset, Upload, TakenName, RetryOrFail, Exhausted, Stored, FailJob, To
  <2>2. content' \in [Assets -> {"none", "old", "other", "new"}]
    BY DEF TypeOK, UploadAsset, Upload, TakenName, RetryOrFail, Exhausted, Stored, FailJob, To
  <2>3. job' \in [Assets -> Jobs] /\ cancelled' \in BOOLEAN
    BY DEF TypeOK, Jobs, Active, UploadAsset, Upload, TakenName, RetryOrFail, Exhausted, Stored, FailJob, To
  <2>4. tries' \in [Assets -> 0..MaxTries]
    BY DEF TypeOK, UploadAsset, Upload, TakenName, RetryOrFail, Exhausted, Stored, FailJob, To
  <2>5. removed' \subseteq existing'
    BY DEF TypeOK, JobInv, UploadAsset, Upload, TakenName, RetryOrFail, Exhausted, Stored, FailJob, To
  <2> QED BY <2>1, <2>2, <2>3, <2>4, <2>5 DEF TypeOK, UploadAsset, Upload, TakenName, RetryOrFail, Exhausted, Stored, FailJob, To
<1>2. RelInv' /\ NothingLeftBehind'
  BY DEF TypeOK, RelInv, JobInv, NothingLeftBehind, SavedAsAsked, UploadAsset, Upload, TakenName, RetryOrFail, Exhausted, Stored, FailJob, To
<1>3. JobInv'
  BY DEF TypeOK, RelInv, JobInv, UploadAsset, Upload, TakenName, RetryOrFail, Exhausted, Stored, FailJob, To
<1>6. TriesInv'
  BY DEF TypeOK, JobInv, TriesInv, UploadAssumption, UploadAsset, Upload, TakenName, RetryOrFail, Exhausted, Stored, FailJob, To
<1>4. Joined'
  BY DEF Joined, UploadAsset, Upload, TakenName, RetryOrFail, Exhausted, Stored, FailJob, To
<1>5. LossInv'
  <2>1. Slots' \subseteq Slots
    BY DEF TypeOK, Slots, Active, UploadAsset, Upload, TakenName, RetryOrFail, Exhausted, Stored, FailJob, To
  <2>2. AtRisk' \subseteq AtRisk
    BY DEF TypeOK, AtRisk, JobInv, UploadAsset, Upload, TakenName, RetryOrFail, Exhausted, Stored, FailJob, To
  <2>3. ~cancelled' => AtRisk' \subseteq Slots'
    BY DEF TypeOK, AtRisk, LossInv, JobInv, Slots, Active, UploadAsset, Upload, TakenName, RetryOrFail, Exhausted, Stored, FailJob, To
  <2>4. \A x \in removed' : job'[x] \notin {"queued", "started"}
    BY DEF TypeOK, LossInv, JobInv, UploadAsset, Upload, TakenName, RetryOrFail, Exhausted, Stored, FailJob, To
  <2> QED BY <2>1, <2>2, <2>3, <2>4, LossKept
<1> QED BY <1>1, <1>2, <1>3, <1>4, <1>5, <1>6

LEMMA KillPreserves ==
    ASSUME UploadAssumption, IInv, Kill
    PROVE  IInv'
<1> USE DEF IInv, Fault, Goto, given, group
<1>1. PICK F \in SUBSET {a \in Assets : job[a] \in Flying} :
        /\ content' = [a \in Assets |-> IF a \notin F THEN content[a]
                         ELSE IF job[a] = "deleting" THEN Removed(a)[a] ELSE Stored(a)[a]]
        /\ removed' = removed \cup {a \in F : job[a] = "deleting" /\ content[a] = "old"}
  BY DEF Kill
<1>2. TypeOK'
  <2>1. faults' \in 0..MaxFaults
    BY DEF TypeOK, UploadAssumption, Kill
  <2>2. content' \in [Assets -> {"none", "old", "other", "new"}]
    BY <1>1 DEF TypeOK, Removed, Stored
  <2>3. removed' \subseteq existing'
    BY <1>1 DEF TypeOK, TriesInv, Kill
  <2> QED BY <2>1, <2>2, <2>3 DEF TypeOK, Kill, Ended
<1>3. RelInv' /\ NothingLeftBehind' /\ TriesInv' /\ Joined'
  BY DEF TypeOK, RelInv, NothingLeftBehind, TriesInv, Joined, Kill, Running, SavedAsAsked
<1>4. JobInv'
  <2>1. \A a \in Assets : job[a] = "done" => content'[a] = content[a]
    BY <1>1 DEF Flying
  <2> QED BY <2>1 DEF TypeOK, JobInv, Kill, Running
<1>5. LossInv'
  <2>1. Slots' = Slots
    BY DEF Slots, Kill
  <2>2. AtRisk' = AtRisk
    BY <1>1 DEF AtRisk, Kill
  <2>3. \A a \in removed' : job'[a] \notin {"queued", "started"}
    BY <1>1 DEF LossInv, Kill
  <2> QED BY <2>1, <2>2, <2>3, LossKept DEF LossInv, Kill
<1> QED BY <1>2, <1>3, <1>4, <1>5

-----------------------------------------------------------------------------
LEMMA NextPreserves == ASSUME UploadAssumption, IInv, [Next]_vars PROVE IInv'
<1>1. CASE Command
  BY <1>1, CheckExistingPreserves, CreateReleasePreserves, FetchAssetsPreserves, WaitPreserves,
     PublishReleasePreserves, DeleteReleasePreserves DEF Command
<1>2. CASE \E a \in Assets : Group(a)
  BY <1>2, StartJobPreserves, RunJobPreserves, DeleteAssetPreserves, AttemptPreserves,
     UploadAssetPreserves DEF Group
<1>3. CASE \E a \in Assets : OtherUser(a)
  BY <1>3, OtherUserPreserves
<1>4. CASE Kill
  BY <1>4, KillPreserves
<1>5. CASE UNCHANGED vars
  BY <1>5 DEF vars, IInv, TypeOK, RelInv, JobInv, TriesInv, LossInv, Joined, NothingLeftBehind,
              Slots, AtRisk, SavedAsAsked
<1> QED BY <1>1, <1>2, <1>3, <1>4, <1>5 DEF Next

THEOREM Invariance == Spec => []IInv
BY InitIInv, NextPreserves, UploadAssumption, PTL DEF Spec

\* The inductive invariant gives each of the properties.
LEMMA LossSmall == ASSUME UploadAssumption, IInv PROVE LossBounded
<1> DEFINE L == LostAssets  A == AtRisk
<1> SUFFICES ASSUME cmd = "clobber" PROVE Cardinality(L) <= Workers
  BY DEF LossBounded
<1>1. L \subseteq A
  BY DEF LostAssets, AtRisk, IInv, TypeOK, JobInv, RelInv
<1>2. IsFiniteSet(A) /\ Cardinality(A) <= Workers
  BY Finite DEF IInv, LossInv
<1>3. IsFiniteSet(L) /\ Cardinality(L) <= Cardinality(A)
  BY <1>1, <1>2, FS_Subset
<1>4. Cardinality(L) \in Nat /\ Cardinality(A) \in Nat
  BY <1>2, <1>3, FS_CardinalityType
<1> QED BY <1>2, <1>3, <1>4 DEF UploadAssumption

LEMMA Complete == ASSUME IInv PROVE PublishedComplete /\ SuccessMeansDone
BY DEF IInv, TypeOK, RelInv, JobInv, PublishedComplete, SuccessMeansDone

\* Every variable of the upload keeps its type.
THEOREM TypeCorrectness == Spec => []TypeOK
<1>1. IInv => TypeOK
  BY DEF IInv
<1> QED BY <1>1, Invariance, PTL

\* What `create` publishes has all its files: no interleaving of workers,
\* failures and other users makes a half-uploaded release public.
THEOREM Publication == Spec => []PublishedComplete
BY Invariance, Complete, PTL

\* A command that reports success has done all it was asked to.
THEOREM Success == Spec => []SuccessMeansDone
BY Invariance, Complete, PTL

\* A `create` that fails leaves no draft (cleanupDraftRelease).
THEOREM Cleanup == Spec => []NothingLeftBehind
<1>1. IInv => NothingLeftBehind
  BY DEF IInv
<1> QED BY <1>1, Invariance, PTL

\* `upload --clobber` never loses more assets than it has workers.
THEOREM BoundedLoss == Spec => []LossBounded
BY Invariance, LossSmall, UploadAssumption, PTL

\* The goroutines have all returned before the release is published or deleted.
THEOREM Join == Spec => []Joined
<1>1. IInv => Joined
  BY DEF IInv
<1> QED BY <1>1, Invariance, PTL

-----------------------------------------------------------------------------
(* The commands.                                                           *)

\* Before it has found the release, and in the other commands, the upload has
\* not begun.
Began == stage \in {"upload", "ended"}
UploadInv == IInv /\ (~Began => NoUpload /\ rel # "deleted")

\* The lookup.  Every answer that has been sent is still in the channel or has
\* been received, and none is that of a cancelled lookup before FetchRelease
\* cancels one.  When both have answered "not found", the one that looked for a
\* published release saw a draft, the other one a published release, or none.
Back(g) == IF lookup[g] = "returned" THEN 1 ELSE 0
Received == IF fetchPc = "first" THEN 0 ELSE IF fetchPc = "returned" THEN 2 ELSE 1
NoneFound ==
    /\ fetchPc = "first" \/ fetchRes.answer = "notfound"
    /\ \A i \in 1..Len(results) : results[i].answer = "notfound"
Answer == [answer : {"release", "notfound", "failed", "cancelled"}, id : Nat]
AnswersInv ==
    /\ lookup \in [{"published", "draft"} -> {"start", "fetch", "returned"}]
    /\ lookup["published"] # "fetch"
    /\ results \in Seq(Answer)
    /\ fetchPc \in {"first", "second", "drain", "returned"}
    /\ Len(results) + Received = Back("published") + Back("draft")
    /\ fetchPc # "first" => fetchRes \in Answer /\ fetchRes.answer # "cancelled" /\ fetchRes.id <= id
    /\ \A i \in 1..Len(results) : results[i].id <= id
    /\ fetchPc \in {"first", "second"} => \A i \in 1..Len(results) : results[i].answer # "cancelled"
    /\ fetchPc = "second" => fetchRes.answer = "notfound"
    /\ fetchPc = "drain" => fetchRes.answer # "notfound"
    /\ fetchCancelled => fetchPc \in {"drain", "returned"}
NotFoundInv ==
    /\ id \in Nat
    /\ rel = "none" => absent
    /\ lookup["draft"] = "fetch" /\ id # draftID => absent
    /\ fetchPc \in {"first", "second"} /\ NoneFound /\ ~absent /\ ~movedOn =>
         /\ lookup["published"] = "returned" => rel = "draft"
         /\ lookup["draft"] = "returned" => rel = "published"
    /\ fetchPc = "returned" /\ fetchRes.answer = "notfound" => absent \/ movedOn

\* delete, delete-asset and edit.
Changes == verb \in {"delete", "delete_asset", "edit"}
OwnStage == Changes => stage \notin {"upload", "download"}
ChangeInv ==
    /\ OwnStage
    /\ Changes => asset \in {0, id} /\ (rel = "none" => asset = 0)
    /\ stage = "change" => Changes /\ found \in Nat /\ found <= id /\ id \in Nat /\ changes \in Nat
    /\ stage = "change" /\ changePc = "delete_tag" =>
         "cleanup_tag" \in opts /\ (rel = "none" \/ id # found)

\* download.
LoadInv ==
    /\ file \in [Assets -> {"none", "own", "partial", "whole"}]
    /\ load \in [Assets -> {"queued", "get", "open", "write", "ok", "skipped", "failed"}]
    /\ before \subseteq Assets
    /\ loadPc \in {"off", "run", "done"}
    /\ loadPc = "off" => \A a \in Assets : load[a] = "queued"
    /\ \A a \in Assets : load[a] = "ok" => file[a] = "whole"
    /\ \A a \in Assets : load[a] = "skipped" => flag = "skip"
    /\ loadPc = "run" /\ flag # "clobber" =>
         \A a \in before : file[a] # "none" /\ load[a] \in {"queued", "skipped", "failed"}
    /\ loadRes = "ok" => loadPc = "done" /\ \A a \in Assets : load[a] \in {"ok", "skipped"}

CInv ==
    /\ UploadInv /\ faults \in 0..MaxFaults
    /\ stage = "fetch" => AnswersInv /\ NotFoundInv /\ changes \in Nat
    /\ AnswerHonest
    /\ ChangeInv /\ LoadInv

-----------------------------------------------------------------------------
(* The lookup.                                                             *)

LEMMA SendKeeps ==
    ASSUME AnswersInv, NotFoundInv, NEW g \in {"published", "draft"}, NEW answer \in Lookup!Answers,
           Lookup!Send(g, answer), lookup[g] # "returned",
           UNCHANGED <<rel, id, absent, movedOn, draftID, fetchPc, fetchRes, fetchCancelled>>,
           answer = "cancelled" => fetchCancelled,
           answer = "notfound" => \/ absent \/ movedOn
                                  \/ g = "published" /\ rel = "draft"
                                  \/ g = "draft" /\ rel = "published"
    PROVE  AnswersInv' /\ NotFoundInv'
<1> DEFINE r == [answer |-> answer, id |-> IF answer = "release" THEN id ELSE 0]
<1>1. /\ results' = Append(results, r) /\ lookup' = [lookup EXCEPT ![g] = "returned"]
      /\ id \in Nat /\ results \in Seq(Answer) /\ r \in Answer
      /\ r.answer = answer /\ r.id \in Nat /\ r.id <= id
  BY DEF AnswersInv, NotFoundInv, Lookup!Send, Lookup!Answers, Answer
<1> HIDE DEF r
<1>2. /\ Len(results') = Len(results) + 1 /\ Len(results) \in Nat /\ results' \in Seq(Answer)
      /\ \A i \in 1..Len(results') : i \in 1..Len(results) \/ i = Len(results) + 1
      /\ \A i \in 1..Len(results) : results'[i] = results[i]
      /\ results'[Len(results) + 1] = r
  BY <1>1
<1>3. AnswersInv'
  <2>1. lookup' \in [{"published", "draft"} -> {"start", "fetch", "returned"}] /\ lookup'["published"] # "fetch"
    BY <1>1 DEF AnswersInv
  <2>2. Back("published")' + Back("draft")' = Back("published") + Back("draft") + 1
    BY <1>1 DEF AnswersInv, Back
  <2>3. Len(results') + Received' = Back("published")' + Back("draft")'
    BY <1>2, <2>2 DEF AnswersInv, Received, Back
  <2>4. \A i \in 1..Len(results') : results'[i].id <= id'
    BY <1>1, <1>2 DEF AnswersInv
  <2>5. fetchPc \in {"first", "second"} => \A i \in 1..Len(results') : results'[i].answer # "cancelled"
    BY <1>1, <1>2 DEF AnswersInv
  <2> QED BY <1>2, <2>1, <2>3, <2>4, <2>5 DEF AnswersInv
<1>4. NotFoundInv'
  <2>1. NoneFound' => NoneFound /\ answer = "notfound"
    <3>1. Len(results) + 1 \in 1..Len(results') /\ \A i \in 1..Len(results) : i \in 1..Len(results')
      BY <1>2
    <3> QED BY <1>1, <1>2, <3>1 DEF NoneFound
  <2>2. lookup'["draft"] = "fetch" => lookup["draft"] = "fetch"
    BY <1>1 DEF AnswersInv
  <2>3. \A h \in {"published", "draft"} : lookup'[h] = "returned" => lookup[h] = "returned" \/ h = g
    BY <1>1 DEF AnswersInv
  <2>4. ASSUME fetchPc \in {"first", "second"}, NoneFound', ~absent, ~movedOn
        PROVE  (lookup'["published"] = "returned" => rel = "draft") /\ (lookup'["draft"] = "returned" => rel = "published")
    BY <2>1, <2>3, <2>4 DEF NotFoundInv
  <2> QED BY <2>2, <2>4 DEF NotFoundInv
<1> QED BY <1>3, <1>4

\* A step of one of the two goroutines.
LEMMA FetchKeeps ==
    ASSUME AnswersInv, NotFoundInv, rel \in {"none", "draft", "published"}, Lookup!Fetch
    PROVE  AnswersInv' /\ NotFoundInv'
<1> USE DEF Lookup!Answers
<1>1. UNCHANGED <<rel, id, absent, movedOn, fetchPc, fetchRes, fetchCancelled>>
  BY DEF Lookup!Fetch, Lookup!LookUpPublished, Lookup!QueryDraft, Lookup!FetchDraft, Lookup!world, Lookup!main
<1>2. CASE Lookup!LookUpPublished
  <2>1. lookup["published"] = "start" /\ UNCHANGED draftID
    BY <1>2 DEF Lookup!LookUpPublished
  <2>2. CASE Lookup!Send("published", IF rel = "published" THEN "release" ELSE "notfound")
    BY <1>1, <2>1, <2>2, SendKeeps DEF NotFoundInv
  <2>3. CASE Lookup!Broken("published")
    BY <1>1, <2>1, <2>3, SendKeeps DEF Lookup!Broken
  <2> QED BY <1>2, <2>2, <2>3 DEF Lookup!LookUpPublished
<1>3. CASE Lookup!QueryDraft
  <2>1. lookup["draft"] = "start"
    BY <1>3 DEF Lookup!QueryDraft
  <2>2. CASE rel = "draft" /\ draftID' = id /\ lookup' = [lookup EXCEPT !["draft"] = "fetch"] /\ UNCHANGED results
    <3>1. lookup' \in [{"published", "draft"} -> {"start", "fetch", "returned"}]
          /\ lookup'["published"] = lookup["published"] /\ lookup'["draft"] = "fetch"
      BY <2>2 DEF AnswersInv
    <3>2. Back("published")' + Back("draft")' = Back("published") + Back("draft")
      BY <2>1, <3>1 DEF AnswersInv, Back
    <3>3. AnswersInv'
      BY <1>1, <2>2, <3>1, <3>2 DEF AnswersInv, Received
    <3>4. NotFoundInv'
      BY <1>1, <2>2, <3>1 DEF NotFoundInv, NoneFound
    <3> QED BY <3>3, <3>4
  <2>3. CASE rel # "draft" /\ Lookup!Send("draft", "notfound") /\ UNCHANGED draftID
    BY <1>1, <2>1, <2>3, SendKeeps DEF NotFoundInv
  <2>4. CASE Lookup!Broken("draft") /\ UNCHANGED draftID
    BY <1>1, <2>1, <2>4, SendKeeps DEF Lookup!Broken
  <2> QED BY <1>3, <2>2, <2>3, <2>4 DEF Lookup!QueryDraft
<1>4. CASE Lookup!FetchDraft
  <2>1. lookup["draft"] = "fetch" /\ UNCHANGED draftID
    BY <1>4 DEF Lookup!FetchDraft
  <2>2. CASE Lookup!Send("draft", IF rel # "none" /\ id = draftID THEN "release" ELSE "notfound")
    BY <1>1, <2>1, <2>2, SendKeeps DEF NotFoundInv
  <2>3. CASE Lookup!Broken("draft")
    BY <1>1, <2>1, <2>3, SendKeeps DEF Lookup!Broken
  <2> QED BY <1>4, <2>2, <2>3 DEF Lookup!FetchDraft
<1> QED BY <1>2, <1>3, <1>4 DEF Lookup!Fetch

\* FetchRelease reads an answer.
LEMMA ReceiveKeeps ==
    ASSUME AnswersInv, NotFoundInv, Lookup!FetchRelease
    PROVE  AnswersInv' /\ NotFoundInv'
<1>1. /\ UNCHANGED <<rel, id, absent, movedOn, changes, lookup, draftID>>
      /\ results # <<>> /\ results' = Tail(results)
  BY DEF Lookup!FetchRelease, Lookup!First, Lookup!Second, Lookup!Drain, Lookup!DrainOne, Lookup!Receive, Lookup!world
<1>2. /\ results \in Seq(Answer) /\ Len(results) \in Nat /\ Len(results) >= 1
      /\ results' \in Seq(Answer) /\ Len(results') = Len(results) - 1
      /\ Head(results) = results[1] /\ Head(results) \in Answer /\ 1 \in 1..Len(results)
      /\ \A i \in 1..Len(results') : results'[i] = results[i + 1] /\ i + 1 \in 1..Len(results)
  BY <1>1 DEF AnswersInv
<1>3. /\ \A i \in 1..Len(results') : results'[i].id <= id
      /\ fetchPc \in {"first", "second"} => \A i \in 1..Len(results') : results'[i].answer # "cancelled"
  BY <1>2 DEF AnswersInv
<1>4. CASE Lookup!First
  <2>1. /\ fetchPc = "first" /\ fetchRes' = results[1] /\ results[1].answer # "cancelled" /\ results[1].id <= id
        /\ \/ results[1].answer = "notfound" /\ fetchPc' = "second" /\ UNCHANGED fetchCancelled
           \/ results[1].answer # "notfound" /\ fetchCancelled' = TRUE /\ fetchPc' = "drain"
    BY <1>2, <1>4 DEF Lookup!First, AnswersInv
  <2>2. AnswersInv'
    BY <1>1, <1>2, <1>3, <2>1 DEF AnswersInv, Received, Back
  <2>3. fetchPc' = "second" /\ NoneFound' => NoneFound
    <3> SUFFICES ASSUME fetchPc' = "second", NoneFound', NEW i \in 1..Len(results)
                 PROVE  results[i].answer = "notfound"
      BY <2>1 DEF NoneFound
    <3>1. CASE i = 1
      BY <2>1, <3>1
    <3>2. CASE i # 1
      <4>1. i - 1 \in 1..Len(results') /\ results'[i - 1] = results[i]
        BY <1>2, <3>2
      <4> QED BY <4>1 DEF NoneFound
    <3> QED BY <3>1, <3>2
  <2>4. NotFoundInv'
    BY <1>1, <2>1, <2>3 DEF NotFoundInv
  <2> QED BY <2>2, <2>4
<1>5. CASE Lookup!Second
  <2>1. /\ fetchPc = "second" /\ fetchPc' = "returned" /\ fetchCancelled' = TRUE /\ fetchRes' = results[1]
        /\ results[1].answer # "cancelled" /\ results[1].id <= id
    BY <1>2, <1>5 DEF Lookup!Second, AnswersInv
  <2>2. AnswersInv'
    BY <1>1, <1>2, <1>3, <2>1 DEF AnswersInv, Received, Back
  <2>3. /\ Len(results) = 1 /\ lookup["published"] = "returned" /\ lookup["draft"] = "returned"
    BY <1>2, <2>1 DEF AnswersInv, Received, Back
  <2>4. results[1].answer = "notfound" => absent \/ movedOn \/ fetchRes.answer # "notfound"
    BY <2>1, <2>3 DEF NotFoundInv, NoneFound
  <2>5. fetchRes.answer = "notfound"
    BY <2>1 DEF AnswersInv
  <2>6. NotFoundInv'
    BY <1>1, <2>1, <2>4, <2>5 DEF NotFoundInv
  <2> QED BY <2>2, <2>6
<1>6. CASE Lookup!Drain
  <2>1. fetchPc = "drain" /\ fetchPc' = "returned" /\ UNCHANGED <<fetchRes, fetchCancelled>>
    BY <1>6 DEF Lookup!Drain, Lookup!DrainOne
  <2>2. AnswersInv'
    BY <1>1, <1>2, <1>3, <2>1 DEF AnswersInv, Received, Back
  <2>3. NotFoundInv'
    BY <1>1, <2>1 DEF NotFoundInv, AnswersInv
  <2> QED BY <2>2, <2>3
<1> QED BY <1>4, <1>5, <1>6 DEF Lookup!FetchRelease

\* Others, who change the release of the tag during the call.
LEMMA OthersKeep ==
    ASSUME AnswersInv, NotFoundInv, rel \in {"none", "draft", "published"}, Lookup!Others
    PROVE  AnswersInv' /\ NotFoundInv'
<1>1. UNCHANGED <<lookup, draftID, results, fetchPc, fetchRes, fetchCancelled>>
  BY DEF Lookup!Others, Lookup!Change, Lookup!main
<1>2. /\ absent' <=> absent \/ rel' = "none"
      /\ movedOn' <=> movedOn \/ (rel = "draft" /\ rel' = "published")
      /\ id' = IF rel = "none" THEN id + 1 ELSE id
      /\ rel' = "draft" => rel = "none"
  BY DEF Lookup!Others, Lookup!Change
<1>3. id \in Nat /\ id' \in Nat /\ id' >= id
  BY <1>2 DEF NotFoundInv
<1>4. AnswersInv'
  <2>1. \A i \in 1..Len(results) : results[i].id \in Nat
    <3>1. \A i \in 1..Len(results) : results[i] \in Answer
      BY DEF AnswersInv
    <3> QED BY <3>1 DEF Answer
  <2>2. fetchPc # "first" => fetchRes.id \in Nat
    <3>1. fetchPc # "first" => fetchRes \in Answer
      BY DEF AnswersInv
    <3> QED BY <3>1 DEF Answer
  <2>3. /\ \A i \in 1..Len(results) : results[i].id <= id'
        /\ fetchPc # "first" => fetchRes.id <= id'
    BY <1>3, <2>1, <2>2 DEF AnswersInv
  <2> QED BY <1>1, <2>3 DEF AnswersInv, Received, Back
<1>5. NotFoundInv'
  <2>1. (rel' = "none" => absent') /\ (absent => absent') /\ (movedOn => movedOn')
    BY <1>2
  <2>2. lookup["draft"] = "fetch" /\ id' # draftID => absent'
    BY <1>2, <2>1 DEF NotFoundInv
  <2>3. ASSUME ~absent', ~movedOn'
        PROVE  ~absent /\ ~movedOn /\ rel' = rel
    <3>1. ~absent /\ ~movedOn /\ rel' # "none" /\ rel # "none"
      BY <2>1, <2>3 DEF NotFoundInv
    <3> QED BY <1>2, <2>3, <3>1 DEF Lookup!Others, Lookup!Change
  <2>4. fetchPc = "returned" /\ fetchRes.answer = "notfound" => absent' \/ movedOn'
    BY <2>1 DEF NotFoundInv
  <2>5. NoneFound' <=> NoneFound
    BY <1>1 DEF NoneFound
  <2>6. ASSUME fetchPc \in {"first", "second"}, NoneFound', ~absent', ~movedOn'
        PROVE  (lookup["published"] = "returned" => rel' = "draft") /\ (lookup["draft"] = "returned" => rel' = "published")
    BY <2>3, <2>5, <2>6 DEF NotFoundInv
  <2> QED BY <1>1, <1>3, <2>1, <2>2, <2>4, <2>6 DEF NotFoundInv
<1> QED BY <1>4, <1>5

\* FetchRelease returns when both answers are received.
LEMMA Honest == ASSUME AnswersInv, NotFoundInv PROVE AnswerHonest
<1> SUFFICES ASSUME fetchPc = "returned" PROVE AnswerHonest
  BY DEF AnswerHonest, Lookup!AnswerHonest
<1>1. results \in Seq(Answer) /\ Len(results) = 0 /\ lookup["published"] = "returned" /\ lookup["draft"] = "returned"
  BY DEF AnswersInv, Received, Back
<1>2. results = <<>>
  BY <1>1
<1> QED BY <1>1, <1>2 DEF AnswersInv, NotFoundInv, AnswerHonest, Lookup!AnswerHonest, Lookup!Gone, Lookup!Lookups

\* The same of the state after a step.
LEMMA HonestToo == ASSUME AnswersInv', NotFoundInv' PROVE AnswerHonest'
<1> SUFFICES ASSUME fetchPc' = "returned" PROVE AnswerHonest'
  BY DEF AnswerHonest, Lookup!AnswerHonest
<1>1. results' \in Seq(Answer) /\ Len(results') = 0 /\ lookup'["published"] = "returned" /\ lookup'["draft"] = "returned"
  BY DEF AnswersInv, Received, Back
<1>2. results' = <<>>
  BY <1>1
<1> QED BY <1>1, <1>2 DEF AnswersInv, NotFoundInv, AnswerHonest, Lookup!AnswerHonest, Lookup!Gone, Lookup!Lookups

-----------------------------------------------------------------------------
(* The upload, as a part of the commands.                                  *)

LEMMA Idle ==
    ASSUME UploadAssumption, NoUpload', rel' \in {"none", "draft", "published"}, faults' \in 0..MaxFaults
    PROVE  IInv'
<1>1. TypeOK'
  <2>1. /\ job' \in [Assets -> Jobs] /\ tries' \in [Assets -> 0..MaxTries]
        /\ content' \in [Assets -> {"none", "old", "other", "new"}]
    BY DEF NoUpload, UploadAssumption, Jobs
  <2> QED BY <2>1 DEF NoUpload, TypeOK, Commands, Running
<1>2. RelInv' /\ JobInv' /\ TriesInv' /\ NothingLeftBehind'
  BY DEF NoUpload, UploadAssumption, TriesInv, RelInv, JobInv, NothingLeftBehind
<1>3. Slots' = {} /\ AtRisk' = {}
  BY DEF NoUpload, Slots, AtRisk, Active
<1>4. LossInv' /\ Joined'
  BY <1>3, FS_EmptySet DEF NoUpload, LossInv, Joined, UploadAssumption
<1> QED BY <1>1, <1>2, <1>4 DEF IInv

\* A step of another part.
LEMMA UploadLeft ==
    ASSUME UploadAssumption, UploadInv, ~Began, UNCHANGED uploading,
           rel' \in {"none", "draft", "published"}, faults' \in 0..MaxFaults
    PROVE  UploadInv'
<1>1. NoUpload'
  BY DEF UploadInv, NoUpload, uploading
<1> QED BY <1>1, Idle DEF UploadInv

\* The release is found, and what it has is read.
LEMMA ToUploadKeeps == ASSUME UploadAssumption, CInv, ToUpload PROVE UploadInv'
<1>1. /\ UNCHANGED <<rel, pc, existing, job, tries, cancelled, removed, excuse, faults>>
      /\ stage = "fetch" /\ NoUpload /\ faults \in 0..MaxFaults
      /\ rel \in {"none", "draft", "published"}
  BY DEF ToUpload, CInv, UploadInv, Began, Answered, IInv, TypeOK
<1>2. CASE stage' = "ended" /\ UNCHANGED <<cmd, files, content>>
  <2>1. NoUpload'
    BY <1>1, <1>2 DEF NoUpload
  <2> QED BY <1>1, <1>2, <2>1, Idle DEF UploadInv, Began
<1>3. CASE /\ stage' = "upload" /\ cmd' \in {"upload", "clobber"}
           /\ files' \in SUBSET Assets \ {{}} /\ content' \in [Assets -> {"none", "old"}]
  <2>1. TypeOK'
    <3>1. /\ job' \in [Assets -> Jobs] /\ tries' \in [Assets -> 0..MaxTries]
          /\ content' \in [Assets -> {"none", "old", "other", "new"}]
      BY <1>1, <1>3 DEF NoUpload, UploadAssumption, Jobs
    <3> QED BY <1>1, <1>3, <3>1 DEF NoUpload, TypeOK, Commands, Running
  <2>2. RelInv' /\ JobInv' /\ TriesInv' /\ NothingLeftBehind'
    BY <1>1, <1>3 DEF NoUpload, UploadAssumption, TriesInv, RelInv, JobInv, NothingLeftBehind
  <2>3. Slots' = {} /\ AtRisk' = {}
    BY <1>1 DEF NoUpload, Slots, AtRisk, Active
  <2>4. LossInv' /\ Joined'
    BY <1>1, <2>3, FS_EmptySet DEF NoUpload, LossInv, Joined, UploadAssumption
  <2> QED BY <1>3, <2>1, <2>2, <2>4 DEF UploadInv, IInv, Began
<1> QED BY <1>2, <1>3 DEF ToUpload

\* The requests of the other parts.
LEMMA FetchFaults ==
    ASSUME UploadAssumption, faults \in 0..MaxFaults, Lookup!Fetch \/ Lookup!FetchRelease
    PROVE  faults' \in 0..MaxFaults
BY DEF UploadAssumption, Lookup!Fetch, Lookup!FetchRelease, Lookup!LookUpPublished, Lookup!QueryDraft,
       Lookup!FetchDraft, Lookup!Broken, Lookup!First, Lookup!Second, Lookup!Drain

LEMMA ChangeTyped ==
    ASSUME UploadAssumption, faults \in 0..MaxFaults, rel \in {"none", "draft", "published"}, Modify!Next
    PROVE  faults' \in 0..MaxFaults /\ rel' \in {"none", "draft", "published"}
<1>1. UNCHANGED faults \/ Modify!Fault
  BY DEF Modify!Next, Modify!Confirm, Modify!DeleteRelease, Modify!DeleteTag, Modify!DeleteAsset, Modify!VerifyTag,
         Modify!EditRelease, Modify!Failed
<1>2. rel' \in {rel, "none", "published"}
  BY DEF Modify!Next, Modify!Confirm, Modify!DeleteRelease, Modify!DeleteTag, Modify!DeleteAsset, Modify!VerifyTag,
         Modify!EditRelease, Modify!server
<1> QED BY <1>1, <1>2 DEF Modify!Fault, UploadAssumption

LEMMA LoadFaults ==
    ASSUME UploadAssumption, faults \in 0..MaxFaults, Loading!Next
    PROVE  faults' \in 0..MaxFaults
<1>1. UNCHANGED faults \/ Loading!Fault
  BY DEF Loading!Next, Loading!Step, Loading!Begin, Loading!Collect, Loading!Download, Loading!Take, Loading!Get,
         Loading!Open, Loading!Write, Loading!Kill, Loading!Repeat, Loading!OthersWrite
<1> QED BY <1>1 DEF Loading!Fault, UploadAssumption

-----------------------------------------------------------------------------
(* delete, delete-asset and edit.                                          *)

\* Others do not change the asset without the release, and a new release has a new id.
LEMMA OthersSpare ==
    ASSUME UploadAssumption, ChangesAssumption, CInv, OthersChange
    PROVE  ChangeInv' /\ (stage = "change" => changes' # changes)
<1>1. /\ UNCHANGED <<stage, verb, opts, changePc, found>>
      /\ stage \in {"fetch", "change"} /\ Lookup!Others
      /\ IF ~Changes THEN UNCHANGED <<asset, tag>>
         ELSE asset' \in {IF rel' = "none" THEN 0 ELSE asset, IF rel' # "none" THEN id' ELSE 0}
  BY DEF OthersChange, Changes, Modify!Verbs
<1>2. id' = (IF rel = "none" THEN id + 1 ELSE id) /\ changes' = changes + 1
  BY <1>1 DEF Lookup!Others, Lookup!Change
<1>3. Changes => asset' \in {0, id'} /\ (rel' = "none" => asset' = 0)
  BY <1>1, <1>2 DEF CInv, ChangeInv
<1>4. stage = "change" => /\ Changes /\ found \in Nat /\ found <= id' /\ id' \in Nat /\ changes' \in Nat
                          /\ changes' # changes
  BY <1>2 DEF CInv, ChangeInv
<1>5. stage = "change" /\ changePc = "delete_tag" =>
        "cleanup_tag" \in opts /\ (rel' = "none" \/ id' # found)
  BY <1>2 DEF CInv, ChangeInv
<1> QED BY <1>1, <1>3, <1>4, <1>5 DEF ChangeInv, OwnStage, Changes

\* A request names what it changes.
LEMMA ChangingKeeps ==
    ASSUME CInv, Changing(Modify!Next)
    PROVE  /\ ChangeInv' /\ stage = "change"
           /\ rel' # rel \/ asset' # asset => id = found
           /\ tag /\ ~tag' => "cleanup_tag" \in opts /\ (rel = "none" \/ id # found)
<1>1. /\ UNCHANGED <<stage, id, changes>> /\ stage = "change" /\ Changes
      /\ asset \in {0, id} /\ (rel = "none" => asset = 0)
      /\ found \in Nat /\ found <= id /\ id \in Nat /\ changes \in Nat
      /\ changePc = "delete_tag" => "cleanup_tag" \in opts /\ (rel = "none" \/ id # found)
  BY DEF Changing, fetching, CInv, ChangeInv
<1>2. UNCHANGED <<verb, opts, found>>
  BY DEF Changing, Modify!Next, Modify!Confirm, Modify!DeleteRelease, Modify!DeleteTag, Modify!DeleteAsset,
         Modify!VerifyTag, Modify!EditRelease, Modify!given
<1> SUFFICES /\ asset' \in {0, id} /\ (rel' = "none" => asset' = 0)
             /\ changePc' = "delete_tag" => "cleanup_tag" \in opts /\ (rel' = "none" \/ id # found)
             /\ rel' # rel \/ asset' # asset => id = found
             /\ tag /\ ~tag' => "cleanup_tag" \in opts /\ (rel = "none" \/ id # found)
  BY <1>1, <1>2 DEF ChangeInv, OwnStage, Changes
<1> USE DEF Modify!Goto, Modify!Return, Modify!Failed, Modify!Fault
<1>3. CASE Modify!Confirm
  BY <1>1, <1>3 DEF Modify!Confirm, Modify!server
<1>4. CASE Modify!DeleteRelease
  <2>1. /\ UNCHANGED tag /\ changePc = "delete"
        /\ \/ /\ rel # "none" /\ id = found /\ rel' = "none" /\ asset' = 0
              /\ changePc' = "delete_tag" => "cleanup_tag" \in opts
           \/ UNCHANGED <<rel, asset>> /\ changePc' = "done"
    BY <1>4 DEF Modify!DeleteRelease, Modify!IsThere
  <2> QED BY <1>1, <2>1
<1>5. CASE Modify!DeleteTag
  BY <1>1, <1>5 DEF Modify!DeleteTag
<1>6. CASE Modify!DeleteAsset
  BY <1>1, <1>6 DEF Modify!DeleteAsset
<1>7. CASE Modify!VerifyTag
  BY <1>1, <1>7 DEF Modify!VerifyTag, Modify!server
<1>8. CASE Modify!EditRelease
  <2>1. /\ UNCHANGED asset /\ changePc' = "done"
        /\ \/ rel # "none" /\ id = found /\ rel' \in {rel, "published"}
           \/ UNCHANGED rel
    BY <1>8 DEF Modify!EditRelease, Modify!IsThere
  <2>2. tag => tag'
    BY <1>8, Zenon DEF Modify!EditRelease
  <2> QED BY <1>1, <2>1, <2>2
<1> QED BY <1>3, <1>4, <1>5, <1>6, <1>7, <1>8 DEF Changing, Modify!Next

\* delete and edit go on with the release that the lookup found.
LEMMA ToChangeKeeps ==
    ASSUME CInv, ToChange
    PROVE  ChangeInv'
<1>1. /\ stage = "fetch" /\ stage' = "change" /\ Changes /\ UNCHANGED <<rel, id, asset, tag, verb, opts, changes>>
      /\ fetchPc = "returned" /\ found' = fetchRes.id
  BY DEF ToChange, Answered, Modify!Begin, Modify!server, Modify!Verbs, Changes
<1>2. changePc' # "delete_tag"
  BY DEF ToChange, Modify!Begin, Modify!Goto
<1>3. fetchRes \in Answer /\ fetchRes.id <= id /\ id \in Nat /\ changes \in Nat
  BY <1>1 DEF CInv, AnswersInv, NotFoundInv
<1>4. fetchRes.id \in Nat
  BY <1>3 DEF Answer
<1> QED BY <1>1, <1>2, <1>3, <1>4 DEF CInv, ChangeInv, OwnStage, Changes

-----------------------------------------------------------------------------
(* download.                                                               *)

LEMMA LoadLeft == ASSUME LoadInv, UNCHANGED loading PROVE LoadInv'
BY DEF LoadInv, loading

\* A step of a worker: only a file that Check lets through is opened.
LEMMA DownloadKeeps ==
    ASSUME LoadInv, NEW a \in Assets, Loading!Download(a)
    PROVE  LoadInv' /\ loadRes' = loadRes /\ (flag # "clobber" => \A b \in before : file'[b] = file[b])
<1>1. loadPc = "run" /\ UNCHANGED <<flag, loadPc, loadRes, before>>
  BY DEF Loading!Download
<1>2. /\ load \in [Assets -> {"queued", "get", "open", "write", "ok", "skipped", "failed"}]
      /\ file \in [Assets -> {"none", "own", "partial", "whole"}] /\ before \subseteq Assets
  BY DEF LoadInv
<1>3. PICK l \in {"get", "open", "write", "ok", "skipped", "failed"} : load' = [load EXCEPT ![a] = l]
  BY DEF Loading!Download, Loading!Take, Loading!Get, Loading!Open, Loading!Write, Loading!Check, Loading!To
<1>4. load'[a] = l /\ \A b \in Assets \ {a} : load'[b] = load[b]
  BY <1>2, <1>3
<1>5. \/ UNCHANGED file /\ l # "ok"
      \/ load[a] = "open" /\ file' = [file EXCEPT ![a] = "partial"] /\ l = "write"
      \/ load[a] = "write" /\ file' = [file EXCEPT ![a] = "whole"] /\ l = "ok"
  BY <1>2, <1>3, <1>4 DEF Loading!Download, Loading!Take, Loading!Get, Loading!Open, Loading!Write, Loading!Check,
     Loading!To
<1>6. l = "skipped" => flag = "skip"
  BY <1>2, <1>3, <1>4 DEF Loading!Download, Loading!Take, Loading!Get, Loading!Open, Loading!Write, Loading!Check,
     Loading!To
<1>7. flag # "clobber" /\ a \in before => UNCHANGED file /\ l \in {"skipped", "failed"}
  <2> SUFFICES ASSUME flag # "clobber", a \in before
               PROVE  UNCHANGED file /\ l \in {"skipped", "failed"}
    OBVIOUS
  <2>1. file[a] # "none" /\ load[a] \in {"queued", "skipped", "failed"}
    BY <1>1 DEF LoadInv
  <2>2. load[a] = "queued" /\ Loading!Check(a, "get") /\ UNCHANGED file
    BY <2>1 DEF Loading!Download, Loading!Take, Loading!Get, Loading!Open, Loading!Write
  <2> QED BY <1>2, <1>3, <1>4, <2>1, <2>2 DEF Loading!Check, Loading!To
<1>8. /\ file' \in [Assets -> {"none", "own", "partial", "whole"}]
      /\ \A b \in Assets \ {a} : file'[b] = file[b]
      /\ l = "ok" => file'[a] = "whole"
  BY <1>2, <1>5
<1>9. loadRes # "ok"
  BY <1>1 DEF LoadInv
<1>10. flag # "clobber" => \A b \in before : file'[b] = file[b]
  BY <1>2, <1>7, <1>8
<1>11. flag # "clobber" =>
         \A b \in before : file'[b] # "none" /\ load'[b] \in {"queued", "skipped", "failed"}
  BY <1>1, <1>2, <1>4, <1>7, <1>10 DEF LoadInv
<1>12. \A b \in Assets : (load'[b] = "ok" => file'[b] = "whole") /\ (load'[b] = "skipped" => flag' = "skip")
  BY <1>1, <1>4, <1>6, <1>8 DEF LoadInv
<1>13. load' \in [Assets -> {"queued", "get", "open", "write", "ok", "skipped", "failed"}]
  BY <1>2, <1>3
<1> QED BY <1>1, <1>2, <1>8, <1>9, <1>10, <1>11, <1>12, <1>13 DEF LoadInv

\* Any step of the download.
LEMMA LoadingKeeps ==
    ASSUME LoadInv, Loading!Next
    PROVE  /\ LoadInv'
           /\ loadRes' = "ok" => \A a \in Assets : file'[a] = "whole" \/ (flag = "skip" /\ load[a] = "skipped")
           /\ loadPc = "run" /\ flag # "clobber" => \A a \in before : file'[a] = file[a]
<1>1. CASE Loading!Begin
  <2>1. loadRes # "ok" /\ UNCHANGED <<file, flag, loadRes, load>> /\ loadPc = "off" /\ loadPc' = "run"
        /\ before' = {a \in Assets : file[a] # "none"}
    BY <1>1 DEF Loading!Begin, LoadInv
  <2> QED BY <2>1 DEF LoadInv
<1>2. CASE Loading!Collect
  <2>1. UNCHANGED <<file, flag, load, before>> /\ loadPc = "run" /\ loadPc' = "done"
        /\ (loadRes' = "ok" => \A a \in Assets : load[a] \in {"ok", "skipped"})
    BY <1>2 DEF Loading!Collect, Loading!DownloadError
  <2> QED BY <2>1 DEF LoadInv
<1>3. CASE \E a \in Assets : Loading!Download(a)
  <2>1. PICK a \in Assets : Loading!Download(a)
    BY <1>3
  <2>2. loadPc = "run" /\ loadRes # "ok"
    BY <2>1 DEF Loading!Download, LoadInv
  <2> QED BY <2>1, <2>2, DownloadKeeps
<1>4. CASE Loading!Kill
  <2>1. UNCHANGED <<file, flag, load, before>> /\ loadPc = "run" /\ loadPc' = "done" /\ loadRes' = "error"
    BY <1>4 DEF Loading!Kill
  <2> QED BY <2>1 DEF LoadInv
<1>5. CASE Loading!Repeat
  <2>1. UNCHANGED file /\ loadPc = "done" /\ loadPc' = "off" /\ loadRes' = "none" /\ before' = {}
        /\ load' = [a \in Assets |-> "queued"]
    BY <1>5 DEF Loading!Repeat
  <2> QED BY <2>1 DEF LoadInv
<1>6. CASE Loading!OthersWrite
  <2>1. PICK a \in Assets : file[a] = "none" /\ file' = [file EXCEPT ![a] = "own"]
    BY <1>6 DEF Loading!OthersWrite
  <2>2. UNCHANGED <<flag, loadPc, loadRes, load, before>> /\ loadPc = "run" /\ loadRes # "ok"
    BY <1>6 DEF Loading!OthersWrite, LoadInv
  <2>3. file' \in [Assets -> {"none", "own", "partial", "whole"}] /\ \A b \in Assets : file[b] # "none" => file'[b] = file[b]
    BY <2>1 DEF LoadInv
  <2> QED BY <2>2, <2>3 DEF LoadInv
<1> QED BY <1>1, <1>2, <1>3, <1>4, <1>5, <1>6 DEF Loading!Next, Loading!Step

-----------------------------------------------------------------------------
(* The commands: each part of CInv under each step.                        *)

LEMMA InitCInv == ASSUME UploadAssumption, ChangesAssumption, CommandsInit PROVE CInv
<1>1. /\ rel \in {"none", "draft", "published"} /\ id = 1 /\ faults = 0 /\ changes = 0
      /\ lookup = [g \in {"published", "draft"} |-> "start"] /\ results = <<>>
      /\ fetchPc = "first" /\ fetchCancelled = FALSE /\ (absent <=> rel = "none")
  BY DEF CommandsInit, Lookup!Init, Lookup!Lookups
<1>2. faults \in 0..MaxFaults
  BY <1>1 DEF UploadAssumption
<1>3. UploadInv
  <2>1. CASE verb = "create"
    BY <2>1, InitIInv DEF CommandsInit, UploadInv, Began
  <2>2. CASE verb # "create"
    <3>1. NoUpload /\ stage = "fetch"
      BY <2>2 DEF CommandsInit
    <3>2. TypeOK
      <4>1. /\ job \in [Assets -> Jobs] /\ tries \in [Assets -> 0..MaxTries]
            /\ content \in [Assets -> {"none", "old", "other", "new"}]
        BY <3>1 DEF NoUpload, UploadAssumption, Jobs
      <4> QED BY <1>1, <1>2, <3>1, <4>1 DEF NoUpload, TypeOK, Commands, Running
    <3>3. RelInv /\ JobInv /\ TriesInv /\ NothingLeftBehind
      BY <1>1, <3>1 DEF NoUpload, UploadAssumption, TriesInv, RelInv, JobInv, NothingLeftBehind
    <3>4. Slots = {} /\ AtRisk = {}
      BY <3>1 DEF NoUpload, Slots, AtRisk, Active
    <3>5. LossInv /\ Joined
      BY <3>1, <3>4, FS_EmptySet DEF NoUpload, LossInv, Joined, UploadAssumption
    <3> QED BY <1>1, <3>1, <3>2, <3>3, <3>5 DEF UploadInv, IInv
  <2> QED BY <2>1, <2>2
<1>4. AnswersInv /\ NotFoundInv
  BY <1>1 DEF AnswersInv, NotFoundInv, Back, Received
<1>5. ChangeInv
  <2>1. stage # "change"
    BY DEF CommandsInit
  <2>2. Changes => asset \in {0, id} /\ (rel = "none" => asset = 0)
    BY <1>1 DEF CommandsInit, Modify!Verbs, Changes
  <2>3. OwnStage
    BY DEF CommandsInit, OwnStage, Changes
  <2> QED BY <2>1, <2>2, <2>3 DEF ChangeInv
<1>6. LoadInv
  BY DEF CommandsInit, Loading!Init, LoadInv
<1> QED BY <1>1, <1>2, <1>3, <1>4, <1>5, <1>6, Honest DEF CInv

LEMMA UploadPart ==
    ASSUME UploadAssumption, CInv, CommandsNext
    PROVE  UploadInv' /\ faults' \in 0..MaxFaults
<1>1. UploadInv /\ faults \in 0..MaxFaults
  BY DEF CInv
<1>2. ~Began => rel \in {"none", "draft", "published"}
  BY DEF CInv, UploadInv, IInv, TypeOK
<1>3. CASE Fetching(Lookup!Fetch \/ Lookup!FetchRelease)
  <2>1. ~Began /\ UNCHANGED <<uploading, rel>>
    BY <1>3 DEF Fetching, Began
  <2> QED BY <1>1, <1>2, <1>3, <2>1, FetchFaults, UploadLeft DEF Fetching
<1>4. CASE OthersChange
  <2>1. ~Began /\ UNCHANGED <<uploading, faults>> /\ rel' \in {"none", "draft", "published"}
    BY <1>4 DEF OthersChange, Began, Lookup!Others, Lookup!Change
  <2> QED BY <1>1, <2>1, UploadLeft
<1>5. CASE NotFound \/ ToChange
  <2>1. ~Began /\ UNCHANGED <<uploading, rel, faults>>
    BY <1>5 DEF NotFound, ToChange, Began, Answered, Modify!Begin, Modify!server
  <2> QED BY <1>1, <1>2, <2>1, UploadLeft
<1>6. CASE ToUpload
  BY <1>1, <1>6, ToUploadKeeps DEF ToUpload
<1>7. CASE ToDownload
  <2>1. ~Began /\ UNCHANGED <<uploading, rel, faults>>
    BY <1>7 DEF ToDownload, Began, Answered, Loading!Begin
  <2> QED BY <1>1, <1>2, <2>1, UploadLeft
<1>8. CASE End
  <2>1. UNCHANGED <<uploading, rel, faults>> /\ stage' = "ended"
    BY <1>8 DEF End
  <2>2. CASE Began
    <3>1. UNCHANGED vars
      BY <2>1 DEF uploading, vars
    <3>2. IInv'
      BY <1>1, <3>1, NextPreserves DEF UploadInv
    <3> QED BY <1>1, <2>1, <3>2 DEF UploadInv, Began
  <2>3. CASE ~Began
    BY <1>1, <1>2, <2>1, <2>3, UploadLeft
  <2> QED BY <2>2, <2>3
<1>9. CASE Uploading(Next)
  <2>1. IInv'
    BY <1>1, <1>9, NextPreserves DEF Uploading, UploadInv
  <2> QED BY <1>9, <2>1 DEF UploadInv, Uploading, Began, IInv, TypeOK
<1>10. CASE Changing(Modify!Next)
  <2>1. ~Began /\ UNCHANGED uploading
    BY <1>10 DEF Changing, Began
  <2> QED BY <1>1, <1>2, <1>10, <2>1, ChangeTyped, UploadLeft DEF Changing
<1>11. CASE Downloading(Loading!Next)
  <2>1. ~Began /\ UNCHANGED <<uploading, rel>>
    BY <1>11 DEF Downloading, Began
  <2> QED BY <1>1, <1>2, <1>11, <2>1, LoadFaults, UploadLeft DEF Downloading
<1> QED BY <1>3, <1>4, <1>5, <1>6, <1>7, <1>8, <1>9, <1>10, <1>11 DEF CommandsNext

\* What is left of the lookup says that it found the release.
LEMMA Forgotten == ASSUME AnswerHonest, Answered(TRUE), Forget PROVE AnswerHonest'
BY DEF Answered, Forget, AnswerHonest, Lookup!AnswerHonest, Lookup!Gone

LEMMA FetchPart ==
    ASSUME UploadAssumption, CInv, CommandsNext
    PROVE  AnswerHonest' /\ (stage' = "fetch" => AnswersInv' /\ NotFoundInv' /\ changes' \in Nat)
<1>1. stage = "fetch" => /\ AnswersInv /\ NotFoundInv /\ rel \in {"none", "draft", "published"}
                         /\ changes \in Nat
  BY DEF CInv, UploadInv, Began, IInv, TypeOK
<1>2. ASSUME stage = "fetch", AnswersInv', NotFoundInv', changes' \in Nat
      PROVE  AnswerHonest' /\ (stage' = "fetch" => AnswersInv' /\ NotFoundInv' /\ changes' \in Nat)
  <2> SUFFICES AnswerHonest'
    BY <1>2
  <2>1. AnswersInv' /\ NotFoundInv' => AnswerHonest'
    BY HonestToo
  <2> QED BY <1>2, <2>1
<1>3. ASSUME stage # "fetch", stage' # "fetch", UNCHANGED fetching
      PROVE  AnswerHonest'
  BY <1>3 DEF CInv, AnswerHonest, Lookup!AnswerHonest, Lookup!Gone, fetching
<1>4. CASE Fetching(Lookup!Fetch \/ Lookup!FetchRelease)
  <2>1. UNCHANGED changes
    BY <1>4 DEF Fetching, Lookup!Fetch, Lookup!FetchRelease, Lookup!LookUpPublished, Lookup!QueryDraft,
       Lookup!FetchDraft, Lookup!First, Lookup!Second, Lookup!Drain, Lookup!world
  <2> QED BY <1>1, <1>2, <1>4, <2>1, FetchKeeps, ReceiveKeeps DEF Fetching
<1>5. CASE OthersChange
  <2>1. CASE stage = "fetch"
    <3>1. changes' \in Nat
      BY <1>1, <1>5, <2>1 DEF OthersChange, Lookup!Others, Lookup!Change
    <3> QED BY <1>1, <1>2, <1>5, <2>1, <3>1, OthersKeep DEF OthersChange
  <2>2. CASE stage = "change"
    <3>1. UNCHANGED <<stage, lookup, results, fetchPc, fetchRes>> /\ (absent => absent') /\ (movedOn => movedOn')
      BY <1>5, <2>2 DEF OthersChange, Lookup!Others, Lookup!Change, Lookup!main
    <3> QED BY <2>2, <3>1 DEF CInv, AnswerHonest, Lookup!AnswerHonest, Lookup!Gone
  <2> QED BY <1>5, <2>1, <2>2 DEF OthersChange
<1>6. CASE NotFound
  <2>1. stage' # "fetch" /\ UNCHANGED fetching
    BY <1>6 DEF NotFound
  <2> QED BY <2>1 DEF CInv, AnswerHonest, Lookup!AnswerHonest, Lookup!Gone, fetching
<1>7. CASE ToUpload \/ ToChange \/ ToDownload
  <2>1. stage' # "fetch" /\ Answered(TRUE) /\ Forget
    BY <1>7 DEF ToUpload, ToChange, ToDownload
  <2> QED BY <2>1, Forgotten DEF CInv
<1>8. CASE End \/ Uploading(Next) \/ Changing(Modify!Next) \/ Downloading(Loading!Next)
  <2>1. stage # "fetch" /\ stage' # "fetch" /\ UNCHANGED fetching
    BY <1>8 DEF End, Uploading, Changing, Downloading
  <2> QED BY <1>3, <2>1
<1> QED BY <1>4, <1>5, <1>6, <1>7, <1>8 DEF CommandsNext

LEMMA ChangePart ==
    ASSUME UploadAssumption, ChangesAssumption, CInv, CommandsNext
    PROVE  ChangeInv'
<1>1. CASE OthersChange
  BY <1>1, OthersSpare
<1>2. CASE ToChange
  BY <1>2, ToChangeKeeps
<1>3. CASE Changing(Modify!Next)
  BY <1>3, ChangingKeeps
<1>4. ASSUME UNCHANGED <<verb, asset, opts, changePc, found>>, stage' # "change",
             Changes => UNCHANGED <<rel, id>>, OwnStage'
      PROVE  ChangeInv'
  BY <1>4 DEF CInv, ChangeInv, OwnStage, Changes
<1>5. CASE Fetching(Lookup!Fetch \/ Lookup!FetchRelease) \/ NotFound \/ ToUpload \/ ToDownload \/ End
  <2>1. UNCHANGED <<verb, asset, opts, changePc, found>> /\ stage' # "change"
    BY <1>5 DEF Fetching, NotFound, ToUpload, ToDownload, End, modifying
  <2>2. Changes => UNCHANGED <<rel, id>>
    BY <1>5 DEF Changes, Fetching, NotFound, ToUpload, ToDownload, End, fetching, Lookup!Fetch, Lookup!FetchRelease,
       Lookup!LookUpPublished, Lookup!QueryDraft, Lookup!FetchDraft, Lookup!First, Lookup!Second, Lookup!Drain, Lookup!world
  <2>3. OwnStage'
    BY <1>5, <2>1 DEF OwnStage, Changes, Fetching, NotFound, ToUpload, ToDownload, End, Answered
  <2> QED BY <1>4, <2>1, <2>2, <2>3
<1>6. CASE Uploading(Next) \/ Downloading(Loading!Next)
  <2>1. UNCHANGED <<verb, asset, opts, changePc, found, id>> /\ stage' # "change"
    BY <1>6 DEF Uploading, Downloading, modifying, fetching
  <2>2. Changes => UNCHANGED <<rel, id>>
    BY <1>6, <2>1 DEF Uploading, Downloading, CInv, ChangeInv, OwnStage
  <2>3. OwnStage'
    BY <1>6, <2>1 DEF CInv, ChangeInv, OwnStage, Changes, Uploading, Downloading
  <2> QED BY <1>4, <2>1, <2>2, <2>3
<1> QED BY <1>1, <1>2, <1>3, <1>5, <1>6 DEF CommandsNext

LEMMA LoadPart == ASSUME CInv, CommandsNext PROVE LoadInv'
<1>1. LoadInv
  BY DEF CInv
<1>2. CASE ToDownload
  <2>1. CASE Loading!Begin
    BY <1>1, <2>1, LoadingKeeps DEF Loading!Next, Loading!Step
  <2>2. CASE UNCHANGED loading
    BY <1>1, <2>2, LoadLeft
  <2> QED BY <1>2, <2>1, <2>2 DEF ToDownload
<1>3. CASE Downloading(Loading!Next)
  BY <1>1, <1>3, LoadingKeeps DEF Downloading
<1>4. CASE \/ Fetching(Lookup!Fetch \/ Lookup!FetchRelease) \/ OthersChange \/ NotFound \/ ToUpload \/ ToChange \/ End
           \/ Uploading(Next) \/ Changing(Modify!Next)
  <2>1. UNCHANGED loading
    BY <1>4 DEF Fetching, OthersChange, NotFound, ToUpload, ToChange, End, Uploading, Changing
  <2> QED BY <1>1, <2>1, LoadLeft
<1> QED BY <1>2, <1>3, <1>4 DEF CommandsNext

LEMMA CommandsPreserve ==
    ASSUME UploadAssumption, ChangesAssumption, CInv, [CommandsNext]_allVars
    PROVE  CInv'
<1>1. CASE CommandsNext
  BY <1>1, UploadPart, FetchPart, ChangePart, LoadPart DEF CInv
<1>2. CASE UNCHANGED allVars
  <2>1. UNCHANGED <<stage, verb, rel, faults>> /\ UNCHANGED <<uploading, fetching, modifying, loading>>
    BY <1>2 DEF allVars
  <2>2. UNCHANGED vars
    BY <2>1 DEF uploading, vars
  <2>3. IInv'
    BY <2>2, NextPreserves DEF CInv, UploadInv
  <2>4. UploadInv'
    BY <2>1, <2>3 DEF CInv, UploadInv, Began, NoUpload, uploading
  <2>5. LoadInv'
    BY <2>1, LoadLeft DEF CInv
  <2>6. ChangeInv'
    BY <2>1 DEF CInv, ChangeInv, OwnStage, Changes, modifying, fetching
  <2>7. AnswerHonest' /\ (stage' = "fetch" => AnswersInv' /\ NotFoundInv' /\ changes' \in Nat)
    BY <2>1 DEF CInv, AnswerHonest, Lookup!AnswerHonest, Lookup!Gone, AnswersInv, NotFoundInv, NoneFound, Received, Back,
       fetching
  <2> QED BY <2>1, <2>4, <2>5, <2>6, <2>7 DEF CInv
<1> QED BY <1>1, <1>2

\* Together the parts are an invariant of the commands.
THEOREM CommandsInvariance == CommandsSpec => []CInv
BY InitCInv, CommandsPreserve, UploadAssumption, ChangesAssumption, PTL DEF CommandsSpec

\* Every variable of the upload keeps its type in each of the commands.
THEOREM CommandsTyped == CommandsSpec => []TypeOK
<1>1. CInv => TypeOK
  BY DEF CInv, UploadInv, IInv
<1> QED BY <1>1, CommandsInvariance, PTL

\* Whatever others do before and meanwhile, a release that `create` has
\* published has all its files.
THEOREM CommandsPublish == CommandsSpec => []PublishedComplete
<1>1. CInv => PublishedComplete
  BY Complete DEF CInv, UploadInv
<1> QED BY <1>1, CommandsInvariance, PTL

\* A command that reports the success of an upload has done all it was asked to.
THEOREM CommandsSucceed == CommandsSpec => []SuccessMeansDone
<1>1. CInv => SuccessMeansDone
  BY Complete DEF CInv, UploadInv
<1> QED BY <1>1, CommandsInvariance, PTL

\* A `create` that fails leaves no draft (cleanupDraftRelease).
THEOREM CommandsCleanUp == CommandsSpec => []NothingLeftBehind
<1>1. CInv => NothingLeftBehind
  BY DEF CInv, UploadInv, IInv
<1> QED BY <1>1, CommandsInvariance, PTL

\* `upload --clobber`, of the release it has looked up, never loses more assets
\* than it has workers.
THEOREM CommandsLoseLittle == CommandsSpec => []LossBounded
<1>1. CInv => LossBounded
  BY LossSmall, UploadAssumption DEF CInv, UploadInv
<1> QED BY <1>1, CommandsInvariance, PTL

\* No goroutine is left when the release is published, deleted or reported.
THEOREM CommandsJoin == CommandsSpec => []Joined
<1>1. CInv => Joined
  BY DEF CInv, UploadInv, IInv
<1> QED BY <1>1, CommandsInvariance, PTL

\* FetchRelease never answers with the error of the lookup that it cancelled,
\* says "release not found" only when the tag had none or moved on, and waits
\* for both goroutines.
THEOREM LookupHonest == CommandsSpec => []AnswerHonest
<1>1. CInv => AnswerHonest
  BY DEF CInv
<1> QED BY <1>1, CommandsInvariance, PTL

LEMMA FoundOnly ==
    ASSUME UploadAssumption, ChangesAssumption, CInv, [CommandsNext]_allVars, stage = "change", changes' = changes
    PROVE  /\ rel' # rel \/ asset' # asset => id = found
           /\ tag /\ ~tag' => "cleanup_tag" \in opts /\ (rel = "none" \/ id # found)
<1>1. CASE OthersChange
  BY <1>1, OthersSpare
<1>2. CASE Changing(Modify!Next)
  BY <1>2, ChangingKeeps
<1>3. CASE End \/ UNCHANGED allVars
  <2>1. UNCHANGED <<rel, asset, tag>>
    BY <1>3 DEF End, allVars, modifying
  <2> QED BY <2>1
<1>4. ~(\/ Fetching(Lookup!Fetch \/ Lookup!FetchRelease) \/ NotFound \/ ToUpload \/ ToChange \/ ToDownload
        \/ Uploading(Next) \/ Downloading(Loading!Next))
  BY DEF Fetching, NotFound, ToUpload, ToChange, ToDownload, Answered, Uploading, Downloading
<1> QED BY <1>1, <1>2, <1>3, <1>4 DEF CommandsNext

\* delete, delete-asset and edit never touch a release that has taken the tag of
\* the one the user was asked about.
THEOREM ChangesOnlyTheFound == CommandsSpec => OnlyTheFound
<1>1. CInv /\ [CommandsNext]_allVars =>
        [stage = "change" /\ changes' = changes =>
           /\ rel' # rel \/ asset' # asset => id = found
           /\ tag /\ ~tag' => "cleanup_tag" \in opts /\ (rel = "none" \/ id # found)]_allVars
  BY FoundOnly, UploadAssumption, ChangesAssumption
<1> QED BY <1>1, CommandsInvariance, PTL DEF CommandsSpec, OnlyTheFound

LEMMA FileKept ==
    ASSUME CInv, [CommandsNext]_allVars, stage = "download"
    PROVE  /\ loadRes' = "ok" => \A a \in Assets : file'[a] = "whole" \/ (flag = "skip" /\ load[a] = "skipped")
           /\ loadPc = "run" /\ flag # "clobber" => \A a \in before : file'[a] = file[a]
<1>1. LoadInv
  BY DEF CInv
<1>2. CASE Downloading(Loading!Next)
  BY <1>1, <1>2, LoadingKeeps DEF Downloading
<1>3. CASE End \/ UNCHANGED allVars
  <2>1. UNCHANGED loading
    BY <1>3 DEF End, allVars
  <2>2. UNCHANGED <<file, loadRes>>
    BY <2>1 DEF loading
  <2> QED BY <1>1, <2>2 DEF LoadInv
<1>4. ~(\/ Fetching(Lookup!Fetch \/ Lookup!FetchRelease) \/ OthersChange \/ NotFound \/ ToUpload \/ ToChange
        \/ ToDownload \/ Uploading(Next) \/ Changing(Modify!Next))
  BY DEF Fetching, OthersChange, NotFound, ToUpload, ToChange, ToDownload, Answered, Uploading, Changing
<1> QED BY <1>2, <1>3, <1>4 DEF CommandsNext

\* A download that reports success has whole files, and without --clobber it
\* leaves alone what was there.
THEOREM DownloadsRight == CommandsSpec => FilesRight
<1>1. CInv /\ [CommandsNext]_allVars =>
        [stage = "download" =>
           /\ loadRes' = "ok" => \A a \in Assets : file'[a] = "whole" \/ (flag = "skip" /\ load[a] = "skipped")
           /\ loadPc = "run" /\ flag # "clobber" => \A a \in before : file'[a] = file[a]]_allVars
  BY FileKept
<1> QED BY <1>1, CommandsInvariance, PTL DEF CommandsSpec, FilesRight
=============================================================================
