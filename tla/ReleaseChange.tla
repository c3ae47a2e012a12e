---------------------------- MODULE ReleaseChange ----------------------------
(***************************************************************************)
(* `gh release delete`, `delete-asset` and `edit`: one or two requests     *)
(* about the release that FetchRelease found, after the user has had time  *)
(* to confirm.  The release and its assets are named by their ids, and the *)
(* git tag by its name.                                                    *)
(***************************************************************************)
EXTENDS Naturals

CONSTANTS MaxFaults   \* bound on failing requests

VARIABLES
    rel, id,     \* the release of the tag on the server, and its id
    asset,       \* the id of the release that has the asset of that name, or 0
    tag,         \* whether the git tag exists
    verb, opts,  \* the command, and which of its flags are given
    pc, res,
    found,       \* the id of the release that FetchRelease found
    seen,        \* whether that one had the asset
    faults

server == <<rel, id, asset, tag>>
given == <<verb, opts, found, seen>>

Verbs == {"delete", "delete_asset", "edit"}
Flags == {"cleanup_tag", "verify_tag", "publish"}
TypeOK ==
    /\ rel \in {"none", "draft", "published"} /\ id \in Nat /\ asset \in Nat /\ tag \in BOOLEAN
    /\ verb \in Verbs /\ opts \subseteq Flags
    /\ pc \in {"off", "confirm", "delete", "delete_tag", "delete_asset", "verify_tag", "edit", "done"}
    /\ res \in {"none", "ok", "error"} /\ found \in Nat /\ seen \in BOOLEAN
    /\ faults \in 0..MaxFaults

Fault == faults < MaxFaults /\ faults' = faults + 1
Goto(l) == pc' = l /\ UNCHANGED res
Return(r) == pc' = "done" /\ res' = r
Failed == Return("error") /\ Fault

\* FetchRelease has answered.
Begin(i) ==
    /\ pc = "off" /\ found' = i /\ seen' = (asset = i)
    /\ Goto(IF verb # "edit" THEN "confirm" ELSE IF "verify_tag" \in opts THEN "verify_tag" ELSE "edit")
    /\ UNCHANGED <<server, verb, opts, faults>>

\* The confirmation, which may be skipped or refused, and then the asset's URL.
Confirm ==
    /\ pc = "confirm" /\ UNCHANGED <<server, given, faults>>
    /\ \/ verb = "delete" /\ Goto("delete")
       \/ verb = "delete_asset" /\ seen /\ Goto("delete_asset")
       \/ Return("error")

\* deleteRelease, by the API's URL of the release: another one is not found.
\* Its assets go with it.  (IsThereByTag is a mutant.)
IsThereByTag == rel # "none"
IsThere == rel # "none" /\ id = found
DeleteRelease ==
    /\ pc = "delete" /\ UNCHANGED <<id, tag, given>>
    /\ \/ /\ IsThere /\ rel' = "none" /\ asset' = 0
          /\ \/ IF "cleanup_tag" \in opts THEN Goto("delete_tag") /\ UNCHANGED faults
                                          ELSE Return("ok") /\ UNCHANGED faults
             \/ Failed
       \/ ~IsThere /\ Return("error") /\ UNCHANGED <<rel, asset, faults>>
       \/ Failed /\ UNCHANGED <<rel, asset>>

\* deleteTag, by name, once the release is gone.  The local tag, of which errors are ignored, is left out.
DeleteTag ==
    /\ pc = "delete_tag" /\ UNCHANGED <<rel, id, asset, given>>
    /\ \/ tag /\ tag' = FALSE /\ ((Return("ok") /\ UNCHANGED faults) \/ Failed)
       \/ ~tag /\ Return("error") /\ UNCHANGED <<tag, faults>>
       \/ Failed /\ UNCHANGED tag

DeleteAsset ==
    /\ pc = "delete_asset" /\ UNCHANGED <<rel, id, tag, given>>
    /\ \/ asset = found /\ asset' = 0 /\ ((Return("ok") /\ UNCHANGED faults) \/ Failed)
       \/ asset # found /\ Return("error") /\ UNCHANGED <<asset, faults>>
       \/ Failed /\ UNCHANGED asset

\* remoteTagExists, of the tag that --tag renames the release to, and editRelease,
\* by the database id.  Publishing a release makes its tag.
VerifyTag ==
    /\ pc = "verify_tag" /\ UNCHANGED <<server, given>>
    /\ \/ (Goto("edit") \/ Return("error")) /\ UNCHANGED faults
       \/ Failed
EditRelease ==
    /\ pc = "edit" /\ UNCHANGED <<id, asset, given>>
    /\ \/ /\ IsThere /\ rel' = IF "publish" \in opts THEN "published" ELSE rel
          /\ tag' = (tag \/ (rel' = "published" /\ "verify_tag" \notin opts))
          /\ (Return("ok") /\ UNCHANGED faults) \/ Failed
       \/ ~IsThere /\ Return("error") /\ UNCHANGED <<rel, tag, faults>>
       \/ Failed /\ UNCHANGED <<rel, tag>>

Init == opts \in SUBSET Flags /\ pc = "off" /\ res = "none" /\ found = 0 /\ seen = FALSE
Next == Confirm \/ DeleteRelease \/ DeleteTag \/ DeleteAsset \/ VerifyTag \/ EditRelease
=============================================================================
