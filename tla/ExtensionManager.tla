-------------------------- MODULE ExtensionManager --------------------------
(***************************************************************************)
(* gh extension install, upgrade and remove for one extension name         *)
(* (pkg/cmd/extension/manager.go and extension.go).  An extension is a     *)
(* directory: with a manifest it holds a released executable, without one  *)
(* it is taken for a clone of a script's repository.  Files are replaced   *)
(* in place, one after the other, and a command may fail or be killed      *)
(* between any two steps.  One command runs at a time.                     *)
(*                                                                         *)
(* The versions of the extension are numbered; version v is commit v of    *)
(* the repository and, once there are binaries, the release with tag v.    *)
(***************************************************************************)
EXTENDS Naturals

CONSTANTS MaxVersion, \* bound on the versions that are published
          MaxOps,     \* bound on the commands
          MaxFaults   \* bound on failing steps and killed commands

ASSUME ExtensionAssumption ==
    MaxVersion \in Nat \ {0} /\ MaxOps \in Nat /\ MaxFaults \in Nat

Versions == 1..MaxVersion
Version0 == 0..MaxVersion  \* with 0 for none

VARIABLES
    latest, binary,  \* the service: the latest version, whether releases carry binaries
    dir,             \* the extension's directory exists
    manifest,        \* manifest.yml: NoFile, or its tag and pin (tag 0 when the file is empty)
    exe,             \* the version of the released executable, 0 when absent or incomplete
    clone,           \* NoFile, or a clone: HEAD, origin/HEAD, and whether HEAD is on the branch
    pins,            \* the commits that have a .pin file in the clone
    pc, res,         \* the command, and how the last one ended
    op,              \* its name and flags
    kind, seen,      \* the Extension object: kind and LatestVersion
    tag,             \* the release that installBin has fetched
    since,           \* history: the latest version when the command started
    wanted,          \* history: the version that the user has pinned, until forced or removed
    torn,            \* history: a removal was begun and has not come to its end
    ops, faults

service == <<latest, binary>>
disk == <<dir, manifest, exe, clone, pins>>
command == <<pc, res, op, kind, seen, tag, since>>
history == <<wanted, torn>>
vars == <<service, disk, command, history, ops, faults>>

NoFile == [none |-> TRUE]
Op == [name : {"install", "upgrade", "remove"}, force : BOOLEAN, all : BOOLEAN, pin : Version0]

TypeOK ==
    /\ latest \in Versions /\ binary \in BOOLEAN
    /\ dir \in BOOLEAN /\ exe \in Version0 /\ pins \subseteq Versions
    /\ manifest \in [tag : Version0, pinned : BOOLEAN] \cup {NoFile}
    /\ clone \in [head : Versions, origin : Versions, onBranch : BOOLEAN] \cup {NoFile}
    /\ (manifest # NoFile \/ clone # NoFile \/ exe # 0) => dir
    /\ pc \in {"idle", "fetch", "mkdir", "truncate", "copy", "manifest", "write", "clone", "checkout",
               "pin", "list", "decide", "git", "remove"}
    /\ res \in {"none", "installed", "upgraded", "removed", "uptodate", "pinned", "exists", "error"}
    /\ op \in Op /\ kind \in {"binary", "git"} /\ seen \in Version0 /\ tag \in Version0
    /\ since \in Version0 /\ wanted \in Version0 /\ torn \in BOOLEAN
    /\ ops \in 0..MaxOps /\ faults \in 0..MaxFaults

-----------------------------------------------------------------------------
\* What the Extension object reads from the directory.
CurrentVersion ==
    IF kind = "binary" THEN manifest.tag ELSE IF clone = NoFile THEN 0 ELSE clone.head
IsPinned == IF kind = "binary" THEN manifest.pinned ELSE clone # NoFile /\ clone.head \in pins
CanUpdate == CurrentVersion # 0 /\ seen # 0
UpdateAvailable == CurrentVersion # 0 /\ seen # 0 /\ CurrentVersion # seen

Fresh == op.name = "install" /\ seen = 0  \* an installation, not an upgrade by install --force
Fault == faults < MaxFaults /\ faults' = faults + 1
Go(p) == pc' = p /\ UNCHANGED res
End(r) == pc' = "idle" /\ res' = r
Inputs == UNCHANGED <<service, op, since, ops>>

\* A step fails, or the command is killed, and what it has done so far stays.
Fails == Fault /\ End("error") /\ Inputs /\ UNCHANGED <<disk, kind, seen, tag, history>>

-----------------------------------------------------------------------------
\* The service.
Publish ==
    /\ latest < MaxVersion /\ latest' = latest + 1
    /\ UNCHANGED <<binary, disk, command, history, ops, faults>>
BecomesBinary ==
    /\ ~binary /\ binary' = TRUE
    /\ UNCHANGED <<latest, disk, command, history, ops, faults>>

-----------------------------------------------------------------------------
\* A command starts.  `install` of an installed name ends at once, or upgrades
\* with --force; a manifest that exists makes the kind.
KindOnDisk == IF manifest # NoFile THEN "binary" ELSE "git"
Forgets(o) == dir /\ (o.name = "remove" \/ o.force)

Start(o) ==
    /\ pc = "idle" /\ ops < MaxOps /\ ops' = ops + 1
    /\ o.pin <= latest
    /\ op' = o /\ since' = latest /\ seen' = 0 /\ tag' = 0 /\ kind' = KindOnDisk
    /\ \/ o.name = "install" /\ ~dir /\ Go(IF binary THEN "fetch" ELSE "clone")
       \/ o.name = "install" /\ dir /\ ~o.force /\ End("exists")
       \/ o.name = "install" /\ dir /\ o.force /\ Go("list")
       \/ o.name = "upgrade" /\ dir /\ Go("list")
       \/ o.name = "remove" /\ dir /\ Go("remove")
       \/ o.name # "install" /\ ~dir /\ End("error")
    /\ wanted' = IF Forgets(o) THEN 0 ELSE wanted
    /\ UNCHANGED <<service, disk, torn, faults>>

-----------------------------------------------------------------------------
\* installBin.
FetchCurrent == tag' = IF Fresh THEN op.pin ELSE manifest.tag
FetchRelease == tag' = IF Fresh /\ op.pin # 0 THEN op.pin ELSE latest

Fetch ==
    /\ pc = "fetch"
    /\ \/ FetchRelease /\ Go("mkdir") /\ Inputs /\ UNCHANGED <<disk, kind, seen, history, faults>>
       \/ Fails

Mkdir ==
    /\ pc = "mkdir"
    /\ \/ dir' = TRUE /\ Go("truncate") /\ Inputs
          /\ UNCHANGED <<manifest, exe, clone, pins, kind, seen, tag, history, faults>>
       \/ Fails

Truncate ==
    /\ pc = "truncate"
    /\ \/ exe' = 0 /\ Go("copy") /\ Inputs
          /\ UNCHANGED <<dir, manifest, clone, pins, kind, seen, tag, history, faults>>
       \/ Fails

Copy ==
    /\ pc = "copy"
    /\ \/ exe' = tag /\ Go("manifest") /\ Inputs
          /\ UNCHANGED <<dir, manifest, clone, pins, kind, seen, tag, history, faults>>
       \/ Fails

TruncateManifest ==
    /\ pc = "manifest"
    /\ \/ manifest' = [tag |-> 0, pinned |-> FALSE] /\ Go("write") /\ Inputs
          /\ UNCHANGED <<dir, exe, clone, pins, kind, seen, tag, history, faults>>
       \/ Fails

WriteManifest ==
    /\ pc = "write"
    /\ \/ /\ manifest' = [tag |-> tag, pinned |-> Fresh /\ op.pin # 0]
          /\ End(IF Fresh THEN "installed" ELSE "upgraded")
          /\ wanted' = IF Fresh THEN op.pin ELSE 0
          /\ Inputs
          /\ UNCHANGED <<dir, exe, clone, pins, kind, seen, tag, torn, faults>>
       \/ Fails

-----------------------------------------------------------------------------
\* installGit: clone, check out the pinned commit, mark it.
NeedsCheckout == op.pin # 0
Clone ==
    /\ pc = "clone"
    /\ \/ /\ dir' = TRUE /\ clone' = [head |-> latest, origin |-> latest, onBranch |-> TRUE]
          /\ IF NeedsCheckout THEN Go("checkout") ELSE End("installed")
          /\ Inputs /\ UNCHANGED <<manifest, exe, pins, kind, seen, tag, history, faults>>
       \/ Fails
       \/ Fault /\ dir' = TRUE /\ End("error") /\ Inputs   \* git was killed
          /\ UNCHANGED <<manifest, exe, clone, pins, kind, seen, tag, history>>

Checkout ==
    /\ pc = "checkout"
    /\ \/ clone' = [clone EXCEPT !.head = op.pin, !.onBranch = FALSE] /\ Go("pin") /\ Inputs
          /\ UNCHANGED <<dir, manifest, exe, pins, kind, seen, tag, history, faults>>
       \/ Fails

PinNothing == UNCHANGED pins
PinCommit == pins' = pins \cup {op.pin}
Pin ==
    /\ pc = "pin"
    /\ \/ PinCommit /\ End("installed") /\ wanted' = op.pin /\ Inputs
          /\ UNCHANGED <<dir, manifest, exe, clone, kind, seen, tag, torn, faults>>
       \/ Fails

-----------------------------------------------------------------------------
\* Upgrade.  LatestVersion is "" when it cannot be had: an error for one
\* extension, but not when all are upgraded.
CanAsk == IF kind = "binary" THEN manifest.tag # 0 ELSE clone # NoFile
List ==
    /\ pc = "list"
    /\ \/ CanAsk /\ seen' = latest /\ UNCHANGED faults
       \/ ~CanAsk /\ seen' = 0 /\ UNCHANGED faults
       \/ Fault /\ seen' = 0
    /\ IF seen' = 0 /\ ~op.all THEN End("error") ELSE Go("decide")
    /\ Inputs /\ UNCHANGED <<disk, kind, tag, history>>

RefusesForced == op.force /\ IsPinned
Refuses == ~op.force /\ IsPinned

Decide ==
    /\ pc = "decide"
    /\ \/ Refuses /\ End("pinned") /\ UNCHANGED faults
       \/ ~Refuses /\ ~UpdateAvailable /\ End("uptodate") /\ UNCHANGED faults
       \/ ~Refuses /\ UpdateAvailable /\ kind = "binary" /\ Go("fetch") /\ UNCHANGED faults
       \/ ~Refuses /\ UpdateAvailable /\ kind = "git" /\ Go(IF binary THEN "remove" ELSE "git") /\ UNCHANGED faults
       \/ ~Refuses /\ UpdateAvailable /\ kind = "git" /\ Fault /\ Go("git")  \* isBinExtension failed
    /\ Inputs /\ UNCHANGED <<disk, kind, seen, tag, history>>

\* `git fetch origin HEAD` updates FETCH_HEAD only; `git pull --ff-only` needs
\* a branch.
GitReset == clone' = [clone EXCEPT !.head = clone.origin]
GitPull == clone.onBranch /\ clone' = [clone EXCEPT !.head = latest, !.origin = latest]

UpgradeGit ==
    /\ pc = "git"
    /\ \/ /\ IF op.force THEN GitReset ELSE GitPull
          /\ End("upgraded") /\ Inputs
          /\ UNCHANGED <<dir, manifest, exe, pins, kind, seen, tag, history, faults>>
       \/ ~op.force /\ ~clone.onBranch /\ End("error") /\ Inputs
          /\ UNCHANGED <<disk, kind, seen, tag, history, faults>>
       \/ Fails

-----------------------------------------------------------------------------
\* os.RemoveAll: the files in the order of the directory, then the directory.
RemoveAll ==
    /\ pc = "remove"
    /\ \/ /\ torn' = TRUE /\ Go("remove")
          /\ \/ manifest # NoFile /\ manifest' = NoFile /\ UNCHANGED <<exe, clone, pins>>
             \/ exe # 0 /\ exe' = 0 /\ UNCHANGED <<manifest, clone, pins>>
             \/ clone # NoFile /\ clone' = NoFile /\ pins' = {} /\ UNCHANGED <<manifest, exe>>
          /\ UNCHANGED <<dir, faults>>
       \/ /\ manifest = NoFile /\ exe = 0 /\ clone = NoFile /\ dir' = FALSE /\ torn' = FALSE
          /\ IF op.name = "remove" THEN End("removed") ELSE Go("fetch")
          /\ UNCHANGED <<manifest, exe, clone, pins, faults>>
       \/ Fault /\ End("error") /\ UNCHANGED <<disk, torn>>
    /\ Inputs /\ UNCHANGED <<kind, seen, tag, wanted>>

-----------------------------------------------------------------------------
Init ==
    /\ latest = 1 /\ binary \in BOOLEAN
    /\ dir = FALSE /\ manifest = NoFile /\ exe = 0 /\ clone = NoFile /\ pins = {}
    /\ pc = "idle" /\ res = "none"
    /\ op = [name |-> "install", force |-> FALSE, all |-> FALSE, pin |-> 0]
    /\ kind = "git" /\ seen = 0 /\ tag = 0 /\ since = 0
    /\ wanted = 0 /\ torn = FALSE
    /\ ops = 0 /\ faults = 0

\* --pin belongs to install, --all to upgrade.
Allowed(o) == (o.pin # 0 => o.name = "install") /\ (o.all => o.name = "upgrade") /\ (o.force => o.name # "remove")

Next ==
    \/ Publish \/ BecomesBinary
    \/ \E o \in Op : Allowed(o) /\ Start(o)
    \/ Fetch \/ Mkdir \/ Truncate \/ Copy \/ TruncateManifest \/ WriteManifest
    \/ Clone \/ Checkout \/ Pin
    \/ List \/ Decide \/ UpgradeGit \/ RemoveAll

Spec == Init /\ [][Next]_vars

-----------------------------------------------------------------------------
\* Properties.

\* The version that runs: what is complete and named consistently on disk.
OnDisk ==
    IF manifest # NoFile THEN IF exe = manifest.tag THEN exe ELSE 0
    ELSE IF clone # NoFile THEN clone.head ELSE 0
PinnedOnDisk == IF manifest # NoFile THEN manifest.pinned ELSE clone # NoFile /\ clone.head \in pins

\* A version that install --pin has reported as installed stays what it is and
\* stays pinned, whatever is published, upgraded or fails, until the user
\* forces an upgrade or removes it (upgradeExtension, Install).
PinKept == wanted # 0 => OnDisk = wanted /\ PinnedOnDisk

\* An executable that is not the one its manifest names, because an upgrade
\* failed or was killed, is older than the latest: the next upgrade replaces
\* it and does not say that it is up to date.
Repairable ==
    manifest # NoFile /\ manifest.tag # 0 /\ exe # manifest.tag /\ ~torn => manifest.tag < latest

\* What a command reports is on disk: the pinned version, or one at least as
\* new as the latest when it started; or nothing; and a failed upgrade leaves what
\* the next one will repair.  A forced upgrade of a script is not included.
ForcedScript == op.force /\ manifest = NoFile
ReportTrue ==
    /\ pc = "idle" =>
        /\ res = "installed" => IF op.pin # 0 THEN OnDisk = op.pin ELSE OnDisk >= since
        /\ res = "upgraded" /\ ~ForcedScript => OnDisk >= since
        /\ res = "removed" => ~dir
    /\ Repairable
=============================================================================
