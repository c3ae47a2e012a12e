----------------------- MODULE ExtensionCommandsProofs ----------------------
(***************************************************************************)
(* For any number of versions, commands, processes, days and failing       *)
(* steps: a version that is pinned stays, what a command reports is on     *)
(* disk, and the user is told of a new release once.                       *)
(*                                                                         *)
(* For ExtensionManager the argument follows a command from place to       *)
(* place: the directory that it has found to be absent or of a kind stays  *)
(* so until it changes it itself; a command that may change a pinned       *)
(* version is one that has been told to forget the pin; and an executable  *)
(* is touched only when the manifest names an older version.               *)
(*                                                                         *)
(* For UpdateNotifier it is about one kind of release and the process that *)
(* runs alone: a check that is under way is for a day on which nothing has *)
(* been told, and the state file has the day of an answer from when the    *)
(* answer is there.                                                        *)
(***************************************************************************)
EXTENDS ExtensionCommands, TLAPS

Manifests == [tag : Version0, pinned : BOOLEAN]
Clones == [head : Versions, origin : Versions, onBranch : BOOLEAN]
Installing == {"fetch", "mkdir", "truncate", "copy", "manifest", "write"}
Fetched == {"mkdir", "truncate", "copy", "manifest", "write"}

\* What the service has published bounds what a command may have seen.
SeenInv == op.pin <= latest /\ seen <= latest /\ since <= latest /\ (manifest # NoFile => manifest.tag <= latest)

\* A pinned version is there, and the command is not one that replaces it.
PinInv ==
    /\ PinKept
    /\ wanted # 0 => pc \in {"idle", "list", "decide"}
    /\ wanted # 0 /\ pc \in {"list", "decide"} => ~op.force

\* The kind of the extension is that of the directory while nothing is changed.
KindInv ==
    /\ pc \in {"list", "decide"} => kind = KindOnDisk
    /\ pc = "git" => manifest = NoFile /\ clone # NoFile

\* installBin has the release that was asked for, or the latest.
InstallInv ==
    /\ pc \in Fetched => tag # 0 /\ tag <= latest /\ (IF Fresh /\ op.pin # 0 THEN tag = op.pin ELSE tag >= since)
    /\ pc \in {"manifest", "write"} => exe = tag
    /\ pc = "decide" /\ manifest # NoFile => manifest.tag <= seen \/ seen = 0
    /\ pc \in Installing => manifest = NoFile \/ manifest.tag < latest
    /\ pc = "write" => manifest # NoFile /\ manifest.tag = 0
    /\ pc \in Fetched \ {"mkdir"} => dir

\* installGit begins without a directory.
CloneInv ==
    /\ pc = "clone" => ~dir
    /\ pc \in {"checkout", "pin"} => manifest = NoFile /\ clone # NoFile /\ op.pin # 0
    /\ pc = "pin" => clone.head = op.pin

IInv == TypeOK /\ SeenInv /\ PinInv /\ KindInv /\ InstallInv /\ CloneInv /\ ReportTrue

-----------------------------------------------------------------------------
LEMMA NotNoFile ==
  /\ \A m \in Manifests : m # NoFile
  /\ \A c \in Clones : c # NoFile
<1>1. DOMAIN NoFile = {"none"}
  BY DEF NoFile
<1>2. \A m \in Manifests : DOMAIN m = {"tag", "pinned"}
  BY DEF Manifests
<1>3. \A c \in Clones : DOMAIN c = {"head", "origin", "onBranch"}
  BY DEF Clones
<1> QED BY <1>1, <1>2, <1>3

LEMMA Numbers ==
  /\ MaxVersion \in Nat \ {0} /\ MaxOps \in Nat /\ MaxFaults \in Nat
  /\ 0 \in Version0 /\ 1 \in Versions /\ 0 \in 0..MaxOps /\ 0 \in 0..MaxFaults
  /\ \A v \in Versions : v \in Version0 /\ v \in Nat /\ v # 0
  /\ \A v \in Version0 : v \in Nat /\ (v # 0 => v \in Versions)
BY ExtensionAssumption DEF Versions, Version0

\* What a directory holds, as TypeOK has it.
LEMMA Typed ==
  ASSUME TypeOK
  PROVE  /\ manifest # NoFile <=> manifest \in Manifests
         /\ clone # NoFile <=> clone \in Clones
         /\ latest \in Versions /\ exe \in Version0 /\ seen \in Version0 /\ tag \in Version0
         /\ since \in Version0 /\ wanted \in Version0 /\ op \in Op
         /\ faults \in 0..MaxFaults /\ ops \in 0..MaxOps
BY NotNoFile DEF TypeOK, Manifests, Clones

LEMMA InitIInv == Init => IInv
<1> SUFFICES ASSUME Init PROVE IInv
  OBVIOUS
<1>1. TypeOK
  <2>1. op \in Op
    BY Numbers DEF Init, Op
  <2>2. pins \subseteq Versions /\ latest \in Versions
    BY Numbers DEF Init
  <2> QED BY <2>1, <2>2, Numbers DEF Init, TypeOK
<1>2. /\ latest = 1 /\ seen = 0 /\ since = 0 /\ wanted = 0 /\ pc = "idle" /\ res = "none" /\ manifest = NoFile
  BY DEF Init
<1>3. SeenInv /\ PinInv
  <2>1. op.pin = 0
    BY DEF Init
  <2> QED BY <1>2, <2>1 DEF SeenInv, PinInv, PinKept
<1>4. KindInv /\ InstallInv /\ CloneInv
  BY <1>2 DEF KindInv, InstallInv, CloneInv, Installing, Fetched
<1>5. ReportTrue
  BY <1>2 DEF ReportTrue, Repairable
<1> QED BY <1>1, <1>3, <1>4, <1>5 DEF IInv

\* A failing step changes nothing but where the command is.
LEMMA FaultCounts == TypeOK /\ (Fault \/ UNCHANGED faults) => faults' \in 0..MaxFaults
BY Numbers DEF TypeOK, Fault

LEMMA FailsPreserves == IInv /\ Fails => IInv'
<1> SUFFICES ASSUME IInv, Fails PROVE IInv'
  OBVIOUS
<1>1. /\ pc' = "idle" /\ res' = "error" /\ UNCHANGED <<latest, binary, op, since, ops>>
      /\ UNCHANGED <<dir, manifest, exe, clone, pins, kind, seen, tag, wanted, torn>> /\ Fault
  BY DEF Fails, End, Inputs, service, disk, history
<1>2. TypeOK'
  BY <1>1, FaultCounts DEF IInv, TypeOK
<1>3. OnDisk' = OnDisk /\ PinnedOnDisk' = PinnedOnDisk
  BY <1>1 DEF OnDisk, PinnedOnDisk
<1>4. SeenInv' /\ PinInv'
  BY <1>1, <1>3 DEF IInv, SeenInv, PinInv, PinKept
<1>5. KindInv' /\ InstallInv' /\ CloneInv'
  BY <1>1 DEF KindInv, InstallInv, CloneInv, Installing, Fetched
<1>6. ReportTrue'
  BY <1>1 DEF IInv, ReportTrue, Repairable
<1> QED BY <1>2, <1>4, <1>5, <1>6 DEF IInv
-----------------------------------------------------------------------------
LEMMA ServicePreserves == IInv /\ (Publish \/ BecomesBinary) => IInv'
<1> SUFFICES ASSUME IInv, Publish \/ BecomesBinary PROVE IInv'
  OBVIOUS
<1>0. \/ latest < MaxVersion /\ latest' = latest + 1 /\ binary' = binary
      \/ latest' = latest /\ binary' = TRUE
  BY DEF Publish, BecomesBinary
<1>1. /\ UNCHANGED <<pc, res, op, since, ops, faults, dir, manifest, exe, clone, pins, kind, seen, tag, wanted, torn>>
      /\ latest' \in Versions /\ latest <= latest' /\ binary' \in BOOLEAN
  <2>1. UNCHANGED <<pc, res, op, since, ops, faults, dir, manifest, exe, clone, pins, kind, seen, tag, wanted, torn>>
    BY DEF Publish, BecomesBinary, disk, command, history
  <2>2. latest' \in Versions /\ latest <= latest'
    BY <1>0, Numbers DEF IInv, TypeOK, Versions
  <2>3. binary' \in BOOLEAN
    BY <1>0 DEF IInv, TypeOK
  <2> QED BY <2>1, <2>2, <2>3
<1>2. TypeOK'
  BY <1>1 DEF IInv, TypeOK
<1>3. OnDisk' = OnDisk /\ PinnedOnDisk' = PinnedOnDisk /\ KindOnDisk' = KindOnDisk /\ Fresh' = Fresh
  BY <1>1 DEF OnDisk, PinnedOnDisk, KindOnDisk, Fresh
<1>4. /\ latest \in Nat /\ latest' \in Nat /\ seen \in Nat /\ since \in Nat /\ tag \in Nat /\ op.pin \in Nat
      /\ manifest # NoFile => manifest.tag \in Nat
  BY <1>1, Typed, Numbers DEF IInv, Manifests, Op
<1>5. SeenInv' /\ PinInv' /\ KindInv' /\ CloneInv'
  BY <1>1, <1>3, <1>4 DEF IInv, SeenInv, PinInv, PinKept, KindInv, CloneInv
<1>6. InstallInv'
  BY <1>1, <1>3, <1>4 DEF IInv, InstallInv
<1>7. ReportTrue'
  BY <1>1, <1>3, <1>4 DEF IInv, ReportTrue, Repairable, ForcedScript
<1> QED BY <1>2, <1>5, <1>6, <1>7 DEF IInv

LEMMA PinnedThere == IInv /\ wanted # 0 => dir /\ OnDisk = wanted /\ PinnedOnDisk
BY DEF IInv, TypeOK, PinInv, PinKept, OnDisk

LEMMA StartPreserves ==
  ASSUME IInv, NEW o \in Op, Allowed(o), Start(o)
  PROVE  IInv'
<1>1. /\ pc = "idle" /\ op' = o /\ since' = latest /\ seen' = 0 /\ tag' = 0 /\ kind' = KindOnDisk
      /\ UNCHANGED <<latest, binary, dir, manifest, exe, clone, pins, torn, faults>>
      /\ ops' \in 0..MaxOps /\ o.pin <= latest /\ wanted' = IF Forgets(o) THEN 0 ELSE wanted
  BY Numbers DEF Start, service, disk, IInv, TypeOK
<1>2. \/ ~dir /\ o.name = "install" /\ pc' \in {"fetch", "clone"} /\ res' = res
      \/ dir /\ pc' = "idle" /\ res' = "exists"
      \/ dir /\ pc' = "list" /\ res' = res
      \/ o.name = "remove" /\ dir /\ pc' = "remove" /\ res' = res
      \/ pc' = "idle" /\ res' = "error"
  BY DEF Start, Go, End
<1>3. /\ pc' = "remove" => wanted' = 0
      /\ pc' = "list" /\ wanted' # 0 => ~o.force
      /\ ~dir => wanted' = 0
      /\ wanted' # 0 => wanted' = wanted
  BY <1>1, <1>2, PinnedThere DEF Forgets
<1>4. TypeOK'
  <2>1. kind' \in {"binary", "git"} /\ tag' \in Version0 /\ seen' \in Version0 /\ since' \in Version0
    BY <1>1, Numbers DEF IInv, TypeOK, KindOnDisk
  <2>2. wanted' \in Version0 /\ op' \in Op
    BY <1>1, Numbers DEF IInv, TypeOK
  <2> QED BY <1>1, <1>2, <2>1, <2>2 DEF IInv, TypeOK
<1>5. OnDisk' = OnDisk /\ PinnedOnDisk' = PinnedOnDisk /\ KindOnDisk' = KindOnDisk
  BY <1>1 DEF OnDisk, PinnedOnDisk, KindOnDisk
<1>6. SeenInv'
  BY <1>1, Typed, Numbers DEF IInv, SeenInv
<1>7. PinInv'
  BY <1>1, <1>2, <1>3, <1>5 DEF IInv, PinInv, PinKept
<1>8. KindInv' /\ CloneInv'
  BY <1>1, <1>2, <1>5 DEF KindInv, CloneInv
<1>9. InstallInv'
  BY <1>1, <1>2 DEF IInv, TypeOK, InstallInv, Installing, Fetched
<1>10. ReportTrue'
  BY <1>1, <1>2 DEF IInv, ReportTrue, Repairable
<1> QED BY <1>4, <1>6, <1>7, <1>8, <1>9, <1>10 DEF IInv
-----------------------------------------------------------------------------
\* A command that changes the directory goes on: there is no pin to keep, and nothing
\* has been reported yet.
LEMMA Onwards ==
  ASSUME IInv, wanted' = 0, pc' \notin {"idle", "list", "decide", "git"},
         TypeOK', SeenInv', InstallInv', CloneInv', Repairable'
  PROVE  IInv'
BY DEF IInv, PinInv, PinKept, KindInv, ReportTrue

LEMMA InHand ==
  ASSUME IInv, pc \in Installing
  PROVE  /\ wanted = 0 /\ latest \in Nat /\ seen \in Nat /\ since \in Nat /\ tag \in Nat
         /\ manifest # NoFile => manifest.tag \in Nat /\ (manifest.tag < latest)
BY Typed, Numbers DEF IInv, PinInv, InstallInv, Installing, Manifests

LEMMA FetchPreserves == IInv /\ Fetch => IInv'
<1> SUFFICES ASSUME IInv, Fetch, ~Fails PROVE IInv'
  BY FailsPreserves
<1>1. /\ pc = "fetch" /\ pc' = "mkdir" /\ tag' = IF Fresh /\ op.pin # 0 THEN op.pin ELSE latest
      /\ UNCHANGED <<latest, binary, op, since, ops, res, dir, manifest, exe, clone, pins, kind, seen, wanted, torn, faults>>
  BY DEF Fetch, FetchRelease, Go, Inputs, service, disk, history
<1>2. tag' \in Version0 /\ tag' # 0
  BY <1>1, Typed, Numbers DEF IInv, Op
<1>3. TypeOK'
  BY <1>1, <1>2 DEF IInv, TypeOK
<1>4. Fresh' = Fresh
  BY <1>1 DEF Fresh
<1>5. InstallInv'
  <2>1. manifest = NoFile \/ manifest.tag < latest
    BY <1>1 DEF IInv, InstallInv, Installing
  <2>2. op.pin <= latest /\ since <= latest /\ latest \in Nat
    BY <1>1, InHand DEF IInv, SeenInv, Installing
  <2>3. tag' <= latest /\ (IF Fresh /\ op.pin # 0 THEN tag' = op.pin ELSE tag' >= since)
    BY <1>1, <2>2
  <2> QED BY <1>1, <1>2, <1>4, <2>1, <2>3 DEF InstallInv, Fetched
<1>6. SeenInv' /\ CloneInv' /\ Repairable'
  BY <1>1 DEF IInv, SeenInv, CloneInv, ReportTrue, Repairable
<1> QED BY <1>1, <1>3, <1>5, <1>6, InHand, Onwards DEF Installing

\* Of the files: the directory is made, the executable written, the manifest emptied.
LEMMA FilesPreserve == IInv /\ (Mkdir \/ Truncate \/ Copy \/ TruncateManifest) => IInv'
<1> SUFFICES ASSUME IInv, Mkdir \/ Truncate \/ Copy \/ TruncateManifest, ~Fails PROVE IInv'
  BY FailsPreserves
<1>1. /\ pc \in {"mkdir", "truncate", "copy", "manifest"} /\ pc' \in {"truncate", "copy", "manifest", "write"}
      /\ pc' = "manifest" => exe' = tag
      /\ UNCHANGED <<latest, binary, op, since, ops, res, clone, pins, kind, seen, tag, wanted, torn, faults>>
  BY DEF Mkdir, Truncate, Copy, TruncateManifest, Go, Inputs, service, history
<1>2. /\ dir' \in {dir, TRUE} /\ exe' \in {exe, 0, tag}
      /\ \/ manifest' = manifest /\ pc' # "write"
         \/ manifest' = [tag |-> 0, pinned |-> FALSE] /\ pc' = "write" /\ pc = "manifest" /\ exe' = exe
  BY DEF Mkdir, Truncate, Copy, TruncateManifest, Go
<1>3. IF pc' = "write" THEN manifest' \in Manifests /\ manifest' # NoFile /\ manifest'.tag = 0
      ELSE manifest' = manifest
  <2>1. [tag |-> 0, pinned |-> FALSE] \in Manifests
    BY Numbers DEF Manifests
  <2>2. [tag |-> 0, pinned |-> FALSE] # NoFile
    BY <2>1, NotNoFile
  <2>3. [tag |-> 0, pinned |-> FALSE].tag = 0
    OBVIOUS
  <2> QED BY <1>2, <2>1, <2>2, <2>3, Zenon
<1>4. dir' = TRUE
  BY DEF Mkdir, Truncate, Copy, TruncateManifest, IInv, TypeOK, InstallInv, Fetched
<1>5. TypeOK'
  <2>1. exe' \in Version0 /\ manifest' \in Manifests \cup {NoFile}
    BY <1>2, <1>3, Typed, Numbers DEF IInv
  <2> QED BY <1>1, <1>4, <2>1 DEF IInv, TypeOK, Manifests
<1>6. Fresh' = Fresh
  BY <1>1 DEF Fresh
<1>7. manifest' = NoFile \/ manifest'.tag < latest
  <2>1. pc \in Installing /\ 0 < latest
    BY <1>1, Typed, Numbers DEF IInv, Installing, Versions
  <2> QED BY <1>3, <2>1, InHand DEF IInv, InstallInv
<1>8. pc' = "write" => exe' = tag
  BY <1>1, <1>2 DEF IInv, InstallInv
<1>9. pc \in Installing /\ pc \in Fetched /\ pc' \in Fetched /\ pc' \in Installing
  BY <1>1 DEF Installing, Fetched
<1>10. InstallInv'
  <2>1. /\ tag' # 0 /\ tag' <= latest'
        /\ IF Fresh' /\ op'.pin # 0 THEN tag' = op'.pin ELSE tag' >= since'
    BY <1>1, <1>6, <1>9 DEF IInv, InstallInv
  <2>2. pc' \in {"manifest", "write"} => exe' = tag'
    BY <1>1, <1>8
  <2>3. pc' # "decide" /\ (manifest' = NoFile \/ manifest'.tag < latest')
    BY <1>1, <1>7
  <2>4. pc' = "write" => manifest' # NoFile /\ manifest'.tag = 0
    BY <1>3
  <2> QED BY <1>4, <2>1, <2>2, <2>3, <2>4 DEF InstallInv
<1>11. SeenInv'
  <2>1. manifest' # NoFile => manifest'.tag <= latest
    BY <1>3, <1>7, Typed, Numbers DEF IInv, SeenInv, Manifests
  <2> QED BY <1>1, <2>1 DEF IInv, SeenInv
<1>12. CloneInv' /\ Repairable'
  BY <1>1, <1>7 DEF CloneInv, Repairable
<1> QED BY <1>1, <1>5, <1>9, <1>10, <1>11, <1>12, InHand, Onwards

LEMMA WriteManifestPreserves == IInv /\ WriteManifest => IInv'
<1> SUFFICES ASSUME IInv, WriteManifest, ~Fails PROVE IInv'
  BY FailsPreserves
<1>1. /\ pc = "write" /\ pc' = "idle" /\ res' = IF Fresh THEN "installed" ELSE "upgraded"
      /\ manifest' = [tag |-> tag, pinned |-> Fresh /\ op.pin # 0] /\ wanted' = IF Fresh THEN op.pin ELSE 0
      /\ UNCHANGED <<latest, binary, op, since, ops, dir, exe, clone, pins, kind, seen, tag, torn, faults>>
  BY DEF WriteManifest, End, Inputs, service
<1>2. /\ tag \in Version0 /\ tag # 0 /\ exe = tag /\ dir /\ op.pin \in Version0 /\ tag <= latest
      /\ IF Fresh /\ op.pin # 0 THEN tag = op.pin ELSE tag >= since
  BY <1>1, Typed DEF IInv, InstallInv, Fetched, Op
<1>3. manifest' \in Manifests /\ manifest' # NoFile
  BY <1>1, <1>2, NotNoFile DEF Manifests
<1>4. TypeOK'
  BY <1>1, <1>2, <1>3, Numbers DEF IInv, TypeOK, Manifests
<1>5. OnDisk' = tag /\ (PinnedOnDisk' <=> Fresh /\ op.pin # 0)
  BY <1>1, <1>2, <1>3 DEF OnDisk, PinnedOnDisk
<1>6. SeenInv'
  BY <1>1, <1>2 DEF IInv, SeenInv
<1>7. PinInv'
  BY <1>1, <1>2, <1>5 DEF PinInv, PinKept
<1>8. KindInv' /\ InstallInv' /\ CloneInv'
  BY <1>1 DEF KindInv, InstallInv, CloneInv, Installing, Fetched
<1>9. ReportTrue'
  <2>1. Repairable'
    BY <1>1, <1>2 DEF Repairable
  <2>2. res' = "installed" => IF op'.pin # 0 THEN OnDisk' = op'.pin ELSE OnDisk' >= since'
    BY <1>1, <1>2, <1>5
  <2>3. res' = "upgraded" => OnDisk' >= since'
    BY <1>1, <1>2, <1>5
  <2>4. res' # "removed"
    BY <1>1
  <2> QED BY <2>1, <2>2, <2>3, <2>4 DEF ReportTrue
<1> QED BY <1>4, <1>6, <1>7, <1>8, <1>9 DEF IInv
-----------------------------------------------------------------------------
\* A command that ends or goes on without installing a release.
LEMMA Outside ==
  ASSUME pc' \in {"idle", "checkout", "pin", "git", "remove"}
  PROVE  InstallInv'
BY DEF InstallInv, Installing, Fetched

LEMMA ClonePreserves == IInv /\ Clone => IInv'
<1> SUFFICES ASSUME IInv, Clone, ~Fails PROVE IInv'
  BY FailsPreserves
<1>1. /\ pc = "clone" /\ dir' = TRUE
      /\ UNCHANGED <<latest, binary, op, since, ops, manifest, exe, pins, kind, seen, tag, wanted, torn>>
      /\ Fault \/ UNCHANGED faults
      /\ \/ /\ clone' = [head |-> latest, origin |-> latest, onBranch |-> TRUE]
            /\ \/ op.pin # 0 /\ pc' = "checkout" /\ res' = res
               \/ op.pin = 0 /\ pc' = "idle" /\ res' = "installed"
         \/ clone' = clone /\ pc' = "idle" /\ res' = "error"
  BY DEF Clone, NeedsCheckout, Go, End, Inputs, service, history
<1>2. manifest = NoFile /\ wanted = 0
  BY <1>1 DEF IInv, TypeOK, CloneInv, PinInv
<1>3. [head |-> latest, origin |-> latest, onBranch |-> TRUE] \in Clones
  BY Typed DEF IInv, Clones
<1>4. pc' = "checkout" \/ res' = "installed" => clone' \in Clones /\ clone' # NoFile /\ clone'.head = latest
  <2>1. [head |-> latest, origin |-> latest, onBranch |-> TRUE].head = latest
    OBVIOUS
  <2> QED BY <1>1, <1>3, <2>1, NotNoFile, Zenon
<1>5. TypeOK'
  <2>1. clone' \in Clones \cup {NoFile}
    BY <1>1, <1>3 DEF IInv, TypeOK, Clones
  <2>2. pc' \in {"checkout", "idle"} /\ res' \in {res, "installed", "error"}
    BY <1>1
  <2>3. faults' \in 0..MaxFaults
    BY <1>1, FaultCounts DEF IInv
  <2> QED BY <1>1, <2>1, <2>2, <2>3 DEF IInv, TypeOK, Clones
<1>6. SeenInv' /\ PinInv' /\ KindInv' /\ CloneInv' /\ InstallInv'
  <2>1. pc' \in {"checkout", "idle"} /\ (pc' = "checkout" => op'.pin # 0)
    BY <1>1
  <2> QED BY <1>1, <1>2, <1>4, <2>1, Outside DEF IInv, SeenInv, PinInv, PinKept, KindInv, CloneInv
<1>7. ReportTrue'
  <2>1. pc' = "idle" /\ res' = "installed" => op'.pin = 0 /\ OnDisk' >= since'
    BY <1>1, <1>2, <1>4 DEF OnDisk, IInv, SeenInv
  <2>2. pc' = "idle" => res' \in {"installed", "error"}
    BY <1>1
  <2>3. Repairable'
    BY <1>1, <1>2 DEF Repairable
  <2> QED BY <2>1, <2>2, <2>3 DEF ReportTrue
<1> QED BY <1>5, <1>6, <1>7 DEF IInv

LEMMA CheckoutPreserves == IInv /\ Checkout => IInv'
<1> SUFFICES ASSUME IInv, Checkout, ~Fails PROVE IInv'
  BY FailsPreserves
<1>1. /\ pc = "checkout" /\ pc' = "pin"
      /\ clone' = [clone EXCEPT !.head = op.pin, !.onBranch = FALSE]
      /\ UNCHANGED <<latest, binary, op, since, ops, res, dir, manifest, exe, pins, kind, seen, tag, wanted, torn, faults>>
  BY DEF Checkout, Go, Inputs, service, history
<1>2. manifest = NoFile /\ clone \in Clones /\ op.pin # 0 /\ wanted = 0 /\ op.pin \in Versions /\ dir
  BY <1>1, Typed, Numbers DEF IInv, CloneInv, PinInv, Op, TypeOK
<1>3. clone' \in Clones /\ clone'.head = op.pin
  BY <1>1, <1>2 DEF Clones
<1>4. clone' # NoFile
  BY <1>3, NotNoFile
<1>5. TypeOK'
  BY <1>1, <1>2, <1>3 DEF IInv, TypeOK, Clones
<1>6. CloneInv' /\ SeenInv' /\ Repairable'
  BY <1>1, <1>2, <1>3, <1>4 DEF IInv, CloneInv, SeenInv, Repairable
<1> QED BY <1>1, <1>2, <1>5, <1>6, Outside, Onwards

LEMMA PinPreserves == IInv /\ Pin => IInv'
<1> SUFFICES ASSUME IInv, Pin, ~Fails PROVE IInv'
  BY FailsPreserves
<1>1. /\ pc = "pin" /\ pc' = "idle" /\ res' = "installed" /\ pins' = pins \cup {op.pin} /\ wanted' = op.pin
      /\ UNCHANGED <<latest, binary, op, since, ops, dir, manifest, exe, clone, kind, seen, tag, torn, faults>>
  BY DEF Pin, PinCommit, End, Inputs, service
<1>2. manifest = NoFile /\ clone # NoFile /\ op.pin # 0 /\ clone.head = op.pin /\ op.pin \in Versions
  BY <1>1, Typed, Numbers DEF IInv, CloneInv, Op
<1>3. TypeOK'
  BY <1>1, <1>2, Numbers DEF IInv, TypeOK
<1>4. OnDisk' = op.pin /\ PinnedOnDisk'
  BY <1>1, <1>2 DEF OnDisk, PinnedOnDisk
<1>5. SeenInv' /\ PinInv' /\ KindInv' /\ CloneInv' /\ InstallInv'
  BY <1>1, <1>4, Outside DEF IInv, SeenInv, PinInv, PinKept, KindInv, CloneInv
<1>6. ReportTrue'
  BY <1>1, <1>2, <1>4 DEF ReportTrue, Repairable
<1> QED BY <1>3, <1>5, <1>6 DEF IInv
-----------------------------------------------------------------------------
LEMMA ListPreserves == IInv /\ List => IInv'
<1> SUFFICES ASSUME IInv, List PROVE IInv'
  OBVIOUS
<1>1. /\ pc = "list" /\ seen' \in {latest, 0} /\ (Fault \/ UNCHANGED faults)
      /\ (pc' = "idle" /\ res' = "error") \/ (pc' = "decide" /\ res' = res)
      /\ UNCHANGED <<latest, binary, op, since, ops, dir, manifest, exe, clone, pins, kind, tag, wanted, torn>>
  <2>1. pc = "list" /\ seen' \in {latest, 0} /\ (Fault \/ UNCHANGED faults)
    BY DEF List
  <2>2. (pc' = "idle" /\ res' = "error") \/ (pc' = "decide" /\ res' = res)
    BY DEF List, Go, End
  <2>3. UNCHANGED <<latest, binary, op, since, ops, dir, manifest, exe, clone, pins, kind, tag, wanted, torn>>
    BY DEF List, Inputs, service, disk, history
  <2> QED BY <2>1, <2>2, <2>3
<1>2. TypeOK'
  BY <1>1, FaultCounts, Numbers DEF IInv, TypeOK
<1>3. OnDisk' = OnDisk /\ PinnedOnDisk' = PinnedOnDisk /\ KindOnDisk' = KindOnDisk
  BY <1>1 DEF OnDisk, PinnedOnDisk, KindOnDisk
<1>4. SeenInv'
  BY <1>1, Typed, Numbers DEF IInv, SeenInv
<1>5. PinInv' /\ KindInv' /\ CloneInv'
  BY <1>1, <1>3 DEF IInv, PinInv, PinKept, KindInv, CloneInv
<1>6. InstallInv'
  BY <1>1 DEF IInv, SeenInv, InstallInv, Installing, Fetched
<1>7. ReportTrue'
  BY <1>1 DEF IInv, ReportTrue, Repairable
<1> QED BY <1>2, <1>4, <1>5, <1>6, <1>7 DEF IInv

\* What decides about an upgrade is what is on disk.
LEMMA Decided ==
  ASSUME IInv, pc = "decide"
  PROVE  /\ wanted # 0 => Refuses
         /\ UpdateAvailable /\ kind = "binary" => manifest # NoFile /\ manifest.tag < latest
         /\ UpdateAvailable /\ kind = "git" => manifest = NoFile /\ clone # NoFile
<1>1. kind = IF manifest # NoFile THEN "binary" ELSE "git"
  BY DEF IInv, KindInv, KindOnDisk
<1>2. wanted # 0 => Refuses
  BY <1>1, PinnedThere DEF IInv, PinInv, Refuses, IsPinned, PinnedOnDisk
<1>3. ASSUME UpdateAvailable, kind = "binary" PROVE manifest # NoFile /\ manifest.tag < latest
  <2>1. manifest # NoFile /\ manifest.tag # 0 /\ seen # 0 /\ manifest.tag # seen
    BY <1>1, <1>3 DEF UpdateAvailable, CurrentVersion
  <2>2. manifest.tag <= seen /\ seen <= latest
    BY <2>1 DEF IInv, InstallInv, SeenInv
  <2>3. manifest.tag \in Nat /\ seen \in Nat /\ latest \in Nat
    BY <2>1, Typed, Numbers DEF IInv, Manifests
  <2> QED BY <2>1, <2>2, <2>3
<1>4. ASSUME UpdateAvailable, kind = "git" PROVE manifest = NoFile /\ clone # NoFile
  BY <1>1, <1>4 DEF UpdateAvailable, CurrentVersion
<1> QED BY <1>2, <1>3, <1>4

LEMMA DecidePreserves == IInv /\ Decide => IInv'
<1> SUFFICES ASSUME IInv, Decide PROVE IInv'
  OBVIOUS
<1>1. /\ pc = "decide" /\ (Fault \/ UNCHANGED faults)
      /\ UNCHANGED <<latest, binary, op, since, ops, dir, manifest, exe, clone, pins, kind, seen, tag, wanted, torn>>
  BY DEF Decide, Inputs, service, disk, history
<1>2. \/ pc' = "idle" /\ res' \in {"pinned", "uptodate"}
      \/ pc' = "fetch" /\ res' = res /\ ~Refuses /\ UpdateAvailable /\ kind = "binary"
      \/ pc' \in {"remove", "git"} /\ res' = res /\ ~Refuses /\ UpdateAvailable /\ kind = "git"
  BY DEF Decide, Go, End
<1>3. /\ pc' # "idle" => wanted = 0
      /\ pc' = "fetch" => manifest # NoFile /\ manifest.tag < latest
      /\ pc' = "git" => manifest = NoFile /\ clone # NoFile
  BY <1>1, <1>2, Decided
<1>4. TypeOK'
  BY <1>1, <1>2, FaultCounts DEF IInv, TypeOK
<1>5. OnDisk' = OnDisk /\ PinnedOnDisk' = PinnedOnDisk
  BY <1>1 DEF OnDisk, PinnedOnDisk
<1>6. SeenInv' /\ PinInv' /\ KindInv' /\ CloneInv'
  BY <1>1, <1>2, <1>3, <1>5 DEF IInv, SeenInv, PinInv, PinKept, KindInv, CloneInv
<1>7. InstallInv'
  BY <1>1, <1>2, <1>3 DEF InstallInv, Installing, Fetched
<1>8. ReportTrue'
  BY <1>1, <1>2 DEF IInv, ReportTrue, Repairable
<1> QED BY <1>4, <1>6, <1>7, <1>8 DEF IInv

LEMMA UpgradeGitPreserves == IInv /\ UpgradeGit => IInv'
<1> SUFFICES ASSUME IInv, UpgradeGit, ~Fails PROVE IInv'
  BY FailsPreserves
<1>1. /\ pc = "git" /\ pc' = "idle"
      /\ UNCHANGED <<latest, binary, op, since, ops, dir, manifest, exe, pins, kind, seen, tag, wanted, torn, faults>>
      /\ \/ op.force /\ clone' = [clone EXCEPT !.head = clone.origin] /\ res' = "upgraded"
         \/ ~op.force /\ clone' = [clone EXCEPT !.head = latest, !.origin = latest] /\ res' = "upgraded"
         \/ clone' = clone /\ res' = "error"
  BY DEF UpgradeGit, GitReset, GitPull, End, Inputs, service, disk, history
<1>2. manifest = NoFile /\ clone \in Clones /\ wanted = 0 /\ latest \in Versions
  BY <1>1, Typed DEF IInv, KindInv, PinInv
<1>3. clone' \in Clones /\ (~op.force /\ res' = "upgraded" => clone'.head = latest)
  BY <1>1, <1>2 DEF Clones
<1>4. clone' # NoFile
  BY <1>3, NotNoFile
<1>5. TypeOK'
  <2>1. dir
    BY <1>2, NotNoFile DEF IInv, TypeOK
  <2>2. res' \in {"upgraded", "error"}
    BY <1>1
  <2> QED BY <1>1, <1>3, <2>1, <2>2 DEF IInv, TypeOK, Clones
<1>6. SeenInv' /\ PinInv' /\ KindInv' /\ CloneInv' /\ InstallInv'
  BY <1>1, <1>2, Outside DEF IInv, SeenInv, PinInv, PinKept, KindInv, CloneInv
<1>7. ReportTrue'
  <2>1. res' = "upgraded" /\ ~ForcedScript' => OnDisk' >= since'
    BY <1>1, <1>2, <1>3, <1>4 DEF OnDisk, ForcedScript, IInv, SeenInv
  <2>2. Repairable'
    BY <1>1, <1>2 DEF Repairable
  <2> QED BY <1>1, <2>1, <2>2 DEF ReportTrue
<1> QED BY <1>5, <1>6, <1>7 DEF IInv

LEMMA RemovePreserves == IInv /\ RemoveAll => IInv'
<1> SUFFICES ASSUME IInv, RemoveAll PROVE IInv'
  OBVIOUS
<1>1. /\ pc = "remove" /\ wanted = 0 /\ (Fault \/ UNCHANGED faults)
      /\ UNCHANGED <<latest, binary, op, since, ops, kind, seen, tag, wanted>>
  BY DEF RemoveAll, Inputs, service, IInv, PinInv
<1>2. CASE /\ torn' = TRUE /\ pc' = "remove" /\ res' = res /\ dir' = dir
           /\ manifest' \in {manifest, NoFile} /\ exe' \in {exe, 0} /\ clone' \in {clone, NoFile} /\ pins' \in {pins, {}}
  <2>1. TypeOK'
    BY <1>1, <1>2, FaultCounts, Numbers DEF IInv, TypeOK
  <2>2. SeenInv' /\ CloneInv' /\ Repairable'
    BY <1>1, <1>2 DEF IInv, SeenInv, CloneInv, Repairable
  <2> QED BY <1>1, <1>2, <2>1, <2>2, Outside, Onwards
<1>3. CASE /\ manifest = NoFile /\ exe = 0 /\ clone = NoFile /\ dir' = FALSE /\ torn' = FALSE
           /\ (pc' = "idle" /\ res' = "removed") \/ (pc' = "fetch" /\ res' = res)
           /\ UNCHANGED <<manifest, exe, clone, pins>>
  <2>1. TypeOK'
    BY <1>1, <1>3, FaultCounts DEF IInv, TypeOK
  <2>2. SeenInv' /\ CloneInv' /\ PinInv' /\ KindInv' /\ Repairable'
    BY <1>1, <1>3 DEF IInv, SeenInv, CloneInv, PinInv, PinKept, KindInv, Repairable
  <2>3. InstallInv'
    BY <1>3 DEF InstallInv, Installing, Fetched
  <2>4. ReportTrue'
    BY <1>3, <2>2 DEF ReportTrue
  <2> QED BY <2>1, <2>2, <2>3, <2>4 DEF IInv
<1>4. CASE pc' = "idle" /\ res' = "error" /\ UNCHANGED <<dir, manifest, exe, clone, pins, torn>>
  <2>1. TypeOK'
    BY <1>1, <1>4, FaultCounts DEF IInv, TypeOK
  <2>2. SeenInv' /\ CloneInv' /\ PinInv' /\ KindInv' /\ InstallInv'
    BY <1>1, <1>4, Outside DEF IInv, SeenInv, CloneInv, PinInv, PinKept, KindInv
  <2>3. ReportTrue'
    BY <1>1, <1>4 DEF IInv, ReportTrue, Repairable
  <2> QED BY <2>1, <2>2, <2>3 DEF IInv
<1> QED BY <1>2, <1>3, <1>4 DEF RemoveAll, Go, End, disk
-----------------------------------------------------------------------------
LEMMA StutterPreserves == IInv /\ UNCHANGED vars => IInv'
<1> SUFFICES ASSUME IInv, UNCHANGED vars PROVE IInv'
  OBVIOUS
<1>1. /\ UNCHANGED <<latest, binary, dir, manifest, exe, clone, pins, pc, res, op, kind, seen, tag, since>>
      /\ UNCHANGED <<wanted, torn, ops, faults>>
  BY DEF vars, service, disk, command, history
<1> QED BY <1>1 DEF IInv, TypeOK, SeenInv, PinInv, PinKept, KindInv, InstallInv, CloneInv, ReportTrue, Repairable,
       OnDisk, PinnedOnDisk, KindOnDisk, Fresh, ForcedScript

LEMMA NextPreserves == IInv /\ [Next]_vars => IInv'
BY ServicePreserves, StartPreserves, FetchPreserves, FilesPreserve, WriteManifestPreserves, ClonePreserves,
   CheckoutPreserves, PinPreserves, ListPreserves, DecidePreserves, UpgradeGitPreserves, RemovePreserves,
   StutterPreserves DEF Next

THEOREM Invariance == Spec => []IInv
BY InitIInv, NextPreserves, PTL DEF Spec

\* A version that install --pin has reported stays, pinned, until the user forces an upgrade
\* or removes it (PinKept).
THEOREM PinStays == Spec => []PinKept
<1>1. IInv => PinKept
  BY DEF IInv, PinInv
<1> QED BY Invariance, <1>1, PTL

\* What install, upgrade and remove report is on disk, and what a failed upgrade leaves is
\* older than the latest (ReportTrue).
THEOREM ReportsTrue == Spec => []ReportTrue
<1>1. IInv => ReportTrue
  BY DEF IInv
<1> QED BY Invariance, <1>1, PTL

-----------------------------------------------------------------------------
\* The notifier.
Kinds == Notifier!Kinds
Days == Notifier!Days
NoStamp == Notifier!NoStamp
Off == Notifier!Off
Checker == [at : {"off", "read", "request", "write", "blank", "retry", "send"}, found : BOOLEAN, on : Days]

NotifierType ==
    /\ day \in Days /\ stamp \in [Kinds -> Days \cup {NoStamp}]
    /\ main \in [Processes -> {"off", "run", "post", "wait", "exit"}]
    /\ chk \in [Processes -> [Kinds -> Checker]]
    /\ told \in [Kinds -> SUBSET Days]

Active(p) == main[p] \notin {"off", "exit"}

\* While no two processes have run at once there is one that runs, or none, and a checker
\* is one of it.
AloneInv ==
    /\ \A p, q \in Processes : Active(p) /\ Active(q) => p = q
    /\ \A p \in Processes : ~Active(p) => \A k \in Kinds : chk[p][k].at = "off"

\* What has been told is of the past, and what was told today is in the state file.
ToldInv ==
    \A k \in Kinds : /\ \A d \in told[k] : d <= day
                     /\ day \in told[k] => stamp[k] = day

\* A check under way is for a day that has not been told, and so is its answer, the day of
\* which is in the state file.
CheckOk(c, k, s) ==
    /\ c.at \in {"off", "read", "request", "blank", "retry"} => ~c.found
    /\ c.at \in {"request", "write", "blank"} => day \notin told[k] /\ (k = "ext" => c.on \notin told[k] /\ c.on <= day)
    /\ c.at \in {"blank", "retry"} => k = "ext"
    /\ c.at = "retry" => c.on \notin told[k] /\ c.on <= day /\ s = c.on
    /\ c.at = "send" /\ c.found => c.on \notin told[k] /\ c.on <= day /\ s = c.on
CheckInv == \A p \in Processes, k \in Kinds : CheckOk(chk[p][k], k, stamp[k])

NInv == NotifierType /\ ~again /\ (~overlap => AloneInv /\ ToldInv /\ CheckInv)

\* Before the extension is run nothing has been looked for.
Quiet ==
    /\ day = 0 /\ main = [p \in Processes |-> "off"] /\ chk = [p \in Processes |-> [k \in Kinds |-> Off]]
    /\ told = [k \in Kinds |-> {}]
\* While it is run the directory is left alone.
LeftAlone == wanted = 0 /\ pc = "idle" /\ res = "none" /\ Repairable

CommandsInv ==
    /\ NInv
    /\ stage = "manage" => IInv /\ Quiet
    /\ stage = "run" => LeftAlone
    /\ stage \in {"manage", "run"}

-----------------------------------------------------------------------------
LEMMA Calendar ==
  /\ MaxDays \in Nat /\ Days = 0..MaxDays /\ NoStamp \notin Days /\ Kinds = {"gh", "ext"} /\ 0 \in Days
  /\ Off \in Checker /\ Off.at = "off" /\ Off.found = FALSE
<1>1. MaxDays \in Nat /\ Days = 0..MaxDays /\ NoStamp = MaxDays + 1 /\ Kinds = {"gh", "ext"}
  BY NotifierAssumption
  DEF Notifier!NotifierBounds, Days, NoStamp, Kinds, Notifier!Days, Notifier!NoStamp, Notifier!Kinds
<1>2. 0 \in Days /\ NoStamp \notin Days
  BY <1>1
<1>3. Off \in Checker /\ Off.at = "off" /\ Off.found = FALSE
  BY <1>2 DEF Off, Notifier!Off, Checker
<1> QED BY <1>1, <1>2, <1>3

\* A checker that runs takes a step.
LEMMA Moved ==
  ASSUME NInv, NEW p \in Processes, NEW k \in Kinds, NEW c \in Checker,
         chk[p][k].at # "off", chk' = [chk EXCEPT ![p][k] = c],
         UNCHANGED <<day, main, told, again, overlap>>,
         stamp' \in [Kinds -> Days \cup {NoStamp}], \A j \in Kinds \ {k} : stamp'[j] = stamp[j],
         ~overlap => CheckOk(c, k, stamp'[k]) /\ (day \in told[k] => stamp'[k] = day)
  PROVE  NInv'
<1>1. NotifierType'
  BY DEF NInv, NotifierType
<1>2. ASSUME ~overlap PROVE AloneInv' /\ ToldInv' /\ CheckInv'
  <2>1. AloneInv /\ ToldInv /\ CheckInv /\ NotifierType
    BY <1>2 DEF NInv
  <2>2. Active(p) /\ \A q \in Processes : Active(q)' <=> Active(q)
    BY <2>1 DEF AloneInv, Active
  <2>3. /\ chk'[p][k] = c /\ \A j \in Kinds \ {k} : chk'[p][j] = chk[p][j]
        /\ \A q \in Processes \ {p} : chk'[q] = chk[q]
    BY <2>1 DEF NotifierType
  <2>4. AloneInv'
    BY <2>1, <2>2, <2>3 DEF AloneInv
  <2>5. ToldInv'
    BY <1>2, <2>1 DEF ToldInv
  <2>6. ASSUME NEW q \in Processes, NEW j \in Kinds
        PROVE  CheckOk(chk'[q][j], j, stamp'[j])
    <3>1. CASE q = p /\ j = k
      BY <1>2, <2>3, <3>1
    <3>2. CASE q = p /\ j # k
      BY <2>1, <2>3, <3>2 DEF CheckInv
    <3>3. CASE q # p
      <4>1. chk'[q][j].at = "off" /\ ~chk'[q][j].found
        BY <2>1, <2>2, <2>3, <3>3 DEF AloneInv, CheckInv, CheckOk
      <4> QED BY <4>1 DEF CheckOk
    <3> QED BY <3>1, <3>2, <3>3
  <2>7. CheckInv'
    BY <2>6 DEF CheckInv, CheckOk
  <2> QED BY <2>4, <2>5, <2>7
<1> QED BY <1>1, <1>2 DEF NInv

\* What is known of a checker that runs.
LEMMA Running1 ==
  ASSUME NInv, NEW p \in Processes, NEW k \in Kinds
  PROVE  /\ chk[p][k] \in Checker /\ day \in Days /\ stamp[k] \in Days \cup {NoStamp}
         /\ stamp \in [Kinds -> Days \cup {NoStamp}]
         /\ ~overlap => CheckOk(chk[p][k], k, stamp[k]) /\ (day \in told[k] => stamp[k] = day)
                        /\ \A d \in told[k] : d <= day
         /\ ~overlap /\ chk[p][k].at # "off" =>
               \A q \in Processes, j \in Kinds : chk[q][j].at # "off" => q = p
BY DEF NInv, NotifierType, CheckInv, ToldInv, AloneInv

\* An answer that there is nothing to say can be given at any time.
LEMMA SendsNonePreserves ==
  ASSUME NInv, NEW p \in Processes, NEW k \in Kinds, chk[p][k].at # "off", Notifier!SendsNone(p, k),
         UNCHANGED <<day, main, told, again, overlap>>,
         stamp' \in [Kinds -> Days \cup {NoStamp}], \A j \in Kinds \ {k} : stamp'[j] = stamp[j],
         ~overlap => (day \in told[k] => stamp'[k] = day)
  PROVE  NInv'
<1> DEFINE c == [Off EXCEPT !.at = "send"]
<1>1. chk' = [chk EXCEPT ![p][k] = c]
  BY DEF Notifier!SendsNone, Off
<1>2. c \in Checker /\ c.at = "send" /\ (c.found <=> FALSE)
  BY Calendar DEF Checker
<1> HIDE DEF c
<1>3. CheckOk(c, k, stamp'[k])
  BY <1>2 DEF CheckOk
<1> QED BY <1>1, <1>2, <1>3, Moved

LEMMA ReadStatePreserves ==
  ASSUME NInv, NEW p \in Processes, NEW k \in Kinds, Notifier!ReadState(p, k)
  PROVE  NInv'
<1>1. chk[p][k].at = "read" /\ UNCHANGED <<day, stamp, main, told, again, overlap>>
  BY DEF Notifier!ReadState, Notifier!History
<1>2. CASE Notifier!SendsNone(p, k)
  BY <1>1, <1>2, Running1, SendsNonePreserves
<1>3. CASE /\ ~Notifier!IsFresh(k) \/ \E q \in Processes : chk[q][k].at \in {"write", "blank"}
           /\ chk' = [chk EXCEPT ![p][k].at = "request", ![p][k].on = IF k = "ext" THEN day ELSE 0]
  <2> DEFINE c == [chk[p][k] EXCEPT !.at = "request", !.on = IF k = "ext" THEN day ELSE 0]
  <2>1. chk' = [chk EXCEPT ![p][k] = c]
    BY <1>3 DEF NInv, NotifierType, Checker
  <2>2. /\ c \in Checker /\ c.at = "request" /\ (c.found <=> chk[p][k].found) /\ (k = "ext" => c.on = day)
    <3>1. chk[p][k] \in Checker /\ day \in Days /\ 0 \in Days
      BY Running1, Calendar
    <3> QED BY <3>1 DEF Checker
  <2>3. ASSUME ~overlap PROVE day \notin told[k] /\ ~chk[p][k].found
    BY <1>1, <1>3, <2>3, Running1 DEF CheckOk, Notifier!IsFresh
  <2>4. day <= day
    BY Running1, Calendar
  <2> HIDE DEF c
  <2>5. ASSUME ~overlap PROVE CheckOk(c, k, stamp'[k])
    <3>1. ~c.found
      BY <2>2, <2>3, <2>5
    <3>2. day \notin told[k] /\ (k = "ext" => c.on \notin told[k] /\ c.on <= day)
      BY <2>2, <2>3, <2>4, <2>5
    <3> QED BY <2>2, <3>1, <3>2 DEF CheckOk
  <2> QED BY <1>1, <2>1, <2>2, <2>5, Running1, Moved
<1> QED BY <1>2, <1>3 DEF Notifier!ReadState, Notifier!Writing

\* The service answers, or is not waited for.
LEMMA AnswerPreserves ==
  ASSUME NInv, NEW p \in Processes, NEW k \in Kinds,
         Notifier!Answer(p, k) \/ Notifier!Abort(p, k)
  PROVE  NInv'
<1>1. chk[p][k].at = "request" /\ UNCHANGED <<day, stamp, main, told, again, overlap>>
  BY DEF Notifier!Answer, Notifier!Abort, Notifier!History
<1>2. CASE Notifier!SendsNone(p, k)
  BY <1>1, <1>2, Running1, SendsNonePreserves
<1>3. ASSUME NEW f \in BOOLEAN, chk' = [chk EXCEPT ![p][k] = [chk[p][k] EXCEPT !.at = "write", !.found = f]]
      PROVE  NInv'
  <2> DEFINE c == [chk[p][k] EXCEPT !.at = "write", !.found = f]
  <2>1. c \in Checker /\ c.at = "write" /\ c.on = chk[p][k].on
    <3>1. chk[p][k] \in Checker
      BY Running1
    <3> QED BY <3>1 DEF Checker
  <2>2. ~overlap => CheckOk(c, k, stamp'[k])
    BY <1>1, <2>1, Running1 DEF CheckOk
  <2> HIDE DEF c
  <2>3. chk' = [chk EXCEPT ![p][k] = c]
    BY <1>3 DEF c
  <2> QED BY <1>1, <2>1, <2>2, <2>3, Running1, Moved
<1>4. CASE Notifier!Answer(p, k)
  <2>1. PICK f \in BOOLEAN : chk' = [chk EXCEPT ![p][k].at = "write", ![p][k].found = f]
    BY <1>4 DEF Notifier!Answer
  <2>2. chk' = [chk EXCEPT ![p][k] = [chk[p][k] EXCEPT !.at = "write", !.found = f]]
    BY <2>1 DEF NInv, NotifierType, Checker
  <2> QED BY <1>3, <2>2
<1> QED BY <1>1, <1>2, <1>4 DEF Notifier!Abort

\* A request that fails: there is nothing to say, or the file is to be written all the same.
LEMMA RequestFailsPreserves ==
  ASSUME NInv, NEW p \in Processes, NEW k \in Kinds, Notifier!RequestFails(p, k)
  PROVE  NInv'
<1>1. chk[p][k].at \in {"request", "retry"} /\ UNCHANGED <<day, stamp, main, told, again, overlap>>
  BY DEF Notifier!RequestFails, Notifier!History
<1>2. CASE Notifier!SendsNone(p, k)
  BY <1>1, <1>2, Running1, SendsNonePreserves
<1>3. CASE chk[p][k].at = "request" /\ k # "gh" /\ Notifier!Moves(p, k, "blank")
  <2> DEFINE c == [chk[p][k] EXCEPT !.at = "blank"]
  <2>1. chk' = [chk EXCEPT ![p][k] = c]
    BY <1>3 DEF Notifier!Moves, NInv, NotifierType, Checker
  <2>2. c \in Checker /\ c.at = "blank" /\ c.on = chk[p][k].on /\ (c.found <=> chk[p][k].found)
    BY Running1 DEF Checker
  <2>3. ~overlap => CheckOk(c, k, stamp'[k])
    BY <1>1, <1>3, <2>2, Running1, Calendar DEF CheckOk
  <2> HIDE DEF c
  <2> QED BY <1>1, <1>3, <2>1, <2>2, <2>3, Running1, Moved
<1> QED BY <1>1, <1>2, <1>3 DEF Notifier!RequestFails, Notifier!AfterFailure

\* The second request comes after the file was written, with the day of the first.
LEMMA AnswerAgainPreserves ==
  ASSUME NInv, NEW p \in Processes, NEW k \in Kinds, Notifier!AnswerAgain(p, k)
  PROVE  NInv'
<1>1. chk[p][k].at = "retry" /\ UNCHANGED <<day, stamp, main, told, again, overlap>>
  BY DEF Notifier!AnswerAgain, Notifier!History
<1>2. CASE Notifier!SendsNone(p, k)
  BY <1>1, <1>2, Running1, SendsNonePreserves
<1>3. CASE chk' = [chk EXCEPT ![p][k].at = "send", ![p][k].found = TRUE]
  <2> DEFINE c == [chk[p][k] EXCEPT !.at = "send", !.found = TRUE]
  <2>1. chk' = [chk EXCEPT ![p][k] = c]
    BY <1>3 DEF NInv, NotifierType, Checker
  <2>2. c \in Checker /\ c.at = "send" /\ c.on = chk[p][k].on
    <3>1. chk[p][k] \in Checker
      BY Running1
    <3> QED BY <3>1 DEF Checker
  <2>3. ~overlap => CheckOk(c, k, stamp'[k])
    BY <1>1, <2>2, Running1 DEF CheckOk
  <2> HIDE DEF c
  <2> QED BY <1>1, <2>1, <2>2, <2>3, Running1, Moved
<1> QED BY <1>2, <1>3 DEF Notifier!AnswerAgain

\* The state file has the day of the answer when the answer is there.
LEMMA WriteStatePreserves ==
  ASSUME NInv, NEW p \in Processes, NEW k \in Kinds, Notifier!WriteState(p, k)
  PROVE  NInv'
<1> DEFINE now == IF k = "ext" THEN chk[p][k].on ELSE day
<1>1. chk[p][k].at \in {"write", "blank"} /\ UNCHANGED <<day, main, told, again, overlap>>
  BY DEF Notifier!WriteState, Notifier!Writing, Notifier!History
<1>2. now \in Days /\ NoStamp \in Days \cup {NoStamp}
  BY Running1 DEF Checker
<1>3. ~overlap => now \notin told[k] /\ now <= day /\ day \notin told[k]
  BY <1>1, Running1, Calendar DEF CheckOk
<1>4. CASE /\ stamp' = [stamp EXCEPT ![k] = now]
           /\ chk' = [chk EXCEPT ![p][k].at = "send", ![p][k].on = IF chk[p][k].found THEN now ELSE 0]
  <2> HIDE DEF now
  <2> DEFINE c == [chk[p][k] EXCEPT !.at = "send", !.on = IF chk[p][k].found THEN now ELSE 0]
  <2>1. chk' = [chk EXCEPT ![p][k] = c]
    BY <1>4 DEF NInv, NotifierType, Checker
  <2>2. c \in Checker /\ c.at = "send" /\ (c.found => c.on = now)
    <3>1. chk[p][k] \in Checker /\ now \in Days /\ 0 \in Days
      BY <1>2, Running1, Calendar
    <3> QED BY <3>1 DEF Checker
  <2>3. stamp' \in [Kinds -> Days \cup {NoStamp}] /\ stamp'[k] = now /\ \A j \in Kinds \ {k} : stamp'[j] = stamp[j]
    BY <1>2, <1>4, Running1
  <2> HIDE DEF c
  <2>4. ~overlap => CheckOk(c, k, stamp'[k])
    BY <1>3, <2>2, <2>3 DEF CheckOk
  <2> QED BY <1>1, <1>3, <2>1, <2>2, <2>3, <2>4, Moved
<1>5. CASE Notifier!SendsNone(p, k) /\ (Notifier!SetStamp(k, NoStamp) \/ UNCHANGED stamp)
  <2>1. stamp' \in [Kinds -> Days \cup {NoStamp}] /\ \A j \in Kinds \ {k} : stamp'[j] = stamp[j]
    BY <1>5, Running1 DEF Notifier!SetStamp
  <2> QED BY <1>1, <1>3, <1>5, <2>1, SendsNonePreserves
<1>6. CASE stamp' = [stamp EXCEPT ![k] = now] /\ chk[p][k].at = "blank" /\ Notifier!Moves(p, k, "retry")
  <2> HIDE DEF now
  <2> DEFINE c == [chk[p][k] EXCEPT !.at = "retry"]
  <2>1. chk' = [chk EXCEPT ![p][k] = c]
    BY <1>6 DEF Notifier!Moves, NInv, NotifierType, Checker
  <2>2. c \in Checker /\ c.at = "retry" /\ c.on = chk[p][k].on /\ (c.found <=> chk[p][k].found)
    BY Running1 DEF Checker
  <2>3. stamp' \in [Kinds -> Days \cup {NoStamp}] /\ stamp'[k] = now /\ \A j \in Kinds \ {k} : stamp'[j] = stamp[j]
    BY <1>2, <1>6, Running1
  <2>4. ASSUME ~overlap PROVE k = "ext" /\ now = chk[p][k].on /\ ~chk[p][k].found
    BY <1>6, <2>4, Running1 DEF CheckOk, now
  <2> HIDE DEF c
  <2>5. ~overlap => CheckOk(c, k, stamp'[k])
    BY <1>3, <2>2, <2>3, <2>4 DEF CheckOk
  <2> QED BY <1>1, <1>3, <1>6, <2>1, <2>2, <2>3, <2>5, Moved
<1> QED BY <1>4, <1>5, <1>6 DEF Notifier!WriteState, Notifier!SetStamp, NoStamp
-----------------------------------------------------------------------------
LEMMA NextDayPreserves == NInv /\ Notifier!NextDay => NInv'
<1> SUFFICES ASSUME NInv, Notifier!NextDay PROVE NInv'
  OBVIOUS
<1>1. /\ day < MaxDays /\ day' = day + 1
      /\ UNCHANGED <<stamp, main, chk, told, again, overlap>>
  BY DEF Notifier!NextDay, Notifier!History
<1>2. NotifierType' /\ day \in Nat
  BY <1>1, Calendar DEF NInv, NotifierType
<1>3. ASSUME ~overlap PROVE AloneInv' /\ ToldInv' /\ CheckInv'
  <2>1. AloneInv /\ ToldInv /\ CheckInv /\ NotifierType
    BY <1>3 DEF NInv
  <2>2. \A k \in Kinds : day' \notin told[k] /\ \A d \in told[k] : d <= day'
    BY <1>1, <1>2, <2>1, Calendar DEF ToldInv, NotifierType
  <2>3. ToldInv'
    BY <1>1, <2>2 DEF ToldInv
  <2>4. AloneInv'
    BY <1>1, <2>1 DEF AloneInv, Active
  <2>5. CheckInv'
    <3> SUFFICES ASSUME NEW p \in Processes, NEW k \in Kinds PROVE CheckOk(chk[p][k], k, stamp[k])'
      BY <1>1 DEF CheckInv
    <3>1. chk[p][k].on \in Nat
      BY <2>1, Calendar DEF NotifierType, Checker
    <3> QED BY <1>1, <1>2, <2>1, <2>2, <3>1 DEF CheckInv, CheckOk
  <2> QED BY <2>3, <2>4, <2>5
<1> QED BY <1>1, <1>2, <1>3 DEF NInv

\* A process begins: from then on there may be two, and nothing more is said.
LEMMA BeginPreserves ==
  ASSUME NInv, NEW p \in Processes, Notifier!Begin(p)
  PROVE  NInv'
<1>1. /\ main[p] = "off" /\ main' = [main EXCEPT ![p] = "run"]
      /\ overlap' <=> (overlap \/ \E q \in Processes \ {p} : Active(q))
      /\ told' = IF overlap' THEN [k \in Kinds |-> {}] ELSE told
      /\ UNCHANGED <<day, stamp, again>>
  BY DEF Notifier!Begin, Kinds, Active
<1>2. PICK extension \in BOOLEAN :
        chk' = [chk EXCEPT ![p]["gh"].at = "read", ![p]["ext"].at = IF extension THEN "read" ELSE "off"]
  BY DEF Notifier!Begin
<1>3. /\ \A q \in Processes \ {p} : chk'[q] = chk[q] /\ main'[q] = main[q]
      /\ main'[p] = "run"
  BY <1>1, <1>2 DEF NInv, NotifierType
<1>4. \A k \in Kinds : chk'[p][k] \in Checker /\ chk'[p][k].at \in {"read", "off"} /\ (chk'[p][k].found <=> chk[p][k].found)
  <2>1. chk[p] \in [Kinds -> Checker] /\ chk[p]["gh"] \in Checker /\ chk[p]["ext"] \in Checker
    BY Calendar DEF NInv, NotifierType
  <2>2. /\ chk'[p]["gh"] = [chk[p]["gh"] EXCEPT !.at = "read"]
        /\ chk'[p]["ext"] = [chk[p]["ext"] EXCEPT !.at = IF extension THEN "read" ELSE "off"]
    BY <1>2, <2>1, Calendar DEF NInv, NotifierType
  <2> QED BY <2>1, <2>2, Calendar DEF Checker
<1>5. NotifierType'
  <2>1. told' \in [Kinds -> SUBSET Days]
    BY <1>1 DEF NInv, NotifierType
  <2>2. main' \in [Processes -> {"off", "run", "post", "wait", "exit"}]
    BY <1>1 DEF NInv, NotifierType
  <2>3. chk' \in [Processes -> [Kinds -> Checker]]
    BY <1>2, <1>3, <1>4, Calendar DEF NInv, NotifierType
  <2> QED BY <1>1, <2>1, <2>2, <2>3 DEF NInv, NotifierType
<1>6. ASSUME ~overlap' PROVE AloneInv' /\ ToldInv' /\ CheckInv'
  <2>1. /\ AloneInv /\ ToldInv /\ CheckInv /\ told' = told
        /\ \A q \in Processes \ {p} : ~Active(q)
    BY <1>1, <1>6 DEF NInv
  <2>2. AloneInv'
    BY <1>3, <2>1 DEF AloneInv, Active
  <2>3. ToldInv'
    BY <1>1, <2>1 DEF ToldInv
  <2>4. \A k \in Kinds : ~chk[p][k].found
    BY <1>1, <2>1 DEF AloneInv, Active, CheckInv, CheckOk
  <2>5. CheckInv'
    <3>1. ASSUME NEW q \in Processes, NEW k \in Kinds PROVE CheckOk(chk[q][k], k, stamp[k])'
      <4>1. chk'[q][k].at \in {"off", "read"} /\ ~chk'[q][k].found
        BY <1>3, <1>4, <2>1, <2>4 DEF AloneInv, CheckInv, CheckOk
      <4> QED BY <4>1 DEF CheckOk
    <3> QED BY <3>1 DEF CheckInv
  <2> QED BY <2>2, <2>3, <2>5
<1> QED BY <1>1, <1>5, <1>6 DEF NInv
-----------------------------------------------------------------------------
LEMMA CommandSucceedsPreserves ==
  ASSUME NInv, NEW p \in Processes, Notifier!CommandSucceeds(p)
  PROVE  NInv'
<1>1. /\ main[p] = "run" /\ main' = [main EXCEPT ![p] = "post"]
      /\ UNCHANGED <<day, stamp, chk, told, again, overlap>>
  BY DEF Notifier!CommandSucceeds, Notifier!History
<1>2. NotifierType' /\ \A q \in Processes : Active(q)' <=> Active(q)
  BY <1>1 DEF NInv, NotifierType, Active
<1> QED BY <1>1, <1>2 DEF NInv, AloneInv, ToldInv, CheckInv, CheckOk

\* What is told is the answer of a check, of a day that has not been told.
LEMMA Told ==
  ASSUME NInv, NEW p \in Processes, NEW k \in Kinds, chk[p][k].at = "send",
         Notifier!Tell(p, k) \/ Notifier!History
  PROVE  /\ ~again' /\ told' \in [Kinds -> SUBSET Days] /\ (overlap' <=> overlap)
         /\ ~overlap => /\ \A j \in Kinds \ {k} : told'[j] = told[j]
                        /\ \/ told'[k] = told[k]
                           \/ chk[p][k].found /\ told'[k] = told[k] \cup {chk[p][k].on}
<1>1. CASE Notifier!History
  BY <1>1 DEF Notifier!History, NInv, NotifierType
<1>2. CASE Notifier!Tell(p, k)
  <2> DEFINE shown == chk[p][k].found /\ ~overlap
  <2>1. /\ told' = IF shown THEN [told EXCEPT ![k] = @ \cup {chk[p][k].on}] ELSE told
        /\ again' <=> (again \/ (shown /\ chk[p][k].on \in told[k])) /\ (overlap' <=> overlap)
    BY <1>2 DEF Notifier!Tell
  <2>2. chk[p][k].on \in Days /\ told \in [Kinds -> SUBSET Days] /\ ~again
    BY Running1 DEF NInv, NotifierType, Checker
  <2>3. told' \in [Kinds -> SUBSET Days]
    BY <2>1, <2>2
  <2>4. shown => chk[p][k].on \notin told[k]
    BY Running1 DEF CheckOk
  <2>5. again' <=> (again \/ (shown /\ chk[p][k].on \in told[k]))
    BY <1>2, Zenon DEF Notifier!Tell
  <2>6. ~again'
    BY <2>2, <2>4, <2>5
  <2>7. overlap' <=> overlap
    BY <1>2 DEF Notifier!Tell
  <2>8. ~overlap => \A j \in Kinds \ {k} : told'[j] = told[j]
    BY <2>1, <2>2
  <2>9. told'[k] = told[k] \/ (chk[p][k].found /\ told'[k] = told[k] \cup {chk[p][k].on})
    BY <2>1, <2>2
  <2> QED BY <2>3, <2>6, <2>7, <2>8, <2>9
<1> QED BY <1>1, <1>2

\* The process that runs alone has its checkers stopped, some or all, after it has told what
\* one of them has found.
LEMMA Stopped ==
  ASSUME NInv, NEW p \in Processes, Active(p),
         NEW to \in {"wait", "exit"}, main' = [main EXCEPT ![p] = to],
         UNCHANGED day, overlap' <=> overlap, ~again', told' \in [Kinds -> SUBSET Days],
         chk' \in [Processes -> [Kinds -> Checker]],
         stamp' \in [Kinds -> Days \cup {NoStamp}],
         \A q \in Processes \ {p} : chk'[q] = chk[q],
         \A k \in Kinds : /\ chk'[p][k] = Off \/ (chk'[p][k] = chk[p][k] /\ to = "wait" /\ stamp'[k] = stamp[k] /\ (~overlap => told'[k] = told[k]))
                          /\ stamp'[k] = stamp[k] \/ chk[p][k].at \in {"write", "blank"},
         ~overlap => \A k \in Kinds :
             \/ told'[k] = told[k]
             \/ chk[p][k].at = "send" /\ chk[p][k].found /\ told'[k] = told[k] \cup {chk[p][k].on}
  PROVE  NInv'
<1>1. NotifierType'
  BY DEF NInv, NotifierType
<1>2. ASSUME ~overlap PROVE AloneInv' /\ ToldInv' /\ CheckInv'
  <2>1. AloneInv /\ ToldInv /\ CheckInv /\ NotifierType
    BY <1>2 DEF NInv
  <2>2. /\ \A q \in Processes \ {p} : main'[q] = main[q] /\ ~Active(q)
        /\ main'[p] = to
    BY <2>1 DEF AloneInv, NotifierType
  <2>3. AloneInv'
    BY <2>1, <2>2, Calendar DEF AloneInv, Active
  <2>4. ASSUME NEW k \in Kinds
        PROVE  (\A d \in told'[k] : d <= day) /\ (day \in told'[k] => stamp'[k] = day)
    <3>1. (\A d \in told[k] : d <= day) /\ (day \in told[k] => stamp[k] = day)
      BY <2>1 DEF ToldInv
    <3>2. CheckOk(chk[p][k], k, stamp[k])
      BY <2>1 DEF CheckInv
    <3>3. CASE chk[p][k].at = "send"
      BY <1>2, <3>1, <3>2, <3>3 DEF CheckOk
    <3>4. CASE chk[p][k].at # "send"
      BY <1>2, <3>1, <3>2, <3>4 DEF CheckOk
    <3> QED BY <3>3, <3>4
  <2>5. ToldInv'
    BY <2>4 DEF ToldInv
  <2>6. ASSUME NEW q \in Processes, NEW k \in Kinds PROVE CheckOk(chk[q][k], k, stamp[k])'
    <3>1. CASE chk'[q][k].at = "off" /\ ~chk'[q][k].found
      BY <3>1 DEF CheckOk
    <3>2. CASE q = p /\ chk'[p][k] # Off
      BY <1>2, <2>1, <3>2 DEF CheckInv, CheckOk
    <3>3. CASE q # p
      BY <2>1, <2>2, <3>1, <3>3 DEF AloneInv, CheckInv, CheckOk
    <3> QED BY <3>1, <3>2, <3>3, Calendar
  <2>7. CheckInv'
    BY <2>6 DEF CheckInv
  <2> QED BY <2>3, <2>5, <2>7
<1> QED BY <1>1, <1>2 DEF NInv

LEMMA Ended ==
  ASSUME NInv, NEW p \in Processes, Notifier!Gone(p)
  PROVE  /\ chk' \in [Processes -> [Kinds -> Checker]] /\ stamp' \in [Kinds -> Days \cup {NoStamp}]
         /\ \A q \in Processes \ {p} : chk'[q] = chk[q]
         /\ \A k \in Kinds : chk'[p][k] = Off /\ (stamp'[k] = stamp[k] \/ chk[p][k].at \in {"write", "blank"})
<1>1. chk' = [chk EXCEPT ![p] = [k \in Kinds |-> Off]]
  BY DEF Notifier!Gone, Kinds, Off
<1>2. /\ stamp' \in [Kinds -> Days \cup {NoStamp}]
      /\ \A k \in Kinds : stamp'[k] = stamp[k] \/ chk[p][k].at \in {"write", "blank"}
  BY DEF Notifier!Gone, Notifier!Writing, Kinds, Days, NoStamp
<1> QED BY <1>1, <1>2, Calendar DEF NInv, NotifierType

LEMMA CommandFailsPreserves ==
  ASSUME NInv, NEW p \in Processes, Notifier!CommandFails(p)
  PROVE  NInv'
<1>1. /\ Active(p) /\ main' = [main EXCEPT ![p] = "exit"] /\ Notifier!Gone(p)
      /\ UNCHANGED <<day, told, again, overlap>>
  BY DEF Notifier!CommandFails, Notifier!History, Active
<1>2. ~again' /\ told' \in [Kinds -> SUBSET Days]
  BY <1>1 DEF NInv, NotifierType
<1>3. told' = told /\ (overlap' <=> overlap)
  BY <1>1
<1>4. /\ chk' \in [Processes -> [Kinds -> Checker]] /\ stamp' \in [Kinds -> Days \cup {NoStamp}]
      /\ \A q \in Processes \ {p} : chk'[q] = chk[q]
      /\ \A k \in Kinds : chk'[p][k] = Off /\ (stamp'[k] = stamp[k] \/ chk[p][k].at \in {"write", "blank"})
  BY <1>1, Ended
<1> QED BY <1>1, <1>2, <1>3, <1>4, Stopped

LEMMA ReceivePreserves ==
  ASSUME NInv, NEW p \in Processes, Notifier!Receive(p)
  PROVE  NInv'
<1>1. /\ Active(p) /\ main' = [main EXCEPT ![p] = "exit"] /\ Notifier!Gone(p) /\ UNCHANGED day
      /\ chk[p]["gh"].at = "send" /\ (Notifier!Tell(p, "gh") \/ Notifier!History)
  BY DEF Notifier!Receive, Active
<1>2. /\ ~again' /\ told' \in [Kinds -> SUBSET Days] /\ (overlap' <=> overlap)
      /\ ~overlap => /\ told'["ext"] = told["ext"]
                     /\ \/ told'["gh"] = told["gh"]
                        \/ chk[p]["gh"].found /\ told'["gh"] = told["gh"] \cup {chk[p]["gh"].on}
  BY <1>1, Told, Calendar
<1>3. ~overlap => \A k \in Kinds :
        \/ told'[k] = told[k]
        \/ chk[p][k].at = "send" /\ chk[p][k].found /\ told'[k] = told[k] \cup {chk[p][k].on}
  BY <1>1, <1>2, Calendar
<1> QED BY <1>1, <1>2, <1>3, Ended, Stopped

LEMMA PostRunPreserves ==
  ASSUME NInv, NEW p \in Processes, Notifier!PostRun(p)
  PROVE  NInv'
<1>1. /\ Active(p) /\ main' = [main EXCEPT ![p] = "wait"] /\ UNCHANGED <<day, stamp>>
      /\ IF chk[p]["ext"].at = "send" THEN Notifier!Tell(p, "ext") /\ chk' = [chk EXCEPT ![p]["ext"] = Off]
         ELSE chk' = chk /\ Notifier!History
  BY DEF Notifier!PostRun, Active, Off
<1>2. stamp' \in [Kinds -> Days \cup {NoStamp}] /\ chk \in [Processes -> [Kinds -> Checker]]
  BY <1>1 DEF NInv, NotifierType
<1>3. CASE chk[p]["ext"].at = "send"
  <2>1. /\ ~again' /\ told' \in [Kinds -> SUBSET Days] /\ (overlap' <=> overlap)
        /\ ~overlap => /\ told'["gh"] = told["gh"]
                       /\ \/ told'["ext"] = told["ext"]
                          \/ chk[p]["ext"].found /\ told'["ext"] = told["ext"] \cup {chk[p]["ext"].on}
    BY <1>1, <1>3, Told, Calendar
  <2>2. /\ chk' \in [Processes -> [Kinds -> Checker]] /\ chk'[p]["ext"] = Off /\ chk'[p]["gh"] = chk[p]["gh"]
        /\ \A q \in Processes \ {p} : chk'[q] = chk[q]
    BY <1>1, <1>2, <1>3, Calendar
  <2> QED BY <1>1, <1>2, <1>3, <2>1, <2>2, Stopped, Calendar
<1>4. CASE chk[p]["ext"].at # "send"
  <2>1. ~again' /\ told' \in [Kinds -> SUBSET Days] /\ UNCHANGED <<chk, told, overlap>>
    BY <1>1, <1>4 DEF NInv, NotifierType, Notifier!History
  <2> QED BY <1>1, <1>2, <2>1, Stopped, Calendar
<1> QED BY <1>3, <1>4

LEMMA NotifierPreserves == NInv /\ Notifier!Next => NInv'
BY NextDayPreserves, BeginPreserves, CommandFailsPreserves, CommandSucceedsPreserves, PostRunPreserves,
   ReceivePreserves, ReadStatePreserves, AnswerPreserves, AnswerAgainPreserves, RequestFailsPreserves,
   WriteStatePreserves
DEF Notifier!Next, Notifier!Main, Notifier!Checks, Kinds
-----------------------------------------------------------------------------
\* The two together.
LEMMA NotifierLeft == NInv /\ UNCHANGED notifier => NInv'
<1> SUFFICES ASSUME NInv, UNCHANGED notifier PROVE NInv'
  OBVIOUS
<1>1. UNCHANGED <<day, stamp, main, chk, told, again, overlap>>
  BY DEF notifier
<1> QED BY <1>1 DEF NInv, NotifierType, AloneInv, Active, ToldInv, CheckInv, CheckOk

LEMMA CommandsStart == CommandsInit => CommandsInv
<1> SUFFICES ASSUME CommandsInit PROVE CommandsInv
  OBVIOUS
<1>1. stage = "manage" /\ IInv
  BY InitIInv DEF CommandsInit
<1>2. Quiet
  BY DEF CommandsInit, Notifier!Init, Quiet, Kinds, Off
<1>3. stamp \in [Kinds -> Days \cup {NoStamp}] /\ ~again
  BY Calendar DEF CommandsInit, Notifier!Init, Kinds, Days, NoStamp, Notifier!Kinds, Notifier!Days
<1>4. NotifierType
  BY <1>2, <1>3, Calendar DEF Quiet, NotifierType
<1>5. AloneInv /\ ToldInv /\ CheckInv
  BY <1>2, Calendar DEF Quiet, AloneInv, Active, ToldInv, CheckInv, CheckOk
<1> QED BY <1>1, <1>2, <1>3, <1>4, <1>5 DEF CommandsInv, NInv

LEMMA ThenRunPreserves == CommandsInv /\ ThenRun => CommandsInv'
<1> SUFFICES ASSUME CommandsInv, ThenRun PROVE CommandsInv'
  OBVIOUS
<1>1. /\ stage = "manage" /\ stage' = "run" /\ pc' = "idle" /\ wanted' = 0 /\ res' = "none"
      /\ manifest' = [tag |-> 1, pinned |-> FALSE] /\ exe' = 1
      /\ UNCHANGED <<day, main, chk, told, again, overlap>>
  BY DEF ThenRun
<1>2. stamp' \in [Kinds -> Days \cup {NoStamp}]
  BY Calendar DEF ThenRun, Kinds, NoStamp
<1>3. NInv /\ Quiet
  BY <1>1 DEF CommandsInv
<1>4. NotifierType'
  BY <1>1, <1>2, <1>3 DEF NInv, NotifierType
<1>5. AloneInv' /\ ToldInv' /\ CheckInv'
  BY <1>1, <1>3, Calendar DEF Quiet, AloneInv, Active, ToldInv, CheckInv, CheckOk
<1>6. LeftAlone'
  BY <1>1 DEF LeftAlone, Repairable
<1> QED BY <1>1, <1>3, <1>4, <1>5, <1>6 DEF CommandsInv, NInv

LEMMA CommandsPreserve == CommandsInv /\ [CommandsNext]_allVars => CommandsInv'
<1> SUFFICES ASSUME CommandsInv, [CommandsNext]_allVars PROVE CommandsInv'
  OBVIOUS
<1>1. ASSUME UNCHANGED notifier, Quiet PROVE Quiet'
  BY <1>1 DEF notifier, Quiet
<1>2. ASSUME LeftAlone, UNCHANGED <<service, disk, command, history>> PROVE LeftAlone'
  <2>1. UNCHANGED <<latest, wanted, pc, res, manifest, exe, torn>>
    BY <1>2 DEF service, disk, command, history
  <2> QED BY <1>2, <2>1 DEF LeftAlone, Repairable
<1>3. CASE Managing(Next)
  BY <1>1, <1>3, NextPreserves, NotifierLeft DEF CommandsInv, Managing
<1>4. CASE ThenRun
  BY <1>4, ThenRunPreserves
<1>5. CASE Running(Notifier!Next)
  BY <1>2, <1>5, NotifierPreserves DEF CommandsInv, Running
<1>6. CASE UNCHANGED allVars
  <2>1. UNCHANGED <<stage, vars, notifier>>
    BY <1>6 DEF allVars
  <2>2. UNCHANGED <<service, disk, command, history>>
    BY <2>1 DEF vars
  <2> QED BY <1>1, <1>2, <2>1, <2>2, NextPreserves, NotifierLeft DEF CommandsInv
<1> QED BY <1>3, <1>4, <1>5, <1>6 DEF CommandsNext

THEOREM CommandsInvariance == CommandsSpec => []CommandsInv
BY CommandsStart, CommandsPreserve, PTL DEF CommandsSpec

\* The user is told of a new release at most once a day by processes that do not run at the
\* same time, whatever fails and whenever a process ends (TellOnce; CheckForUpdate,
\* checkForExtUpdate and the state file).
THEOREM ToldOnce == CommandsSpec => []TellOnce
<1>1. CommandsInv => TellOnce
  BY DEF CommandsInv, NInv, TellOnce, Notifier!TellOnce
<1> QED BY CommandsInvariance, <1>1, PTL

\* Commands keep what ExtensionManager promises of the pinned version and of the reports.
THEOREM CommandsKeepPins == CommandsSpec => []PinKept
<1>1. CommandsInv => PinKept
  BY DEF CommandsInv, IInv, PinInv, PinKept, LeftAlone
<1> QED BY CommandsInvariance, <1>1, PTL

THEOREM CommandsReportTrue == CommandsSpec => []ReportTrue
<1>1. CommandsInv => ReportTrue
  BY DEF CommandsInv, IInv, ReportTrue, LeftAlone
<1> QED BY CommandsInvariance, <1>1, PTL
=============================================================================
