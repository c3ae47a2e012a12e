------------------------------ MODULE RepoSetup ------------------------------
(***************************************************************************)
(* `gh repo create`, `fork` and `clone`: chains of requests and git        *)
(* commands that make a repository on the server, a clone of it here, or   *)
(* give a clone another remote.  Each may fail where it is, and is run     *)
(* again; a fork and a copy of a template take their time to be there.     *)
(***************************************************************************)
EXTENDS Naturals

CONSTANTS MaxRuns,    \* bound on how often the command is run
          MaxFaults   \* bound on failures

ASSUME SetupAssumption == MaxRuns \in Nat \ {0} /\ MaxFaults \in Nat

Repos == {"parent", "fork", "new"}
Remotes == {"origin", "upstream"}

VARIABLES
    server, ready,   \* the repositories on the server, and those whose content is there
    dir,             \* the directory of the new clone: "absent", "empty" (git init) or "clone"
    remotes,         \* the remotes of the clone that the command is about
    resolution,      \* gh-resolved: the remote of the base repository, or "none"
    pushed,          \* the commits of the local repository are in the new one
    op, pc, res,
    tries,           \* how often git clone has been tried again
    before,          \* history: the repositories that had a remote when the command was first run
    clean,           \* history: nothing has failed and nobody has interfered in this run
    runs, meddled, faults

vars == <<server, ready, dir, remotes, resolution, pushed, op, pc, res, tries, before, clean, runs, meddled, faults>>
history == <<before, runs>>
disk == <<dir, remotes, resolution>>

\* What is asked for: create an empty repository, one with content (a template, a README),
\* or one for the repository here; fork the repository of the clone here or another one;
\* clone a fork.  `flag`: with --clone, --push or --remote; `commits`: the repository here
\* has some; `rename`: --remote-name is not given.
Op == [name : {"scratch", "template", "local", "fork_here", "fork_clone", "clone"},
       flag : BOOLEAN, commits : BOOLEAN, rename : BOOLEAN]

TypeOK ==
    /\ server \subseteq Repos /\ ready \subseteq server
    /\ dir \in {"absent", "empty", "clone"}
    /\ remotes \in [Remotes -> Repos \cup {"none"}]
    /\ resolution \in Remotes \cup {"none"} /\ pushed \in BOOLEAN
    /\ op \in Op
    /\ pc \in {"check", "create", "update", "init", "add", "push", "fork", "rename_fork", "find", "rename", "clone",
               "add_upstream", "fetch", "resolve", "done"}
    /\ res \in {"none", "ok", "error"} /\ tries \in 0..3
    /\ before \subseteq Repos /\ clean \in BOOLEAN
    /\ runs \in 1..MaxRuns /\ meddled \in BOOLEAN /\ faults \in 0..MaxFaults

NoFault == UNCHANGED <<faults, clean>>
Fault == faults < MaxFaults /\ faults' = faults + 1 /\ clean' = FALSE
Goto(l) == pc' = l /\ UNCHANGED res
Return(r) == pc' = "done" /\ res' = r
Failed == Fault /\ Return("error")
Done == Return("ok") /\ NoFault
Frame == UNCHANGED <<op, history, meddled>>
OnlyServer == UNCHANGED <<disk, pushed, tries>> /\ Frame
OnlyDisk == UNCHANGED <<server, ready, pushed, tries>> /\ Frame
Has(r) == \E x \in Remotes : remotes[x] = r

-----------------------------------------------------------------------------
\* create.  Before anything is created, createFromLocal looks whether there is
\* a repository here with commits to push.
Pushable == op.commits \/ ~op.flag
Check ==
    /\ pc = "check" /\ OnlyServer /\ UNCHANGED <<server, ready>>
    /\ \/ Pushable /\ Goto("create") /\ NoFault
       \/ ~Pushable /\ Return("error") /\ NoFault
       \/ Failed

\* repoCreate, whose answer may get lost: a name is taken once only.  The copy of a template
\* may need a second request for its settings.
AfterUpdate == IF op.flag THEN Goto("clone") ELSE Return("ok")
AfterCreate ==
    CASE op.name = "template" -> Goto("update") \/ AfterUpdate
      [] op.name = "local" -> Goto("add")
      [] op.name = "scratch" /\ op.flag -> Goto("init")
      [] OTHER -> Return("ok")
Creates == server' = server \cup {"new"} /\ ready' = IF op.name = "template" THEN ready ELSE ready \cup {"new"}
RepoCreate ==
    /\ pc = "create" /\ OnlyServer
    /\ \/ "new" \notin server /\ Creates /\ ((AfterCreate /\ NoFault) \/ Failed)
       \/ "new" \in server /\ Return("error") /\ NoFault /\ UNCHANGED <<server, ready>>
       \/ Failed /\ UNCHANGED <<server, ready>>

UpdateRepository ==
    /\ pc = "update" /\ OnlyServer /\ UNCHANGED <<server, ready>>
    /\ \/ AfterUpdate /\ NoFault
       \/ Failed

\* localInit: git init takes a directory that is there for its own.
LocalInit ==
    /\ pc = "init" /\ OnlyDisk /\ UNCHANGED <<remotes, resolution>>
    /\ \/ dir' = (IF dir = "absent" THEN "empty" ELSE dir) /\ Goto("add") /\ NoFault
       \/ Failed /\ UNCHANGED dir

\* The remote `origin`, of localInit and sourceInit, and of fork: git refuses a name that is taken.
Wanted == IF op.name = "fork_here" THEN "fork" ELSE "new"
AddOrigin ==
    /\ pc = "add" /\ OnlyDisk /\ UNCHANGED <<dir, resolution>>
    /\ \/ /\ remotes["origin"] = "none" /\ remotes' = [remotes EXCEPT !["origin"] = Wanted]
          /\ (IF op.name = "local" /\ op.flag THEN Goto("push") ELSE Return("ok")) /\ NoFault
       \/ remotes["origin"] # "none" /\ Return("error") /\ NoFault /\ UNCHANGED remotes
       \/ Failed /\ UNCHANGED remotes

Push ==
    /\ pc = "push" /\ UNCHANGED <<server, ready, disk, tries>> /\ Frame
    /\ \/ pushed' = TRUE /\ (Done \/ Failed)
       \/ Failed /\ UNCHANGED pushed

-----------------------------------------------------------------------------
\* fork.  The service answers with the fork that is there already, which --fork-name
\* may rename.
AfterFork ==
    CASE op.name = "fork_here" /\ op.flag -> Goto("find")
      [] op.name = "fork_clone" /\ op.flag -> Goto("clone")
      [] OTHER -> Return("ok")
ForkRepo ==
    /\ pc = "fork" /\ OnlyServer /\ UNCHANGED ready
    /\ \/ server' = server \cup {"fork"} /\ (((AfterFork \/ Goto("rename_fork")) /\ NoFault) \/ Failed)
       \/ Failed /\ UNCHANGED server
RenameFork ==
    /\ pc = "rename_fork" /\ OnlyServer /\ UNCHANGED <<server, ready>>
    /\ (AfterFork /\ NoFault) \/ Failed

\* In a clone of the parent: use the remote of the fork if there is one; otherwise make
\* way for it, if --remote-name is not given, by renaming `origin`.
NeverExisting == FALSE
ExistingRemote == Has("fork")
FindRemote ==
    /\ pc = "find" /\ OnlyServer /\ UNCHANGED <<server, ready>>
    /\ \/ /\ NoFault
          /\ CASE ExistingRemote -> Return("ok")
               [] ~ExistingRemote /\ remotes["origin"] = "none" -> Goto("add")
               [] ~ExistingRemote /\ remotes["origin"] # "none" /\ op.rename -> Goto("rename")
               [] OTHER -> Return("error")
       \/ Failed

Renameable == remotes["upstream"] = "none"
RenameRemote ==
    /\ pc = "rename" /\ OnlyDisk /\ UNCHANGED <<dir, resolution>>
    /\ \/ /\ Renameable /\ remotes["origin"] # "none" /\ Goto("add") /\ NoFault
          /\ remotes' = [remotes EXCEPT !["upstream"] = remotes["origin"], !["origin"] = "none"]
       \/ ~(Renameable /\ remotes["origin"] # "none") /\ Return("error") /\ NoFault /\ UNCHANGED remotes
       \/ Failed /\ UNCHANGED remotes

-----------------------------------------------------------------------------
\* clone.  git exits with 128 when the content is not there yet, and when the directory
\* is; create and fork then try three times more.  A clone that fails leaves no directory.
Source == IF op.name = "template" THEN "new" ELSE "fork"
MaxRetries == IF op.name = "clone" THEN 0 ELSE 3
Cloneable == Source \in ready /\ dir = "absent"
Cloned ==
    /\ dir' = "clone" /\ remotes' = [remotes EXCEPT !["origin"] = Source]
    /\ IF Source = "fork" THEN Goto("add_upstream") ELSE Return("ok")
Clone ==
    /\ pc = "clone" /\ UNCHANGED <<server, ready, pushed, resolution>> /\ Frame
    /\ \/ Cloneable /\ Cloned /\ NoFault /\ UNCHANGED tries
       \/ ~Cloneable /\ tries < MaxRetries /\ tries' = tries + 1 /\ Goto("clone") /\ NoFault /\ UNCHANGED <<dir, remotes>>
       \/ ~Cloneable /\ tries = MaxRetries /\ Return("error") /\ NoFault /\ UNCHANGED <<tries, dir, remotes>>
       \/ Failed /\ UNCHANGED <<tries, dir, remotes>>

\* The parent of the fork becomes `upstream` and the base repository; fork sets this
\* before it fetches, clone afterwards.
ThenFetch == IF op.name = "clone" THEN "fetch" ELSE "resolve"
AddUpstream ==
    /\ pc = "add_upstream" /\ OnlyDisk /\ UNCHANGED <<dir, resolution>>
    /\ \/ remotes["upstream"] = "none" /\ remotes' = [remotes EXCEPT !["upstream"] = "parent"] /\ Goto(ThenFetch) /\ NoFault
       \/ remotes["upstream"] # "none" /\ Return("error") /\ NoFault /\ UNCHANGED remotes
       \/ Failed /\ UNCHANGED remotes

\* With SetRemoteBranches, which follows it in clone: the same is left when either fails.
Fetch ==
    /\ pc = "fetch" /\ OnlyDisk /\ UNCHANGED disk
    /\ \/ (IF op.name = "clone" THEN Goto("resolve") ELSE Return("ok")) /\ NoFault
       \/ Failed

SetResolution == resolution' = "upstream"
SetRemoteResolution ==
    /\ pc = "resolve" /\ OnlyDisk /\ UNCHANGED <<dir, remotes>>
    /\ \/ SetResolution /\ (IF op.name = "clone" THEN Return("ok") ELSE Goto("fetch")) /\ NoFault
       \/ Failed /\ UNCHANGED resolution

-----------------------------------------------------------------------------
\* The service copies; the user adds a remote; and runs a command that failed again.
Copied ==
    /\ \E r \in server \ ready : ready' = ready \cup {r}
    /\ UNCHANGED <<server, disk, pushed, op, pc, res, tries, before, clean, runs, meddled, faults>>

Others ==
    /\ ~meddled /\ meddled' = TRUE /\ clean' = FALSE
    /\ \E x \in Remotes : remotes[x] = "none" /\ remotes' = [remotes EXCEPT ![x] = "parent"]
    /\ dir # "absent" \/ op.name \in {"local", "fork_here"}
    /\ UNCHANGED <<server, ready, dir, resolution, pushed, op, pc, res, tries, history, faults>>

FirstStep == CASE op.name = "local" -> "check" [] op.name \in {"scratch", "template"} -> "create"
               [] op.name \in {"fork_here", "fork_clone"} -> "fork" [] OTHER -> "clone"
Again ==
    /\ pc = "done" /\ res = "error" /\ runs < MaxRuns
    /\ runs' = runs + 1 /\ pc' = FirstStep /\ res' = "none" /\ tries' = 0 /\ clean' = TRUE
    /\ UNCHANGED <<server, ready, disk, pushed, op, before, meddled, faults>>

Init ==
    /\ op \in Op
    /\ op.name # "local" => ~op.commits
    /\ op.name # "fork_here" => ~op.rename
    /\ op.name = "clone" => op.flag
    /\ server \in {{"parent"}, {"parent", "fork"}} /\ ready = server
    /\ op.name = "clone" => "fork" \in server
    /\ dir = "absent"
    /\ remotes \in [Remotes -> {"parent", "fork", "none"}]
    /\ Has("fork") => "fork" \in server /\ op.name = "fork_here"
    /\ op.name = "fork_here" => \E x \in Remotes : remotes[x] # "none"
    /\ op.name \in {"local", "fork_here"} \/ remotes = [x \in Remotes |-> "none"]
    /\ before = {r \in Repos : Has(r)}
    /\ resolution = "none" /\ pushed = FALSE
    /\ pc = FirstStep /\ res = "none" /\ tries = 0 /\ clean = TRUE
    /\ runs = 1 /\ meddled = FALSE /\ faults = 0

Setup ==
    \/ Check \/ RepoCreate \/ UpdateRepository \/ LocalInit \/ AddOrigin \/ Push \/ ForkRepo \/ RenameFork \/ FindRemote
    \/ RenameRemote \/ Clone \/ AddUpstream \/ Fetch \/ SetRemoteResolution
Next == Setup \/ Copied \/ Others \/ Again
Spec == Init /\ [][Next]_vars

-----------------------------------------------------------------------------
\* Properties.

\* What a success promises: the new clone or the remote is there and names the right
\* repository, a clone of a fork has its parent for the base repository, commits
\* are pushed when that was asked for.
Promised ==
    /\ op.name \in {"scratch", "template"} => "new" \in server /\ (op.flag => dir # "absent" /\ remotes["origin"] = "new")
    /\ op.name = "local" => remotes["origin"] = "new" /\ (op.flag => pushed)
    /\ op.name = "fork_here" /\ op.flag => Has("fork")
    /\ op.name \in {"fork_clone", "clone"} /\ op.flag =>
         remotes = [origin |-> "fork", upstream |-> "parent"] /\ resolution = "upstream"

\* Whatever fails and is run again, whoever else adds a remote: success keeps its
\* promise; no repository that had a remote loses it; nothing is created on
\* the server for want of commits to push; and fork --remote in a clone fails by
\* itself only where the fork has no remote and that of another repository is in its way, not because of what
\* an earlier attempt has left behind.
SetUpRight ==
    /\ res = "ok" => Promised
    /\ \A r \in before : Has(r)
    /\ op.name = "local" /\ op.flag /\ ~op.commits => "new" \notin server
    /\ op.name = "fork_here" /\ res = "error" /\ clean =>
         ~Has("fork") /\ remotes["origin"] # "none" /\ (op.rename => remotes["upstream"] # "none")
=============================================================================
