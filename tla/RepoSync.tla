------------------------------ MODULE RepoSync ------------------------------
(***************************************************************************)
(* `gh repo sync`: a branch of the clone is brought to that of the         *)
(* repository it comes from, by looking at the clone with several git      *)
(* commands and then moving the branch with one; or a fork on the server   *)
(* is brought to its parent by requests.                                   *)
(***************************************************************************)
EXTENDS GitRepository

SyncLocal == \E b \in Branches, f \in BOOLEAN :
    Begin([NoOp EXCEPT !.name = "sync", !.branch = b, !.force = f], "sync_fetch")
SyncFork == \E f \in BOOLEAN :
    /\ remote["fork"]["main"] # {}
    /\ Begin([NoOp EXCEPT !.name = "sync_fork", !.force = f], "merge_upstream")

\* gitExecuter.Fetch
SyncFetch ==
    /\ pc = "sync_fetch" /\ UNCHANGED <<server, config, has, useForce, cmds, seen, deleteBranch, dest, push, tries>> /\ Frame
    /\ \/ Fetch("base", op.branch) /\ wanted' = fetchHead' /\ Goto("sync_has") /\ NoFault
       \/ remote["base"][op.branch] = {} /\ Return("error") /\ NoFault /\ UNCHANGED <<tree, wanted>>
       \/ Failed /\ UNCHANGED <<tree, wanted>>

\* HasLocalBranch: a failing git looks like a missing branch.
HasLocalBranch ==
    /\ pc = "sync_has" /\ OnlyFound /\ UNCHANGED <<useForce, wanted, cmds, seen, deleteBranch, dest, push, tries>>
    /\ \/ has' = (branch[op.branch] # {}) /\ NoFault
       \/ has' = FALSE /\ Fault
    /\ Goto(IF has' THEN "sync_compare" ELSE "sync_current")

\* IsAncestor(branch, "FETCH_HEAD"): here a failing git looks like a branch that
\* has diverged.  CompareForced and LookAway are mutants.
IsAncestor(b) == branch[b] \subseteq fetchHead
CompareForced(fastForward) == useForce' = (useForce /\ ~fastForward) /\ Goto("sync_current")
Compare(fastForward) ==
    IF ~fastForward /\ ~useForce THEN Return("error") /\ UNCHANGED useForce
    ELSE useForce' = (useForce /\ ~fastForward) /\ Goto("sync_current")
CompareBranch ==
    /\ pc = "sync_compare" /\ OnlyFound /\ UNCHANGED <<has, wanted, cmds, seen, deleteBranch, dest, push, tries>>
    /\ \/ Compare(IsAncestor(op.branch)) /\ NoFault
       \/ Compare(FALSE) /\ Fault

CurrentBranch ==
    /\ pc = "sync_current" /\ OnlyTree /\ UNCHANGED tree
    /\ \/ Goto(IF head = op.branch THEN "sync_dirty" ELSE "sync_ref") /\ NoFault
       \/ Failed

LookAway == Goto("sync_tree")
Look == IF dirty THEN Return("error") ELSE Goto("sync_tree")
IsDirty ==
    /\ pc = "sync_dirty" /\ OnlyTree /\ UNCHANGED tree
    /\ \/ Look /\ NoFault
       \/ Failed

\* The checked-out branch: `git reset --hard` or `git merge --ff-only`.
MoveTree ==
    /\ pc = "sync_tree" /\ OnlyTree
    /\ \/ /\ IF useForce THEN ResetHard(fetchHead) ELSE MergeFastForward(fetchHead)
          /\ Return("ok") /\ NoFault
       \/ ~useForce /\ CannotFastForward(fetchHead) /\ Return("error") /\ NoFault /\ UNCHANGED tree
       \/ Failed /\ UNCHANGED tree

\* Another branch: `git update-ref`, which asks no questions, or `git branch`,
\* which wants it to be new, and then --set-upstream-to, which may fail.
SetBranch(b, c) ==
    /\ branch' = [branch EXCEPT ![b] = c]
    /\ UNCHANGED <<head, detached, tracking, fetchHead>>
    /\ dirty' = (dirty \/ (head = b /\ branch[b] # c))
MoveRef ==
    /\ pc = "sync_ref" /\ OnlyTree
    /\ \/ (has \/ branch[op.branch] = {}) /\ SetBranch(op.branch, fetchHead) /\ Return("ok") /\ NoFault
       \/ ~has /\ branch[op.branch] = {} /\ SetBranch(op.branch, fetchHead) /\ Failed
       \/ ~has /\ branch[op.branch] # {} /\ Return("error") /\ NoFault /\ UNCHANGED tree
       \/ Failed /\ UNCHANGED tree

\* triggerUpstreamMerge: the server merges; on a conflict gh falls back to the
\* low-level interface.  An answer may get lost.
MergeUpstream ==
    /\ pc = "merge_upstream" /\ OnlyServer /\ UNCHANGED pr
    /\ \/ /\ remote' = [remote EXCEPT !["fork"]["main"] = @ \cup remote["base"]["main"]]
          /\ Answered
       \/ Goto("latest") /\ NoFault /\ UNCHANGED remote
       \/ Failed /\ UNCHANGED remote

LatestCommit ==
    /\ pc = "latest" /\ OnlyFound /\ UNCHANGED <<has, useForce, cmds, seen, deleteBranch, dest, push, tries>>
    /\ \/ wanted' = remote["base"]["main"] /\ Goto("sync_fork") /\ NoFault
       \/ Failed /\ UNCHANGED wanted

\* syncFork: the server refuses what is not a fast-forward, unless forced.
Accepts(c) == op.force \/ remote["fork"]["main"] \subseteq c
UpdateFork ==
    /\ pc = "sync_fork" /\ OnlyServer /\ UNCHANGED pr
    /\ \/ /\ Accepts(wanted) /\ remote' = [remote EXCEPT !["fork"]["main"] = wanted]
          /\ Answered
       \/ ~Accepts(wanted) /\ Return("error") /\ NoFault /\ UNCHANGED remote
       \/ Failed /\ UNCHANGED remote

RepoSyncNext ==
    \/ SyncLocal \/ SyncFetch \/ HasLocalBranch \/ CompareBranch \/ CurrentBranch \/ IsDirty
    \/ MoveTree \/ MoveRef \/ SyncFork \/ MergeUpstream \/ LatestCommit \/ UpdateFork
=============================================================================
